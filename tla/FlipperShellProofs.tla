------------------------- MODULE FlipperShellProofs -------------------------
(***************************************************************************)
(* Proofs about FlipperLink: what the device reads as shell commands, and  *)
(* the RPC layer above a connected transport.                              *)
(***************************************************************************)
EXTENDS FlipperLinkProofs

-----------------------------------------------------------------------------
(* ShellAfter. *)

\* Only the items read so far matter.
LEMMA ShellAgrees ==
    ASSUME NEW s, NEW r, NEW d, NEW n \in Nat,
           \A i \in 1..n : r[i] = s[i], ShellAfter(s, d, n)
    PROVE  ShellAfter(r, d, n)
BY DEF ShellAfter

\* A device that falls back to its shell by itself is there a fortiori.
LEMMA ShellFallback ==
    ASSUME NEW s, NEW d, NEW n \in Nat, ShellAfter(s, d, n)
    PROVE  ShellAfter(s, "CLI", n)
BY DEF ShellAfter

\* Sending a StopSession or a Ctrl-C leaves the device in its shell.
LEMMA ShellByStop ==
    ASSUME NEW s \in Seq(TxItem), NEW d, NEW e \in TxItem, e.k \in {"stop", "ctrlc"}
    PROVE  ShellAfter(Append(s, e), d, Len(Append(s, e)))
<1> DEFINE r == Append(s, e)
<1>1. Len(r) = Len(s) + 1 /\ r[Len(r)] = e /\ Len(r) \in Nat
  OBVIOUS
<1>2. \A i \in 1..Len(r) : r[i].k = "start" => i # Len(r)
  BY <1>1
<1> HIDE DEF r
<1>3. Len(r) \in 1..Len(r) /\ r[Len(r)].k \in {"stop", "ctrlc"}
  BY <1>1
<1>4. \A i \in 1..Len(r) : r[i].k = "start" => Len(r) \in i+1..Len(r)
  BY <1>1, <1>2
<1>5. ShellAfter(r, d, Len(r))
  BY <1>3, <1>4 DEF ShellAfter
<1> QED BY <1>5 DEF r

\* The device reads one item and is in its shell if that item puts it there, or if
\* it was there and the item is not start_rpc_session.
LEMMA ShellTail ==
    ASSUME NEW s \in Seq(TxItem), s # <<>>, NEW d, NEW e, NEW n \in 1..Len(s),
           ShellAfter(s, d, n),
           Head(s).k \in {"stop", "ctrlc"} => e = "CLI",
           d = "CLI" /\ Head(s).k # "start" => e = "CLI"
    PROVE  ShellAfter(Tail(s), e, n - 1)
<1> DEFINE r == Tail(s)
<1>1. \A i \in 1..(n-1) : r[i] = s[i+1]
  OBVIOUS
<1>2. Head(s) = s[1]
  OBVIOUS
<1>3. n \in Nat /\ n >= 1
  OBVIOUS
<1> HIDE DEF r
<1>4. e = "CLI" \/ \E j \in 1..(n-1) : r[j].k \in {"stop", "ctrlc"}
  <2> SUFFICES ASSUME e # "CLI" PROVE \E j \in 1..(n-1) : r[j].k \in {"stop", "ctrlc"}
    OBVIOUS
  <2>1. PICK j \in 2..n : s[j].k \in {"stop", "ctrlc"}
    <3>1. s[1].k \notin {"stop", "ctrlc"}
      BY <1>2
    <3>2. CASE s[1].k = "start"
      <4>1. 1 \in 1..n
        BY <1>3
      <4>2. \E j \in 1+1..n : s[j].k \in {"stop", "ctrlc"}
        BY <3>2, <4>1 DEF ShellAfter
      <4> QED BY <4>2
    <3>3. CASE s[1].k # "start"
      <4>1. d # "CLI"
        BY <3>3, <1>2
      <4>2. PICK j \in 1..n : s[j].k \in {"stop", "ctrlc"}
        BY <4>1 DEF ShellAfter
      <4>3. j # 1
        BY <3>1, <4>2
      <4> QED BY <4>2, <4>3, <1>3
    <3> QED BY <3>2, <3>3
  <2>2. j - 1 \in 1..(n-1) /\ (j - 1) + 1 = j
    BY <1>3
  <2>3. r[j-1] = s[j]
    BY <1>1, <2>2
  <2> QED BY <2>1, <2>2, <2>3
<1>5. ASSUME NEW i \in 1..(n-1), r[i].k = "start"
      PROVE  \E j \in i+1..(n-1) : r[j].k \in {"stop", "ctrlc"}
  <2>1. i + 1 \in 1..n /\ s[i+1].k = "start"
    BY <1>1, <1>3, <1>5
  <2>2. PICK j \in (i+1)+1..n : s[j].k \in {"stop", "ctrlc"}
    BY <2>1 DEF ShellAfter
  <2>3. j - 1 \in i+1..(n-1) /\ j - 1 \in 1..(n-1) /\ (j - 1) + 1 = j
    BY <1>3
  <2>4. r[j-1] = s[j]
    BY <1>1, <2>3
  <2> QED BY <2>2, <2>3, <2>4
<1>6. ShellAfter(r, e, n - 1)
  BY <1>4, <1>5 DEF ShellAfter
<1> QED BY <1>6 DEF r

-----------------------------------------------------------------------------
(* The two parts of ShellInStep. *)

\* A host step appends, a disconnect cuts, and a reset empties the wire: the commands
\* that are left were there before, behind the same items.
LEMMA CommandsKept ==
    ASSUME TypeOK, CommandsFollowStop, medium' = medium, dmode' \in {dmode, "CLI"},
           tx' \in Seq(TxItem),
           \A i \in 1..Len(tx') : tx'[i].k = "cmd" =>
             i \in 1..Len(tx) /\ \A j \in 1..i : tx'[j] = tx[j]
    PROVE  CommandsFollowStop'
<1> SUFFICES ASSUME medium = "usb", NEW i \in 1..Len(tx'), tx'[i].k = "cmd"
             PROVE  ShellAfter(tx', dmode', i - 1)
  BY DEF CommandsFollowStop
<1>1. i \in 1..Len(tx) /\ tx[i].k = "cmd" /\ i - 1 \in Nat
  <2>1. i \in Nat /\ i >= 1
    OBVIOUS
  <2>2. i \in 1..Len(tx) /\ i \in 1..i
    BY <2>1
  <2> QED BY <2>1, <2>2
<1>2. ShellAfter(tx, dmode, i - 1)
  BY <1>1 DEF CommandsFollowStop
<1>3. \A j \in 1..(i-1) : tx'[j] = tx[j]
  <2>1. \A j \in 1..(i-1) : j \in 1..i
    BY <1>1
  <2> QED BY <2>1
<1>4. ShellAfter(tx', dmode, i - 1)
  BY <1>1, <1>2, <1>3, ShellAgrees
<1> QED BY <1>1, <1>4, ShellFallback

\* The wire is untouched.
LEMMA CommandsStill ==
    ASSUME TypeOK, CommandsFollowStop, medium' = medium, dmode' \in {dmode, "CLI"}, tx' = tx
    PROVE  CommandsFollowStop'
<1>1. tx \in Seq(TxItem)
  BY DEF TypeOK, WireOK
<1> QED BY <1>1, CommandsKept

\* Something other than a command is sent.
LEMMA CommandsAppend ==
    ASSUME TypeOK, CommandsFollowStop, medium' = medium, dmode' = dmode,
           NEW e \in TxItem, e.k # "cmd", tx' = Append(tx, e)
    PROVE  CommandsFollowStop'
<1>1. tx \in Seq(TxItem)
  BY DEF TypeOK, WireOK
<1>2. \A i \in 1..Len(tx') : tx'[i].k = "cmd" =>
        i \in 1..Len(tx) /\ \A j \in 1..i : tx'[j] = tx[j]
  BY <1>1
<1>3. tx' \in Seq(TxItem)
  BY <1>1, AppendType
<1> QED BY <1>2, <1>3, CommandsKept

\* The wire is cut.
LEMMA CommandsPrefix ==
    ASSUME TypeOK, CommandsFollowStop, medium' = medium, dmode' = dmode,
           tx' \in Prefixes(tx)
    PROVE  CommandsFollowStop'
<1>1. tx \in Seq(TxItem)
  BY DEF TypeOK, WireOK
<1>2. PICK n \in 0..Len(tx) : tx' = SubSeq(tx, 1, n)
  BY DEF Prefixes
<1>3. \A i \in 1..Len(tx') : i \in 1..Len(tx) /\ \A j \in 1..i : tx'[j] = tx[j]
  BY <1>1, <1>2
<1>4. tx' \in Seq(TxItem)
  BY <1>1, PrefixType
<1> QED BY <1>3, <1>4, CommandsKept

\* An empty wire carries no command.
LEMMA CommandsNone ==
    ASSUME tx' = <<>> PROVE CommandsFollowStop'
BY DEF CommandsFollowStop

\* The device reads one item and follows it into or out of its shell.
LEMMA CommandsRead ==
    ASSUME TypeOK, CommandsFollowStop, medium' = medium, tx # <<>>, tx' = Tail(tx),
           Head(tx).k \in {"stop", "ctrlc"} => dmode' = "CLI",
           dmode = "CLI" /\ Head(tx).k # "start" => dmode' = "CLI"
    PROVE  CommandsFollowStop'
<1>1. tx \in Seq(TxItem)
  BY DEF TypeOK, WireOK
<1> SUFFICES ASSUME medium = "usb", NEW i \in 1..Len(tx'), tx'[i].k = "cmd"
             PROVE  ShellAfter(tx', dmode', i - 1)
  BY DEF CommandsFollowStop
<1>2. i + 1 \in 1..Len(tx) /\ tx[i+1].k = "cmd" /\ i \in 1..Len(tx) /\ (i + 1) - 1 = i
  BY <1>1
<1>3. ShellAfter(tx, dmode, i)
  BY <1>2 DEF CommandsFollowStop
<1> QED BY <1>1, <1>2, <1>3, ShellTail

\* Where a step leaves the holder of the lock when it is not about to send a command.
Elsewhere(t) == lock' \in {t, NoTask} /\ call'[t].pc \notin {"stopped", "prompt"}

\* Nobody else is about to send one.
LEMMA StopElsewhere ==
    ASSUME NEW t \in Tasks, Elsewhere(t)
    PROVE  StopComesFirst'
BY LinkAssumption DEF StopComesFirst, Elsewhere

\* The holder stays where it is, and so does the wire.
LEMMA StopStill ==
    ASSUME StopComesFirst, lock' = lock, tx' = tx, dmode' = dmode, medium' = medium,
           \A u \in Tasks : lock = u => call'[u] = call[u]
    PROVE  StopComesFirst'
BY DEF StopComesFirst

\* A torn exchange sends no whole command.
LEMMA StopTorn ==
    ASSUME NEW calls \in [Tasks -> Call], call' = Tear(calls), lock' = lock
    PROVE  StopComesFirst'
<1>1. \A u \in Tasks : lock = u => call'[u].torn
  BY DEF Tear, Call
<1> QED BY <1>1 DEF StopComesFirst

\* A call that ends gives the lock back.
LEMMA FinishElsewhere ==
    ASSUME CallsOK, NEW t \in Tasks, NEW res, NEW isOwn, Finish(t, res, isOwn)
    PROVE  Elsewhere(t)
BY LeaveShape DEF Finish, Elsewhere, Idle

\* A call that moves on within its exchange.
LEMMA GotoElsewhere ==
    ASSUME CallsOK, NEW t \in Tasks, lock = t, NEW label, label \notin {"stopped", "prompt"},
           Goto(t, label)
    PROVE  Elsewhere(t)
BY DEF CallsOK, Goto, Elsewhere, Call

\* After a negotiation comes the request, or the end.
LEMMA AfterSessionElsewhere ==
    ASSUME CallsOK, NEW t \in Tasks, lock = t, AfterSession(t)
    PROVE  Elsewhere(t)
<1>1. CASE call[t].job = "enter_rpc"
  BY <1>1, FinishElsewhere DEF AfterSession
<1>2. CASE call[t].job # "enter_rpc"
  BY <1>2 DEF AfterSession, CallsOK, Call, Elsewhere
<1> QED BY <1>1, <1>2

\* A second round trip begins with a negotiation.
LEMMA SecondTripElsewhere ==
    ASSUME CallsOK, NEW t \in Tasks, lock = t, NEW j, NEW isOwn, SecondTrip(t, j, isOwn)
    PROVE  Elsewhere(t)
BY DEF SecondTrip, CallsOK, Call, Elsewhere

\* A stream goes on where it is.
LEMMA ContinueElsewhere ==
    ASSUME CallsOK, NEW t \in Tasks, lock = t, call[t].pc = "recv", NEW some, Continue(t, some)
    PROVE  Elsewhere(t)
BY DEF Continue, CallsOK, Call, Elsewhere

-----------------------------------------------------------------------------
(* Every step keeps the commands behind their stop. *)

\* connect() and disconnect() tear the exchange they break into, and change the
\* device's mode only where they do.
LEMMA ConnectShell ==
    ASSUME TypeOK, ShellInStep, NEW t \in Tasks
    PROVE  /\ \A j \in Jobs : BeginLive(t, j) \/ GetRpcFails(t, j) \/ BeginDisconnected(t, j)
             => ShellInStep' /\ stray' = stray
           /\ Serialized => (OpenPort(t) \/ OpenFail(t) \/ Settle(t)
             => ShellInStep' /\ stray' = stray)
<1>0. CallsOK /\ CommandsFollowStop /\ StopComesFirst
  BY DEF TypeOK, ShellInStep
<1>1. ASSUME NEW j \in Jobs, BeginLive(t, j) PROVE ShellInStep' /\ stray' = stray
  <2>1. /\ lock' = lock /\ tx' = tx /\ dmode' = dmode /\ medium' = medium /\ stray' = stray
        /\ call[t].pc = "idle"
    BY <1>1 DEF BeginLive, MayStart, clientVars, wireVars, portVars
  <2>2. call'[t].pc = "waiting" /\ \A u \in Tasks \ {t} : call'[u] = call[u]
    BY <1>0, <1>1 DEF BeginLive, CallsOK, Call
  <2>3. StopComesFirst'
    BY <1>0, <2>1, <2>2 DEF StopComesFirst
  <2> QED BY <1>0, <2>1, <2>3, CommandsStill DEF ShellInStep
<1>2. ASSUME NEW j \in Jobs, GetRpcFails(t, j) PROVE ShellInStep' /\ stray' = stray
  <2>1. /\ lock' = lock /\ tx' = tx /\ dmode' = dmode /\ medium' = medium /\ stray' = stray
        /\ call' = call
    BY <1>2 DEF GetRpcFails, clientVars, wireVars, portVars
  <2> QED BY <1>0, <2>1, CommandsStill, StopStill DEF ShellInStep
<1>3. ASSUME NEW j \in Jobs, BeginDisconnected(t, j) PROVE ShellInStep' /\ stray' = stray
  <2> DEFINE calls == [call EXCEPT ![t].pc = "opening", ![t].job = j]
  <2>1. /\ lock' = lock /\ dmode' = dmode /\ medium' = medium /\ stray' = stray
        /\ tx' \in Prefixes(tx) /\ call' = Tear(calls)
    BY <1>3 DEF BeginDisconnected, Disconnect
  <2>2. j \in JobStates /\ "opening" \in PCs
    BY JobType, LabelType
  <2>3. calls \in [Tasks -> Call]
    BY <1>0, <2>2 DEF CallsOK, Call
  <2> HIDE DEF calls
  <2> QED BY <1>0, <2>1, <2>3, CommandsPrefix, StopTorn DEF ShellInStep
<1>4. ASSUME OpenPort(t) PROVE ShellInStep' /\ stray' = stray
  <2> DEFINE calls == [call EXCEPT ![t].pc = "settling"]
  <2>1. lock' = lock /\ stray' = stray /\ call' = Tear(calls)
    BY <1>4 DEF OpenPort, clientVars
  <2>2. "settling" \in PCs
    BY LabelType
  <2>3. calls \in [Tasks -> Call]
    BY <1>0, <2>2 DEF CallsOK, Call
  <2> HIDE DEF calls
  <2>4. CASE medium' = medium /\ medium = "usb"
    <3>1. tx' = tx /\ dmode' \in {dmode, "CLI"}
      BY <1>4, <2>4 DEF OpenPort
    <3> QED BY <1>0, <2>1, <2>3, <2>4, <3>1, CommandsStill, StopTorn DEF ShellInStep
  <2>5. CASE medium' # medium
    <3>1. tx' = <<>>
      BY <1>4, <2>5 DEF OpenPort
    <3> QED BY <2>1, <2>3, <3>1, CommandsNone, StopTorn DEF ShellInStep
  <2>6. CASE medium' # "usb"
    <3>1. CommandsFollowStop'
      BY <2>6 DEF CommandsFollowStop
    <3> QED BY <2>1, <2>3, <3>1, StopTorn DEF ShellInStep
  <2> QED BY <2>4, <2>5, <2>6
<1>5. ASSUME OpenFail(t), Serialized PROVE ShellInStep' /\ stray' = stray
  <2>1. /\ lock' = lock /\ tx' = tx /\ dmode' = dmode /\ medium' = medium /\ stray' = stray
        /\ call[t].pc = "opening"
    BY <1>5 DEF OpenFail, clientVars, wireVars
  <2>2. lock # t
    BY <1>5, <2>1, FreeLabels DEF Serialized
  <2>3. \A u \in Tasks \ {t} : call'[u] = call[u]
    BY <1>0, <1>5, LeaveShape DEF OpenFail
  <2>4. \A u \in Tasks : lock = u => call'[u] = call[u]
    BY <2>2, <2>3
  <2> QED BY <1>0, <2>1, <2>4, CommandsStill, StopStill DEF ShellInStep
<1>6. ASSUME Settle(t), Serialized PROVE ShellInStep' /\ stray' = stray
  <2>1. /\ lock' = lock /\ tx' = tx /\ dmode' = dmode /\ medium' = medium /\ stray' = stray
        /\ call[t].pc = "settling"
    BY <1>6 DEF Settle, wireVars
  <2>2. lock # t
    BY <1>6, <2>1, FreeLabels DEF Serialized
  <2>3. \A u \in Tasks \ {t} : call'[u] = call[u]
    BY <1>0, <1>6 DEF Settle, CallsOK, Call
  <2>4. \A u \in Tasks : lock = u => call'[u] = call[u]
    BY <2>2, <2>3
  <2> QED BY <1>0, <2>1, <2>4, CommandsStill, StopStill DEF ShellInStep
<1> QED BY <1>1, <1>2, <1>3, <1>4, <1>5, <1>6

\* Whoever takes the lock begins with a negotiation or a StopSession, and whoever is
\* cancelled sends nothing more.
LEMMA LockShell ==
    ASSUME TypeOK, Serialized, ShellInStep, NEW t \in Tasks
    PROVE  Acquire(t) \/ AcquireEnter(t) \/ Cancel(t) \/ CancelWaiting(t)
             => ShellInStep' /\ stray' = stray
<1>0. CallsOK /\ CommandsFollowStop /\ StopComesFirst
  BY DEF TypeOK, ShellInStep
<1>1. ASSUME Acquire(t) PROVE ShellInStep' /\ stray' = stray
  <2>1. Elsewhere(t)
    <3>1. lock' = t /\ call'[t].pc \in {"stop", "session"}
      BY <1>0, <1>1 DEF Acquire, CallsOK, Call
    <3> QED BY <3>1 DEF Elsewhere
  <2>2. tx' = tx /\ dmode' = dmode /\ medium' = medium /\ stray' = stray
    BY <1>1 DEF Acquire, wireVars, portVars
  <2> QED BY <1>0, <2>1, <2>2, CommandsStill, StopElsewhere DEF ShellInStep
<1>2. ASSUME AcquireEnter(t) PROVE ShellInStep' /\ stray' = stray
  <2>1. Elsewhere(t)
    <3>1. CASE rpc = 0
      <4>1. lock' = NoTask /\ Leave(t, "error", TRUE)
        BY <1>2, <3>1 DEF AcquireEnter
      <4>2. call'[t] = Idle
        BY <1>0, <4>1, LeaveShape
      <4> QED BY <4>1, <4>2 DEF Elsewhere, Idle
    <3>2. CASE rpc # 0
      <4>1. lock' = t /\ call'[t].pc \in {"stop", "session"}
        BY <1>0, <1>2, <3>2 DEF AcquireEnter, CallsOK, Call
      <4> QED BY <4>1 DEF Elsewhere
    <3> QED BY <3>1, <3>2
  <2>2. tx' = tx /\ dmode' = dmode /\ medium' = medium /\ stray' = stray
    BY <1>2 DEF AcquireEnter, wireVars, portVars
  <2> QED BY <1>0, <2>1, <2>2, CommandsStill, StopElsewhere DEF ShellInStep
<1>3. ASSUME Cancel(t) PROVE ShellInStep' /\ stray' = stray
  <2>1. Elsewhere(t)
    BY <1>0, <1>3, FinishElsewhere DEF Cancel
  <2>2. tx' = tx /\ dmode' = dmode /\ medium' = medium /\ stray' = stray
    BY <1>3 DEF Cancel, wireVars
  <2> QED BY <1>0, <2>1, <2>2, CommandsStill, StopElsewhere DEF ShellInStep
<1>4. ASSUME CancelWaiting(t) PROVE ShellInStep' /\ stray' = stray
  <2>1. /\ lock' = lock /\ tx' = tx /\ dmode' = dmode /\ medium' = medium /\ stray' = stray
        /\ call[t].pc \notin Locked
    BY <1>4, FreeLabels DEF CancelWaiting, clientVars, wireVars, portVars
  <2>2. lock # t
    BY <2>1 DEF Serialized
  <2>3. \A u \in Tasks \ {t} : call'[u] = call[u]
    BY <1>0, <1>4, LeaveShape DEF CancelWaiting
  <2>4. \A u \in Tasks : lock = u => call'[u] = call[u]
    BY <2>2, <2>3
  <2> QED BY <1>0, <2>1, <2>4, CommandsStill, StopStill DEF ShellInStep
<1> QED BY <1>1, <1>2, <1>3, <1>4

\* A negotiation and a round trip send no command and are not about to.
LEMMA TripShell ==
    ASSUME TypeOK, Serialized, ShellInStep, NEW t \in Tasks, Negotiate(t) \/ RoundTrip(t)
    PROVE  ShellInStep' /\ stray' = stray
<1>0. CallsOK /\ CommandsFollowStop /\ StopComesFirst /\ tx \in Seq(TxItem)
  BY DEF TypeOK, ShellInStep, WireOK
<1>1. lock = t
  <2>1. call[t].pc \in {"session", "probe", "attempt", "reprobe", "send", "recv"}
    BY DEF Negotiate, SessionReady, SessionWifi, SessionProbe, ProbeOk, ProbeFail, Attempt,
           Reprobe, RoundTrip, SendFragment, SendRequest, SendReboot, SendFails, RecvNone,
           RecvAck, RecvTyped, RecvLocked, RecvGpio, RecvGpioValue, RecvList, RecvInfo, Take
  <2> QED BY <2>1 DEF Serialized, Locked
<1>2. ASSUME Elsewhere(t), medium' = medium, dmode' = dmode, tx' = tx, stray' = stray
      PROVE  ShellInStep' /\ stray' = stray
  BY <1>0, <1>2, CommandsStill, StopElsewhere DEF ShellInStep
<1>3. ASSUME Elsewhere(t), medium' = medium, dmode' = dmode, stray' = stray,
             NEW e \in TxItem, e.k # "cmd", tx' = Append(tx, e)
      PROVE  ShellInStep' /\ stray' = stray
  BY <1>0, <1>3, CommandsAppend, StopElsewhere DEF ShellInStep
<1>4. ASSUME SendProbe(t), medium' = medium, dmode' = dmode, stray' = stray
      PROVE  ShellInStep' /\ stray' = stray
  <2>1. Elsewhere(t)
    BY <1>0, <1>1, <1>4, GotoElsewhere DEF SendProbe
  <2>2. Bytes("probe", 0) \in TxItem /\ Bytes("probe", 0).k # "cmd"
    BY BytesType DEF Bytes
  <2>3. tx' = tx \/ tx' = Append(tx, Bytes("probe", 0))
    BY <1>4 DEF SendProbe
  <2> QED BY <1>2, <1>3, <1>4, <2>1, <2>2, <2>3
<1>5. CASE SessionReady(t) \/ SessionWifi(t) \/ ProbeOk(t)
  <2>1. medium' = medium /\ dmode' = dmode /\ tx' = tx /\ stray' = stray /\ AfterSession(t)
    BY <1>5 DEF SessionReady, SessionWifi, ProbeOk, portVars, wireVars
  <2> QED BY <1>0, <1>1, <1>2, <2>1, AfterSessionElsewhere
<1>6. CASE SessionProbe(t)
  <2>1. medium' = medium /\ dmode' = dmode /\ stray' = stray
    BY <1>6 DEF SessionProbe, portVars
  <2>2. SendProbe(t) \/ (Goto(t, "attempt") /\ tx' = tx)
    BY <1>6 DEF SessionProbe
  <2> QED BY <1>0, <1>1, <1>2, <1>4, <2>1, <2>2, GotoElsewhere
<1>7. CASE Reprobe(t)
  BY <1>4, <1>7 DEF Reprobe, portVars
<1>8. CASE ProbeFail(t)
  <2>1. medium' = medium /\ dmode' = dmode /\ tx' = tx /\ stray' = stray
    BY <1>8 DEF ProbeFail, portVars
  <2>2. Goto(t, "attempt") \/ AfterSession(t)
    BY <1>8 DEF ProbeFail
  <2> QED BY <1>0, <1>1, <1>2, <2>1, <2>2, GotoElsewhere, AfterSessionElsewhere
<1>9. CASE Attempt(t)
  <2>1. medium' = medium /\ dmode' = dmode /\ stray' = stray /\ lock' = lock
    BY <1>9 DEF Attempt, portVars, clientVars
  <2>2. Elsewhere(t)
    BY <1>0, <1>1, <1>9, <2>1 DEF Attempt, CallsOK, Call, Elsewhere
  <2>3. CASE ~port
    <3>1. tx' = tx
      BY <1>9, <2>3 DEF Attempt
    <3> QED BY <1>2, <2>1, <2>2, <3>1
  <2>4. CASE port
    <3> DEFINE a == Bytes("ctrlc", 0)
               b == Bytes("start", 0)
    <3>1. tx' = tx \o <<a, b>>
      BY <1>9, <2>4 DEF Attempt
    <3>2. a \in TxItem /\ b \in TxItem /\ a.k # "cmd" /\ b.k # "cmd"
      BY BytesType DEF Bytes
    <3> HIDE DEF a, b
    <3>3. tx' \in Seq(TxItem)
      BY <1>0, <3>1, <3>2
    <3>4. \A i \in 1..Len(tx') : tx'[i].k = "cmd" =>
            i \in 1..Len(tx) /\ \A j \in 1..i : tx'[j] = tx[j]
      BY <1>0, <3>1, <3>2
    <3>5. CommandsFollowStop'
      BY <1>0, <2>1, <3>3, <3>4, CommandsKept
    <3> QED BY <2>1, <2>2, <3>5, StopElsewhere DEF ShellInStep
  <2> QED BY <2>3, <2>4
<1>10. CASE SendFragment(t)
  <2>1. medium' = medium /\ dmode' = dmode /\ stray' = stray /\ lock' = lock
    BY <1>10 DEF SendFragment, portVars, clientVars
  <2>2. Elsewhere(t)
    BY <1>0, <1>1, <1>10, <2>1 DEF SendFragment, CallsOK, Call, Elsewhere
  <2>3. call[t].req \in Nat
    BY <1>0 DEF CallsOK, Call
  <2>4. Bytes("frag", call[t].req) \in TxItem /\ Bytes("frag", call[t].req).k # "cmd"
    BY <2>3, BytesType DEF Bytes
  <2> QED BY <1>3, <1>10, <2>1, <2>2, <2>4 DEF SendFragment
<1>11. CASE SendRequest(t)
  <2>1. medium' = medium /\ dmode' = dmode /\ stray' = stray /\ lock' = lock
    BY <1>11 DEF SendRequest, portVars, clientVars
  <2>2. Elsewhere(t)
    BY <1>0, <1>1, <1>11, <2>1 DEF SendRequest, CallsOK, Call, Elsewhere
  <2>3. call[t].req \in Nat /\ Ask(call[t].job) \in Families \cup {"none"}
    BY <1>0 DEF CallsOK, Call, Ask, Families
  <2>4. Request(t) \in TxItem /\ Request(t).k # "cmd"
    BY <2>3 DEF Request, TxItem
  <2> QED BY <1>3, <1>11, <2>1, <2>2, <2>4 DEF SendRequest
<1>12. CASE SendReboot(t)
  <2>1. medium' = medium /\ dmode' = dmode /\ stray' = stray /\ Elsewhere(t)
    BY <1>0, <1>12, FinishElsewhere DEF SendReboot, portVars
  <2>3. call[t].req \in Nat
    BY <1>0 DEF CallsOK, Call
  <2>4. Bytes("reboot", call[t].req) \in TxItem /\ Bytes("reboot", call[t].req).k # "cmd"
    BY <2>3, BytesType DEF Bytes
  <2> QED BY <1>3, <1>12, <2>1, <2>4 DEF SendReboot
<1>13. CASE SendFails(t) \/ RecvNone(t)
  <2>1. medium' = medium /\ dmode' = dmode /\ stray' = stray /\ tx' = tx
    BY <1>13 DEF SendFails, RecvNone, portVars, wireVars
  <2>2. Elsewhere(t)
    BY <1>0, <1>1, <1>13, FinishElsewhere, SecondTripElsewhere DEF SendFails, RecvNone
  <2> QED BY <1>2, <2>1, <2>2
<1>14. ASSUME NEW jobs, Take(t, jobs)
       PROVE  /\ medium' = medium /\ dmode' = dmode /\ stray' = stray /\ tx' = tx
              /\ call[t].pc = "recv"
  BY <1>14 DEF Take, portVars
<1>15. ASSUME NEW okay, Return(t, okay) PROVE Elsewhere(t)
  BY <1>0, <1>15, FinishElsewhere DEF Return
<1>16. CASE RecvAck(t) \/ RecvTyped(t) \/ RecvLocked(t) \/ RecvGpioValue(t)
  BY <1>2, <1>14, <1>15, <1>16 DEF RecvAck, RecvTyped, RecvLocked, RecvGpioValue
<1>17. CASE RecvGpio(t)
  <2>1. Elsewhere(t)
    BY <1>0, <1>1, <1>15, <1>17, SecondTripElsewhere DEF RecvGpio
  <2> QED BY <1>2, <1>14, <1>17, <2>1 DEF RecvGpio
<1>18. CASE RecvList(t)
  <2>1. Elsewhere(t)
    BY <1>0, <1>1, <1>14, <1>15, <1>18, ContinueElsewhere DEF RecvList
  <2> QED BY <1>2, <1>14, <1>18, <2>1 DEF RecvList
<1>19. CASE RecvInfo(t)
  <2>1. Elsewhere(t)
    BY <1>0, <1>1, <1>14, <1>15, <1>19, ContinueElsewhere, SecondTripElsewhere DEF RecvInfo
  <2> QED BY <1>2, <1>14, <1>19, <2>1 DEF RecvInfo
<1> QED BY <1>5, <1>6, <1>7, <1>8, <1>9, <1>10, <1>11, <1>12, <1>13, <1>16, <1>17, <1>18, <1>19
        DEF Negotiate, RoundTrip

\* cli_exec and enter_cli: the stop puts the device in its shell, the command follows.
LEMMA CliShell ==
    ASSUME TypeOK, Serialized, ShellInStep, NEW t \in Tasks, Shell(t)
    PROVE  ShellInStep' /\ stray' = stray
<1>0. CallsOK /\ CommandsFollowStop /\ StopComesFirst /\ tx \in Seq(TxItem)
  BY DEF TypeOK, ShellInStep, WireOK
<1>1. /\ lock = t /\ medium' = medium /\ dmode' = dmode /\ stray' = stray
      /\ lock' = lock \/ Elsewhere(t)
  <2>1. call[t].pc \in Locked
    BY DEF Shell, CliStop, CliReset, CliCommand, CliOutput, Locked
  <2>2. medium' = medium /\ dmode' = dmode /\ stray' = stray
    BY DEF Shell, CliStop, CliReset, CliCommand, CliOutput, portVars
  <2>3. lock' = lock \/ Elsewhere(t)
    BY <1>0, FinishElsewhere DEF Shell, CliStop, CliReset, CliCommand, CliOutput, Goto
  <2> QED BY <2>1, <2>2, <2>3 DEF Serialized
<1>2. ASSUME Elsewhere(t), tx' = tx PROVE ShellInStep'
  BY <1>0, <1>1, <1>2, CommandsStill, StopElsewhere DEF ShellInStep
<1>3. ASSUME lock' = lock, NEW e \in TxItem, e.k \in {"stop", "ctrlc"}, tx' = Append(tx, e)
      PROVE  ShellInStep'
  <2>1. ShellAfter(tx', dmode', Len(tx'))
    BY <1>0, <1>3, ShellByStop
  <2>2. CommandsFollowStop'
    BY <1>0, <1>1, <1>3, CommandsAppend
  <2> QED BY <2>1, <2>2 DEF ShellInStep, StopComesFirst
<1>4. CASE CliStop(t)
  <2>1. CASE port
    <3>1. tx' = Append(tx, Bytes("stop", 0)) /\ lock' = lock
      BY <1>4, <2>1 DEF CliStop, Goto
    <3>2. Bytes("stop", 0) \in TxItem /\ Bytes("stop", 0).k = "stop"
      BY BytesType DEF Bytes
    <3> QED BY <1>1, <1>3, <3>1, <3>2
  <2>2. CASE ~port
    <3>1. Elsewhere(t) /\ tx' = tx
      BY <1>0, <1>4, <2>2, FinishElsewhere DEF CliStop
    <3> QED BY <1>1, <1>2, <3>1
  <2> QED BY <2>1, <2>2
<1>5. CASE CliReset(t)
  <2>1. CASE call[t].job = "cli" /\ port
    <3>1. tx' = Append(tx, Bytes("ctrlc", 0)) /\ lock' = lock
      BY <1>5, <2>1 DEF CliReset, Goto
    <3>2. Bytes("ctrlc", 0) \in TxItem /\ Bytes("ctrlc", 0).k = "ctrlc"
      BY BytesType DEF Bytes
    <3> QED BY <1>1, <1>3, <3>1, <3>2
  <2>2. CASE ~(call[t].job = "cli" /\ port)
    <3>1. Elsewhere(t) /\ tx' = tx
      BY <1>0, <1>5, <2>2, FinishElsewhere DEF CliReset
    <3> QED BY <1>1, <1>2, <3>1
  <2> QED BY <2>1, <2>2
<1>6. CASE CliCommand(t)
  <2>1. CASE port
    <3> DEFINE e == Bytes(IF call[t].torn THEN "torn_cmd" ELSE "cmd", 0)
    <3>1. tx' = Append(tx, e) /\ Goto(t, "output")
      BY <1>6, <2>1 DEF CliCommand
    <3>2. Elsewhere(t)
      BY <1>0, <1>1, <3>1, GotoElsewhere
    <3>3. e \in TxItem /\ (e.k = "cmd" => ~call[t].torn)
      BY BytesType DEF Bytes
    <3> HIDE DEF e
    <3>4. CASE e.k # "cmd"
      <4>1. CommandsFollowStop'
        BY <1>0, <1>1, <3>1, <3>3, <3>4, CommandsAppend
      <4> QED BY <1>1, <3>2, <4>1, StopElsewhere DEF ShellInStep
    <3>5. CASE e.k = "cmd"
      <4>1. medium = "usb" => ShellAfter(tx, dmode, Len(tx))
        BY <1>0, <1>1, <1>6, <3>3, <3>5 DEF StopComesFirst, CliCommand
      <4>2. Len(tx) \in Nat /\ Len(tx') = Len(tx) + 1 /\ \A j \in 1..Len(tx) : tx'[j] = tx[j]
        BY <1>0, <3>1, <3>3
      <4>3. ASSUME medium = "usb", NEW i \in 1..Len(tx'), tx'[i].k = "cmd"
            PROVE  ShellAfter(tx', dmode', i - 1)
        <5>1. i \in Nat /\ i - 1 \in Nat /\ \A j \in 1..(i-1) : tx'[j] = tx[j]
          BY <4>2
        <5>2. ShellAfter(tx, dmode, i - 1)
          <6>1. CASE i = Len(tx')
            <7>1. i - 1 = Len(tx)
              BY <4>2, <6>1
            <7> QED BY <4>1, <4>3, <7>1
          <6>2. CASE i # Len(tx')
            <7>1. i \in 1..Len(tx)
              BY <4>2, <6>2
            <7>2. tx[i].k = "cmd"
              BY <4>2, <4>3, <7>1
            <7> QED BY <1>0, <4>3, <7>1, <7>2 DEF CommandsFollowStop
          <6> QED BY <6>1, <6>2
        <5> QED BY <1>1, <5>1, <5>2, ShellAgrees
      <4>4. CommandsFollowStop'
        BY <1>1, <4>3 DEF CommandsFollowStop
      <4> QED BY <1>1, <3>2, <4>4, StopElsewhere DEF ShellInStep
    <3> QED BY <3>4, <3>5
  <2>2. CASE ~port
    <3>1. Elsewhere(t) /\ tx' = tx
      BY <1>0, <1>6, <2>2, FinishElsewhere DEF CliCommand, wireVars
    <3> QED BY <1>1, <1>2, <3>1
  <2> QED BY <2>1, <2>2
<1>7. CASE CliOutput(t)
  <2>1. Elsewhere(t) /\ tx' = tx
    BY <1>0, <1>7, FinishElsewhere DEF CliOutput
  <2> QED BY <1>1, <1>2, <2>1
<1> QED BY <1>4, <1>5, <1>6, <1>7 DEF Shell

\* The device reads in order: what puts it in its shell is read before the command.
LEMMA DeviceShell ==
    ASSUME TypeOK, ShellInStep, Device
    PROVE  ShellInStep' /\ (CommandInShell => CommandInShell')
<1>0. /\ CallsOK /\ CommandsFollowStop /\ StopComesFirst /\ tx \in Seq(TxItem)
      /\ dmode \in {"CLI", "RPC"}
  BY DEF TypeOK, ShellInStep, WireOK, PortOK
<1>1. CASE DevReset
  <2>1. call' = Tear(call) /\ lock' = lock /\ tx' = <<>> /\ stray' = stray
    BY <1>1 DEF DevReset, clientVars
  <2>2. call \in [Tasks -> Call]
    BY <1>0 DEF CallsOK
  <2> QED BY <2>1, <2>2, CommandsNone, StopTorn DEF ShellInStep, CommandInShell
<1>2. CASE OrphanRead
  <2>1. /\ call' = call /\ lock' = lock /\ tx' = tx /\ dmode' = dmode /\ medium' = medium
        /\ stray' = stray
    BY <1>2 DEF OrphanRead, clientVars
  <2> QED BY <1>0, <2>1, CommandsStill, StopStill DEF ShellInStep, CommandInShell
<1>3. ASSUME tx # <<>>, tx' = Tail(tx), call' = call, lock' = lock, medium' = medium,
             Head(tx).k \in {"stop", "ctrlc"} => dmode' = "CLI",
             dmode = "CLI" /\ Head(tx).k # "start" => dmode' = "CLI"
      PROVE  ShellInStep'
  <2>1. CommandsFollowStop'
    BY <1>0, <1>3, CommandsRead
  <2>2. Len(tx) \in 1..Len(tx) /\ Len(tx') = Len(tx) - 1
    BY <1>0, <1>3
  <2>3. ShellAfter(tx, dmode, Len(tx)) => ShellAfter(tx', dmode', Len(tx'))
    BY <1>0, <1>3, <2>2, ShellTail
  <2>4. StopComesFirst'
    BY <1>0, <1>3, <2>3 DEF StopComesFirst
  <2> QED BY <2>1, <2>4 DEF ShellInStep
<1>4. ASSUME NEW kinds, NEW in, Read(kinds, in)
      PROVE  /\ tx # <<>> /\ Head(tx).k \in kinds /\ dmode = in
             /\ call' = call /\ lock' = lock /\ medium' = medium
  BY <1>4 DEF Read, clientVars, portVars
<1>5. CASE DevAnswer
  <2>1. /\ Head(tx).k = "req" /\ dmode = "RPC" /\ dmode' = dmode /\ stray' = stray
        /\ tx' = tx \/ tx' = Tail(tx)
        /\ tx # <<>> /\ call' = call /\ lock' = lock /\ medium' = medium
    BY <1>4, <1>5 DEF DevAnswer
  <2>2. CASE tx' = tx
    BY <1>0, <2>1, <2>2, CommandsStill, StopStill DEF ShellInStep, CommandInShell
  <2>3. CASE tx' = Tail(tx)
    BY <1>3, <2>1, <2>3 DEF CommandInShell
  <2> QED BY <2>1, <2>2, <2>3
<1>6. CASE DevProbe \/ DevFragment
  <2>1. ASSUME DevProbe PROVE Read({"probe"}, "RPC") /\ tx' = Tail(tx) /\ UNCHANGED <<dmode, stray>>
    BY <2>1 DEF DevProbe
  <2>2. ASSUME DevFragment PROVE Read({"frag"}, "RPC") /\ tx' = Tail(tx) /\ UNCHANGED <<dmode, stray>>
    BY <2>2 DEF DevFragment
  <2>3. /\ Head(tx).k \in {"probe", "frag"} /\ dmode = "RPC" /\ dmode' = dmode
        /\ stray' = stray /\ tx' = Tail(tx)
        /\ tx # <<>> /\ call' = call /\ lock' = lock /\ medium' = medium
    BY <1>4, <1>6, <2>1, <2>2
  <2> QED BY <1>3, <2>3 DEF CommandInShell
<1>7. CASE DevLeave
  <2>1. /\ dmode' = "CLI" /\ stray' = stray /\ tx' = Tail(tx)
        /\ tx # <<>> /\ call' = call /\ lock' = lock /\ medium' = medium
    BY <1>4, <1>7 DEF DevLeave
  <2> QED BY <1>3, <2>1 DEF CommandInShell
<1>8. CASE DevDecodeError
  <2>1. /\ dmode = "RPC" /\ dmode' = "CLI" /\ tx' = Tail(tx)
        /\ tx # <<>> /\ call' = call /\ lock' = lock /\ medium' = medium
        /\ stray' = (stray \/ (Head(tx).k = "cmd" /\ medium = "usb"))
    BY <1>4, <1>8 DEF DevDecodeError
  <2>2. ~(Head(tx).k = "cmd" /\ medium = "usb")
    <3> SUFFICES ASSUME Head(tx).k = "cmd", medium = "usb" PROVE FALSE
      OBVIOUS
    <3>1. 1 \in 1..Len(tx) /\ tx[1] = Head(tx)
      BY <1>0, <2>1
    <3>2. ShellAfter(tx, dmode, 1 - 1)
      BY <1>0, <3>1 DEF CommandsFollowStop
    <3> QED BY <2>1, <3>2 DEF ShellAfter
  <2> QED BY <1>3, <2>1, <2>2 DEF CommandInShell
<1>9. CASE DevShell
  <2>1. /\ dmode' = IF Head(tx).k = "start" /\ medium = "usb" THEN "RPC" ELSE "CLI"
        /\ stray' = stray /\ tx' = Tail(tx)
        /\ tx # <<>> /\ call' = call /\ lock' = lock /\ medium' = medium
    BY <1>4, <1>9 DEF DevShell
  <2> QED BY <1>3, <2>1 DEF CommandInShell
<1> QED BY <1>1, <1>2, <1>5, <1>6, <1>7, <1>8, <1>9 DEF Device

\* Every step keeps each command behind its stop, and lets none be read in a session.
LEMMA NextShell ==
    TypeOK /\ Serialized /\ ShellInStep /\ CommandInShell /\ [Next]_vars
      => ShellInStep' /\ CommandInShell'
<1> SUFFICES ASSUME TypeOK, Serialized, ShellInStep, CommandInShell, [Next]_vars
             PROVE  ShellInStep' /\ CommandInShell'
  OBVIOUS
<1>0. CommandsFollowStop /\ StopComesFirst
  BY DEF ShellInStep
<1>1. ASSUME UNCHANGED <<call, lock, tx, dmode, medium, stray>>
      PROVE  ShellInStep' /\ CommandInShell'
  BY <1>0, <1>1, CommandsStill, StopStill DEF ShellInStep, CommandInShell
<1>2. CASE UNCHANGED vars
  BY <1>1, <1>2 DEF vars, clientVars, portVars, wireVars
<1>3. ASSUME NEW r \in Rpcs, CooldownEnds(r) PROVE ShellInStep' /\ CommandInShell'
  BY <1>1, <1>3 DEF CooldownEnds, clientVars, portVars, wireVars
<1>4. ASSUME NEW t \in Tasks, TaskStep(t) PROVE ShellInStep' /\ CommandInShell'
  <2>1. ShellInStep' /\ stray' = stray
    BY <1>4, ConnectShell, TripShell, CliShell DEF TaskStep
  <2> QED BY <2>1 DEF CommandInShell
<1>5. ASSUME NEW t \in Tasks,
             \/ \E j \in Jobs : BeginLive(t, j) \/ GetRpcFails(t, j) \/ BeginDisconnected(t, j)
             \/ Acquire(t) \/ AcquireEnter(t) \/ Cancel(t) \/ CancelWaiting(t)
      PROVE  ShellInStep' /\ CommandInShell'
  <2>1. ShellInStep' /\ stray' = stray
    BY <1>5, ConnectShell, LockShell
  <2> QED BY <2>1 DEF CommandInShell
<1>6. CASE Next
  BY <1>3, <1>4, <1>5, <1>6, DeviceShell DEF Next
<1> QED BY <1>2, <1>6

\* On USB, every command on the wire and the one about to be sent come after what
\* leaves the device in its shell: StopSession is sent, in order, under the same lock
\* (send_stop_session, cli_exec).
THEOREM CommandsAreOrdered == Spec => [](ShellInStep /\ CommandInShell)
<1>1. Init => ShellInStep /\ CommandInShell
  <2> SUFFICES ASSUME Init PROVE ShellInStep /\ CommandInShell
    OBVIOUS
  <2>1. tx = <<>> /\ stray = FALSE /\ \A t \in Tasks : call[t].pc = "idle"
    BY DEF Init, Idle
  <2> QED BY <2>1 DEF ShellInStep, CommandsFollowStop, StopComesFirst, CommandInShell
<1> QED BY <1>1, TypeCorrect, MutualExclusion, NextShell, PTL DEF Spec

\* A CLI command is never executed as RPC bytes: the device reads it in its shell,
\* unless the port was closed or the device reset under that very exchange.
THEOREM CommandsInShell == Spec => []CommandInShell
BY CommandsAreOrdered, PTL

-----------------------------------------------------------------------------
(* The RPC layer above a connected transport. *)

\* Both forms of the link between the transport's flag and the client's RPC object.
\* Where the flag is set early (WiFi), a call cancelled while it settles would leave
\* the flag without an object: that case is excluded.
RpcInv == FlagHasRpc /\ ("cancel" \notin Faults \/ ~FlagsEarly => ConnectedHasRpc)

\* A step that leaves the client and the transport alone, and ends no connect().
LEMMA RpcStill ==
    ASSUME RpcInv, UNCHANGED <<rpc, port, conn>>,
           \A u \in Tasks : call[u].pc = "settling" => call'[u].pc = "settling"
    PROVE  RpcInv'
BY DEF RpcInv, FlagHasRpc, ConnectedHasRpc, Connected, FlagsEarly

\* The two halves of a reconnect, and a connect() that fails.
LEMMA ConnectRpc ==
    ASSUME TypeOK, RpcInv, NEW t \in Tasks
    PROVE  /\ \A j \in Jobs : BeginLive(t, j) \/ GetRpcFails(t, j) \/ BeginDisconnected(t, j)
             => RpcInv'
           /\ OpenPort(t) \/ OpenFail(t) \/ Settle(t) => RpcInv'
<1>0. CallsOK /\ rpc \in Nat /\ nRpc \in Nat
  BY LinkAssumption DEF TypeOK, ClientOK, Rpcs
<1>1. ASSUME NEW j \in Jobs, BeginLive(t, j) PROVE RpcInv'
  <2>1. UNCHANGED <<rpc, port, conn>> /\ call[t].pc = "idle"
    BY <1>1 DEF BeginLive, MayStart, clientVars, portVars
  <2>2. \A u \in Tasks \ {t} : call'[u].pc = call[u].pc
    BY <1>0, <1>1 DEF BeginLive, CallsOK, Call
  <2> QED BY <2>1, <2>2, RpcStill
<1>2. ASSUME NEW j \in Jobs, GetRpcFails(t, j) PROVE RpcInv'
  BY <1>2, RpcStill DEF GetRpcFails, clientVars, portVars
<1>3. ASSUME NEW j \in Jobs, BeginDisconnected(t, j) PROVE RpcInv'
  BY <1>3 DEF BeginDisconnected, Disconnect, RpcInv, FlagHasRpc, ConnectedHasRpc, Connected
<1>4. ASSUME OpenPort(t) PROVE RpcInv'
  <2> DEFINE calls == [call EXCEPT ![t].pc = "settling"]
  <2>1. conn' = (conn \/ FlagsEarly) /\ rpc' = rpc /\ call' = Tear(calls)
    BY <1>4 DEF OpenPort, clientVars
  <2>2. calls \in [Tasks -> Call]
    BY <1>0, LabelType DEF CallsOK, Call
  <2>3. calls[t].pc = "settling"
    BY <1>0 DEF CallsOK, Call
  <2> HIDE DEF calls
  <2>4. call'[t].pc = "settling"
    BY <2>1, <2>2, <2>3, TearShape
  <2>5. CASE FlagsEarly
    BY <2>4, <2>5 DEF RpcInv, FlagHasRpc, ConnectedHasRpc, FlagsEarly
  <2>6. CASE ~FlagsEarly
    <3>1. conn' = conn
      BY <2>1, <2>6 DEF TypeOK, PortOK
    <3> QED BY <2>1, <2>6, <3>1 DEF RpcInv, FlagHasRpc, ConnectedHasRpc, Connected, FlagsEarly
  <2> QED BY <2>5, <2>6
<1>5. ASSUME OpenFail(t) PROVE RpcInv'
  BY <1>5 DEF OpenFail, RpcInv, FlagHasRpc, ConnectedHasRpc, Connected
<1>6. ASSUME Settle(t) PROVE RpcInv'
  <2>1. rpc' # 0
    BY <1>0, <1>6 DEF Settle
  <2> QED BY <2>1 DEF RpcInv, FlagHasRpc, ConnectedHasRpc
<1> QED BY <1>1, <1>2, <1>3, <1>4, <1>5, <1>6

\* Taking and leaving the lock does not touch the transport.  A call cancelled while
\* it settles is the case RpcInv excludes, unless the flag comes last.
LEMMA LockRpc ==
    ASSUME TypeOK, RpcInv, NEW t \in Tasks
    PROVE  Acquire(t) \/ AcquireEnter(t) \/ Cancel(t) \/ CancelWaiting(t) => RpcInv'
<1>0. CallsOK
  BY DEF TypeOK
<1>1. ASSUME call[t].pc # "settling", \A u \in Tasks \ {t} : call'[u] = call[u],
             UNCHANGED <<rpc, port, conn>>
      PROVE  RpcInv'
  BY <1>1, RpcStill
<1>2. ASSUME Acquire(t) PROVE RpcInv'
  <2>1. call[t].pc = "waiting" /\ UNCHANGED <<rpc, port, conn>>
    BY <1>2 DEF Acquire, portVars
  <2>2. \A u \in Tasks \ {t} : call'[u] = call[u]
    BY <1>0, <1>2 DEF Acquire, CallsOK, Call
  <2> QED BY <1>1, <2>1, <2>2
<1>3. ASSUME AcquireEnter(t) PROVE RpcInv'
  <2>1. call[t].pc = "waiting" /\ UNCHANGED <<rpc, port, conn>>
    BY <1>3 DEF AcquireEnter, portVars
  <2>2. \A u \in Tasks \ {t} : call'[u] = call[u]
    <3>1. CASE rpc = 0
      BY <1>0, <1>3, <3>1, LeaveShape DEF AcquireEnter
    <3>2. CASE rpc # 0
      BY <1>0, <1>3, <3>2 DEF AcquireEnter, CallsOK, Call
    <3> QED BY <3>1, <3>2
  <2> QED BY <1>1, <2>1, <2>2
<1>4. ASSUME Cancel(t) PROVE RpcInv'
  <2>1. call[t].pc # "settling" /\ UNCHANGED <<rpc, port, conn>> /\ Finish(t, "error", TRUE)
    BY <1>4, FreeLabels DEF Cancel
  <2>2. \A u \in Tasks \ {t} : call'[u] = call[u]
    BY <1>0, <2>1, LeaveShape DEF Finish
  <2> QED BY <1>1, <2>1, <2>2
<1>5. ASSUME CancelWaiting(t) PROVE RpcInv'
  <2>1. "cancel" \in Faults /\ UNCHANGED <<rpc, port, conn>>
    BY <1>5 DEF CancelWaiting, clientVars, portVars
  <2> QED BY <2>1 DEF RpcInv, FlagHasRpc, ConnectedHasRpc, Connected, FlagsEarly
<1> QED BY <1>2, <1>3, <1>4, <1>5

\* An exchange does not touch the transport, and who is in one is not connecting.
LEMMA ExchangeRpc ==
    ASSUME TypeOK, RpcInv, NEW t \in Tasks, Negotiate(t) \/ RoundTrip(t) \/ Shell(t)
    PROVE  RpcInv'
<1>0. CallsOK
  BY DEF TypeOK
<1>1. UNCHANGED <<rpc, port, conn>>
  <2>1. CASE Negotiate(t)
    BY <2>1 DEF Negotiate, SessionReady, SessionWifi, SessionProbe, ProbeOk, ProbeFail,
                Attempt, Reprobe, portVars, clientVars
  <2>2. CASE RoundTrip(t)
    BY <2>2 DEF RoundTrip, SendFragment, SendRequest, SendReboot, SendFails, RecvNone,
                RecvAck, RecvTyped, RecvLocked, RecvGpio, RecvGpioValue, RecvList, RecvInfo, Take,
                portVars, clientVars
  <2>3. CASE Shell(t)
    BY <2>3 DEF Shell, CliStop, CliReset, CliCommand, CliOutput, portVars
  <2> QED BY <2>1, <2>2, <2>3
<1>2. call[t].pc # "settling"
  BY DEF Negotiate, SessionReady, SessionWifi, SessionProbe, ProbeOk, ProbeFail, Attempt,
         Reprobe, RoundTrip, SendFragment, SendRequest, SendReboot, SendFails, RecvNone,
         RecvAck, RecvTyped, RecvLocked, RecvGpio, RecvGpioValue, RecvList, RecvInfo, Take,
         Shell, CliStop, CliReset, CliCommand, CliOutput
<1>3. \A u \in Tasks \ {t} : call'[u] = call[u]
  <2>0. ASSUME NEW res, NEW isOwn, Finish(t, res, isOwn)
        PROVE  \A u \in Tasks \ {t} : call'[u] = call[u]
    BY <1>0, <2>0, LeaveShape DEF Finish
  <2>1. ASSUME AfterSession(t) PROVE \A u \in Tasks \ {t} : call'[u] = call[u]
    <3>1. CASE call[t].job = "enter_rpc"
      BY <2>0, <2>1, <3>1 DEF AfterSession
    <3>2. CASE call[t].job # "enter_rpc"
      BY <1>0, <2>1, <3>2 DEF AfterSession, CallsOK
    <3> QED BY <3>1, <3>2
  <2>2. ASSUME NEW label, Goto(t, label) PROVE \A u \in Tasks \ {t} : call'[u] = call[u]
    BY <1>0, <2>2 DEF Goto, CallsOK
  <2>3. ASSUME NEW j, NEW isOwn, SecondTrip(t, j, isOwn)
        PROVE  \A u \in Tasks \ {t} : call'[u] = call[u]
    BY <1>0, <2>3 DEF SecondTrip, CallsOK
  <2>4. ASSUME NEW some, Continue(t, some) PROVE \A u \in Tasks \ {t} : call'[u] = call[u]
    BY <1>0, <2>4 DEF Continue, CallsOK
  <2>5. ASSUME NEW okay, Return(t, okay) PROVE \A u \in Tasks \ {t} : call'[u] = call[u]
    BY <2>0, <2>5 DEF Return
  <2>6. CASE Attempt(t) \/ SendFragment(t) \/ SendRequest(t)
    BY <1>0, <2>6 DEF Attempt, SendFragment, SendRequest, CallsOK
  <2>7. CASE SessionReady(t) \/ SessionWifi(t) \/ ProbeOk(t)
    BY <2>1, <2>7 DEF SessionReady, SessionWifi, ProbeOk
  <2>8. CASE SessionProbe(t) \/ ProbeFail(t) \/ Reprobe(t)
    BY <2>1, <2>2, <2>8 DEF SessionProbe, ProbeFail, Reprobe, SendProbe
  <2>9. CASE SendReboot(t) \/ SendFails(t) \/ RecvNone(t)
    BY <2>0, <2>3, <2>9 DEF SendReboot, SendFails, RecvNone
  <2>10. CASE RecvAck(t) \/ RecvTyped(t) \/ RecvLocked(t) \/ RecvGpio(t) \/ RecvGpioValue(t)
    BY <2>3, <2>5, <2>10 DEF RecvAck, RecvTyped, RecvLocked, RecvGpio, RecvGpioValue
  <2>11. CASE RecvList(t) \/ RecvInfo(t)
    BY <2>3, <2>4, <2>5, <2>11 DEF RecvList, RecvInfo
  <2>12. CASE Shell(t)
    BY <2>0, <2>2, <2>12 DEF Shell, CliStop, CliReset, CliCommand, CliOutput
  <2> QED BY <2>6, <2>7, <2>8, <2>9, <2>10, <2>11, <2>12 DEF Negotiate, RoundTrip
<1> QED BY <1>1, <1>2, <1>3, RpcStill

\* The device can unplug itself, but not change the flag or the RPC object.
LEMMA DeviceRpc ==
    ASSUME TypeOK, RpcInv, Device
    PROVE  RpcInv'
<1>1. UNCHANGED <<rpc, port, conn>>
  BY DEF Device, DevAnswer, DevProbe, DevFragment, DevLeave, DevDecodeError, DevShell,
         DevReset, OrphanRead, Read, clientVars, portVars
<1>2. \A u \in Tasks : call'[u].pc = call[u].pc
  <2>1. CASE DevReset
    BY <2>1, TearShape DEF DevReset, TypeOK, CallsOK
  <2>2. CASE ~DevReset
    <3>1. call' = call
      BY <2>2 DEF Device, DevAnswer, DevProbe, DevFragment, DevLeave, DevDecodeError,
                  DevShell, OrphanRead, Read
    <3> QED BY <3>1
  <2> QED BY <2>1, <2>2
<1> QED BY <1>1, <1>2, RpcStill

\* Every step keeps the RPC layer above the flag.
LEMMA NextRpc == TypeOK /\ RpcInv /\ [Next]_vars => RpcInv'
<1> SUFFICES ASSUME TypeOK, RpcInv, [Next]_vars PROVE RpcInv'
  OBVIOUS
<1>1. CASE UNCHANGED vars
  BY <1>1, RpcStill DEF vars, clientVars, portVars
<1>2. ASSUME NEW r \in Rpcs, CooldownEnds(r) PROVE RpcInv'
  BY <1>2, RpcStill DEF CooldownEnds, clientVars, portVars
<1>3. ASSUME NEW t \in Tasks, TaskStep(t) PROVE RpcInv'
  BY <1>3, ConnectRpc, ExchangeRpc DEF TaskStep
<1>4. CASE Next
  BY <1>2, <1>3, <1>4, ConnectRpc, LockRpc, DeviceRpc DEF Next
<1> QED BY <1>1, <1>4

\* However many reconnects race (FlipperClient.connect and disconnect take no lock):
\* the flag of a USB or auto transport is never up without an RPC object, whatever
\* fails or is cancelled; over WiFi a connected transport lacks one only while a
\* connect() settles, provided no call is cancelled there.
THEOREM ConnectedClients == Spec => []RpcInv
<1>1. Init => RpcInv
  BY DEF Init, RpcInv, FlagHasRpc, ConnectedHasRpc, Connected
<1> QED BY <1>1, TypeCorrect, NextRpc, PTL DEF Spec

\* The same as the runs state it, for every transport that sets its flag last and for
\* the WiFi transport when calls are not cancelled.
THEOREM ConnectedClientsHaveRpc ==
    "cancel" \notin Faults \/ ~FlagsEarly => (Spec => []ConnectedHasRpc)
<1>1. SUFFICES ASSUME "cancel" \notin Faults \/ ~FlagsEarly PROVE Spec => []ConnectedHasRpc
  OBVIOUS
<1>2. RpcInv => ConnectedHasRpc
  BY <1>1 DEF RpcInv
<1> QED BY <1>2, ConnectedClients, PTL

=============================================================================
