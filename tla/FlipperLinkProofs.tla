------------------------- MODULE FlipperLinkProofs -------------------------
(***************************************************************************)
(* Proofs about FlipperLink, for any number of tool calls, any jobs, media,*)
(* faults and bounds.                                                      *)
(***************************************************************************)
EXTENDS FlipperLink, SequenceTheorems, TLAPS

-----------------------------------------------------------------------------
(* Facts about the data. *)

\* Appending an item keeps a wire a sequence of items.
LEMMA AppendType ==
    ASSUME NEW S, NEW s \in Seq(S), NEW e \in S
    PROVE  Append(s, e) \in Seq(S)
OBVIOUS

\* What is left after the oldest item is taken, and the item, have their types.
LEMMA TailType ==
    ASSUME NEW S, NEW s \in Seq(S), s # <<>>
    PROVE  Tail(s) \in Seq(S) /\ Head(s) \in S
OBVIOUS

\* Taking the only frame empties the wire.
LEMMA SingletonTail ==
    ASSUME NEW S, NEW s \in Seq(S), Len(s) = 1
    PROVE  Tail(s) = <<>>
<1>1. Tail(s) \in Seq(S) /\ Len(Tail(s)) = 0
  OBVIOUS
<1> QED BY <1>1, EmptySeq

\* What a cut wire or a partial read leaves is still a sequence of whole items.
LEMMA PrefixType ==
    ASSUME NEW S, NEW s \in Seq(S), NEW p \in Prefixes(s)
    PROVE  p \in Seq(S)
<1>1. \A i \in 0..Len(s) : SubSeq(s, 1, i) \in Seq(S)
  OBVIOUS
<1> QED BY <1>1 DEF Prefixes

\* A read that swallows the oldest frames leaves whole frames.
LEMMA SuffixType ==
    ASSUME NEW S, NEW s \in Seq(S), NEW p \in Suffixes(s)
    PROVE  p \in Seq(S)
<1>1. \A i \in 1..(Len(s) + 1) : SubSeq(s, i, Len(s)) \in Seq(S)
  OBVIOUS
<1> QED BY <1>1 DEF Suffixes

\* Everything the host sends except a request is an item of the wire.
LEMMA BytesType ==
    ASSUME NEW id \in Nat,
           NEW kind \in {"frag", "reboot", "probe", "stop", "ctrlc", "start", "cmd", "torn_cmd"}
    PROVE  Bytes(kind, id) \in TxItem
BY DEF Bytes, TxItem

\* Marking an exchange as torn keeps the calls calls.
LEMMA TearType ==
    ASSUME NEW calls \in [Tasks -> Call]
    PROVE  Tear(calls) \in [Tasks -> Call]
BY DEF Tear, Call

\* Nothing can be dropped from an empty wire.
LEMMA EmptySuffix ==
    ASSUME NEW s, s = <<>>, NEW p \in Suffixes(s)
    PROVE  p = <<>>
BY DEF Suffixes

\* An empty wire is a sequence of anything.
LEMMA EmptyType == \A S : <<>> \in Seq(S)
OBVIOUS

\* The updates of a call's locals keep it a call.
LEMMA CaptureType ==
    ASSUME NEW calls \in [Tasks -> Call], NEW t \in Tasks, NEW p \in PCs,
           NEW j \in JobStates, NEW r \in Rpcs
    PROVE  [calls EXCEPT ![t].pc = p, ![t].job = j, ![t].mine = r] \in [Tasks -> Call]
BY DEF Call

\* enter_rpc and enter_cli re-reading self.rpc keep a call a call.
LEMMA EnterType ==
    ASSUME NEW calls \in [Tasks -> Call], NEW t \in Tasks, NEW p \in PCs,
           NEW r \in Rpcs, NEW q \in Nat
    PROVE  [calls EXCEPT ![t].pc = p, ![t].mine = r, ![t].req = q] \in [Tasks -> Call]
BY DEF Call

\* A new suspension point and a reset counter keep a call a call.
LEMMA MoveType ==
    ASSUME NEW calls \in [Tasks -> Call], NEW t \in Tasks, NEW p \in PCs, NEW k \in Nat
    PROVE  [calls EXCEPT ![t].pc = p, ![t].n = k] \in [Tasks -> Call]
BY DEF Call

\* The second round trip of gpio_read or get_device_info starts from a call.
LEMMA SecondTripUpdate ==
    ASSUME NEW c \in Call, NEW p \in PCs, NEW j \in JobStates, NEW q \in Nat, NEW b \in BOOLEAN
    PROVE  [c EXCEPT !.pc = p, !.job = j, !.req = q, !.n = 0, !.own = b, !.seen = FALSE]
             \in Call
BY DEF Call

\* Counting a stream frame keeps a call a call.
LEMMA ContinueUpdate ==
    ASSUME NEW calls \in [Tasks -> Call], NEW t \in Tasks, NEW k \in Nat,
           NEW b \in BOOLEAN, NEW c \in BOOLEAN
    PROVE  [calls EXCEPT ![t].n = k, ![t].own = b, ![t].seen = c] \in [Tasks -> Call]
BY DEF Call

\* Taking the lock with a new round trip keeps a call a call.
LEMMA BeginTripType ==
    ASSUME NEW calls \in [Tasks -> Call], NEW t \in Tasks, NEW p \in PCs, NEW q \in Nat
    PROVE  [calls EXCEPT ![t].pc = p, ![t].req = q] \in [Tasks -> Call]
BY DEF Call

\* A finished call is a call.
LEMMA IdleType == Idle \in Call
BY LinkAssumption DEF Idle, Call, PCs, JobStates, Rpcs

\* The labels inside and outside the lock are all labels.
LEMMA LabelType == Locked \cup {"idle", "opening", "settling", "waiting"} \subseteq PCs
BY DEF PCs

\* What a task may be asked to do is one of its job states.
LEMMA JobType == \A j \in Jobs : j \in JobStates
BY LinkAssumption DEF JobStates

-----------------------------------------------------------------------------
(* Type correctness. *)

\* The server starts with every variable in its domain.
LEMMA InitType == Init => TypeOK
<1> SUFFICES ASSUME Init PROVE TypeOK
  OBVIOUS
<1>1. CallsOK
  <2>1. call \in [Tasks -> Call]
    BY IdleType DEF Init
  <2>2. out \in Outcome
    BY DEF Init, Outcome, JobStates
  <2> QED BY <2>1, <2>2 DEF Init, CallsOK
<1>2. ClientOK
  BY LinkAssumption DEF Init, ClientOK, Rpcs
<1>3. PortOK
  BY DEF Init, PortOK
<1>4. WireOK
  BY DEF Init, WireOK
<1>5. HistoryOK
  BY DEF Init, HistoryOK
<1> QED BY <1>1, <1>2, <1>3, <1>4, <1>5 DEF TypeOK

\* A call that ends leaves a call and an outcome.
LEMMA LeaveType ==
    ASSUME CallsOK, NEW t \in Tasks, NEW res \in {"ok", "error"}, NEW isOwn \in BOOLEAN,
           Leave(t, res, isOwn)
    PROVE  call' \in [Tasks -> Call] /\ out' \in Outcome
<1>1. call' \in [Tasks -> Call]
  BY IdleType DEF Leave, CallsOK
<1>2. out' \in Outcome
  <2>1. call[t].job \in JobStates
    BY DEF CallsOK, Call
  <2> QED BY <2>1 DEF Leave, Outcome
<1> QED BY <1>1, <1>2

\* A call that ends and releases the lock keeps calls and lock in their domains.
LEMMA FinishType ==
    ASSUME CallsOK, NEW t \in Tasks, NEW res \in {"ok", "error"}, NEW isOwn \in BOOLEAN,
           Finish(t, res, isOwn)
    PROVE  CallsOK'
BY LeaveType DEF Finish, CallsOK

\* Moving a call to another suspension point keeps the calls' types.
LEMMA GotoType ==
    ASSUME CallsOK, NEW t \in Tasks, NEW label \in PCs, Goto(t, label)
    PROVE  CallsOK'
BY DEF CallsOK, Goto, Call

\* What follows a negotiation keeps the calls' and the mode's types.
LEMMA AfterSessionType ==
    ASSUME CallsOK, ClientOK, NEW t \in Tasks, AfterSession(t)
    PROVE  CallsOK' /\ mode' \in {"UNKNOWN", "RPC", "CLI"}
<1>1. CASE call[t].job = "enter_rpc"
  <2>1. Finish(t, "ok", TRUE) /\ mode' = "RPC"
    BY <1>1 DEF AfterSession
  <2> QED BY <2>1, FinishType
<1>2. CASE call[t].job # "enter_rpc"
  <2>1. "send" \in PCs
    BY LabelType DEF Locked
  <2>2. /\ call' = [call EXCEPT ![t].pc = "send", ![t].n = 0]
        /\ out' = out /\ lock' = lock /\ mode' = mode
    BY <1>2 DEF AfterSession
  <2>3. CallsOK'
    BY <2>1, <2>2 DEF CallsOK, Call
  <2> QED BY <2>2, <2>3 DEF ClientOK
<1> QED BY <1>1, <1>2

\* Setting _rpc_session_started of the captured object keeps the flags Boolean.
LEMMA SetFlagType ==
    ASSUME CallsOK, ClientOK, NEW t \in Tasks, NEW b \in BOOLEAN, SetFlag(t, b)
    PROVE  started' \in [Rpcs -> BOOLEAN]
BY DEF SetFlag, CallsOK, ClientOK, Call

\* Connecting and the lock keep the types.
LEMMA ConnectType ==
    ASSUME TypeOK, NEW t \in Tasks
    PROVE  /\ \A j \in Jobs : BeginLive(t, j) \/ GetRpcFails(t, j) \/ BeginDisconnected(t, j)
             => TypeOK'
           /\ OpenPort(t) \/ OpenFail(t) \/ Settle(t) => TypeOK'
<1> USE DEF TypeOK
<1>1. ASSUME NEW j \in Jobs, BeginLive(t, j) PROVE TypeOK'
  <2>1. j \in JobStates /\ "waiting" \in PCs
    BY JobType, LabelType
  <2>2. CallsOK'
    BY <1>1, <2>1, CaptureType DEF BeginLive, CallsOK, ClientOK, clientVars
  <2> QED BY <1>1, <2>2 DEF BeginLive, ClientOK, PortOK, WireOK, HistoryOK,
                            clientVars, rpcVars, portVars, wireVars
<1>2. ASSUME NEW j \in Jobs, BeginDisconnected(t, j) PROVE TypeOK'
  <2>1. j \in JobStates /\ "opening" \in PCs
    BY JobType, LabelType
  <2>2. [call EXCEPT ![t].pc = "opening", ![t].job = j] \in [Tasks -> Call]
    BY <2>1 DEF CallsOK, Call
  <2>3. CallsOK'
    BY <1>2, <2>2, TearType DEF BeginDisconnected, CallsOK
  <2>4. tx' \in Prefixes(tx) /\ rx' \in Prefixes(rx)
    BY <1>2 DEF BeginDisconnected, Disconnect
  <2>5. WireOK'
    BY <2>4, PrefixType DEF WireOK
  <2>6. ClientOK'
    BY <1>2, LinkAssumption DEF BeginDisconnected, Disconnect, ClientOK, Rpcs, rpcVars
  <2> QED BY <1>2, <2>3, <2>5, <2>6 DEF BeginDisconnected, Disconnect, PortOK, HistoryOK
<1>3. ASSUME OpenPort(t) PROVE TypeOK'
  <2>1. "settling" \in PCs
    BY LabelType
  <2>2. [call EXCEPT ![t].pc = "settling"] \in [Tasks -> Call]
    BY <2>1 DEF CallsOK, Call
  <2>3. CallsOK'
    BY <1>3, <2>2, TearType DEF OpenPort, CallsOK, clientVars
  <2>4. tx' \in {tx, <<>>} /\ rx' \in {rx, <<>>}
    BY <1>3 DEF OpenPort
  <2>5. WireOK'
    BY <2>4, EmptyType DEF WireOK
  <2>6. PortOK'
    BY <1>3 DEF OpenPort, PortOK
  <2> QED BY <1>3, <2>3, <2>5, <2>6 DEF OpenPort, ClientOK, HistoryOK, clientVars, rpcVars
<1>4. ASSUME OpenFail(t) PROVE TypeOK'
  <2>1. CallsOK'
    BY <1>4, LeaveType DEF OpenFail, CallsOK, clientVars
  <2> QED BY <1>4, <2>1 DEF OpenFail, ClientOK, PortOK, WireOK, HistoryOK,
                            clientVars, rpcVars, wireVars
<1>5. ASSUME Settle(t) PROVE TypeOK'
  <2>1. "waiting" \in PCs
    BY LabelType
  <2>2. nRpc + 1 \in Rpcs
    BY <1>5, LinkAssumption DEF Settle, ClientOK, Rpcs
  <2>3. CallsOK'
    BY <1>5, <2>1, <2>2 DEF Settle, CallsOK, Call
  <2>4. ClientOK'
    BY <1>5, <2>2 DEF Settle, ClientOK
  <2> QED BY <1>5, <2>3, <2>4 DEF Settle, PortOK, WireOK, HistoryOK, wireVars
<1>6. ASSUME NEW j \in Jobs, GetRpcFails(t, j) PROVE TypeOK'
  <2>1. out' \in Outcome
    BY <1>6, JobType DEF GetRpcFails, Outcome
  <2> QED BY <1>6, <2>1 DEF GetRpcFails, CallsOK, ClientOK, PortOK, WireOK, HistoryOK,
                            clientVars, rpcVars, portVars, wireVars
<1> QED BY <1>1, <1>2, <1>3, <1>4, <1>5, <1>6

\* Taking, missing or leaving the lock keeps the types.
LEMMA LockType ==
    ASSUME TypeOK, NEW t \in Tasks
    PROVE  Acquire(t) \/ AcquireEnter(t) \/ Cancel(t) \/ CancelWaiting(t) => TypeOK'
<1> USE DEF TypeOK
<1>0. "stop" \in PCs /\ "session" \in PCs
  BY LabelType DEF Locked
<1>1. ASSUME Acquire(t) PROVE TypeOK'
  <2> DEFINE p == IF call[t].job = "cli" THEN "stop" ELSE "session"
  <2>a. p \in PCs /\ nReq + 1 \in Nat
    BY <1>0 DEF HistoryOK
  <2>b. call' = [call EXCEPT ![t].pc = p, ![t].req = nReq + 1] /\ out' = out /\ lock' = t
    BY <1>1 DEF Acquire
  <2> HIDE DEF p
  <2>c. call' \in [Tasks -> Call]
    BY <2>a, <2>b, BeginTripType DEF CallsOK
  <2>1. CallsOK'
    BY <2>b, <2>c DEF CallsOK
  <2> QED BY <1>1, <2>1 DEF Acquire, ClientOK, PortOK, WireOK, HistoryOK,
                            rpcVars, portVars, wireVars
<1>2. ASSUME AcquireEnter(t) PROVE TypeOK'
  <2>1. CASE rpc = 0
    <3>1. Leave(t, "error", TRUE) /\ lock' = lock /\ nReq' = nReq
      BY <1>2, <2>1 DEF AcquireEnter
    <3>2. CallsOK'
      BY <3>1, LeaveType DEF CallsOK
    <3> QED BY <1>2, <3>1, <3>2 DEF AcquireEnter, ClientOK, PortOK, WireOK, HistoryOK,
                                    rpcVars, portVars, wireVars
  <2>2. CASE rpc # 0
    <3>1. /\ lock' = t /\ nReq' = nReq + 1 /\ out' = out
          /\ call' = [call EXCEPT
                        ![t].pc = IF call[t].job = "enter_cli" THEN "stop" ELSE "session",
                        ![t].mine = rpc, ![t].req = nReq + 1]
      BY <1>2, <2>2 DEF AcquireEnter
    <3> DEFINE p == IF call[t].job = "enter_cli" THEN "stop" ELSE "session"
    <3>a. p \in PCs /\ nReq + 1 \in Nat /\ rpc \in Rpcs
      BY <1>0 DEF HistoryOK, ClientOK
    <3>b. call' = [call EXCEPT ![t].pc = p, ![t].mine = rpc, ![t].req = nReq + 1]
      BY <3>1
    <3> HIDE DEF p
    <3>c. call' \in [Tasks -> Call]
      BY <3>a, <3>b, EnterType DEF CallsOK
    <3>2. CallsOK'
      BY <3>1, <3>c DEF CallsOK
    <3> QED BY <1>2, <3>1, <3>2 DEF AcquireEnter, ClientOK, PortOK, WireOK, HistoryOK,
                                    rpcVars, portVars, wireVars
  <2> QED BY <2>1, <2>2
<1>3. ASSUME Cancel(t) PROVE TypeOK'
  <2>1. CallsOK'
    BY <1>3, FinishType DEF Cancel
  <2> QED BY <1>3, <2>1 DEF Cancel, ClientOK, PortOK, WireOK, HistoryOK, rpcVars, wireVars
<1>4. ASSUME CancelWaiting(t) PROVE TypeOK'
  <2>1. CallsOK'
    BY <1>4, LeaveType DEF CancelWaiting, CallsOK, clientVars
  <2> QED BY <1>4, <2>1 DEF CancelWaiting, ClientOK, PortOK, WireOK, HistoryOK,
                            clientVars, rpcVars, portVars, wireVars
<1> QED BY <1>1, <1>2, <1>3, <1>4

\* A misread frame leaves a suffix of what was there.
LEMMA MisreadType ==
    ASSUME rx \in Seq(Frame), Misread
    PROVE  rx' \in Seq(Frame)
<1>1. CASE rx' = rx
  BY <1>1
<1>2. CASE rx # <<>> /\ rx' \in Suffixes(Tail(rx))
  <2>1. Tail(rx) \in Seq(Frame)
    BY <1>2, TailType
  <2> QED BY <1>2, <2>1, SuffixType
<1> QED BY <1>1, <1>2 DEF Misread

\* Sending the negotiation ping keeps the types.
LEMMA SendProbeType ==
    ASSUME TypeOK, NEW t \in Tasks, SendProbe(t)
    PROVE  CallsOK' /\ WireOK' /\ dirty' \in BOOLEAN
<1>1. "probe" \in PCs
  BY LabelType DEF Locked
<1>2. CallsOK'
  BY <1>1, GotoType DEF TypeOK, SendProbe
<1>3. Append(tx, Bytes("probe", 0)) \in Seq(TxItem)
  BY BytesType, AppendType DEF TypeOK, WireOK
<1>4. tx' \in {tx, Append(tx, Bytes("probe", 0))} /\ rx' = <<>> /\ dirty' = TRUE
  BY DEF SendProbe
<1>5. WireOK'
  BY <1>3, <1>4, EmptyType DEF TypeOK, WireOK
<1> QED BY <1>2, <1>4, <1>5

\* Session negotiation keeps the types.
LEMMA NegotiateType ==
    ASSUME TypeOK, NEW t \in Tasks, Negotiate(t)
    PROVE  TypeOK'
<1> USE DEF TypeOK
<1>1. CASE SessionReady(t)
  <2>1. CallsOK' /\ mode' \in {"UNKNOWN", "RPC", "CLI"}
    BY <1>1, AfterSessionType DEF SessionReady
  <2> QED BY <1>1, <2>1 DEF SessionReady, ClientOK, PortOK, WireOK, HistoryOK,
                            rpcVars, portVars, wireVars
<1>2. CASE SessionWifi(t)
  <2>1. CallsOK' /\ mode' \in {"UNKNOWN", "RPC", "CLI"}
    BY <1>2, AfterSessionType DEF SessionWifi
  <2>2. started' \in [Rpcs -> BOOLEAN]
    BY <1>2, SetFlagType DEF SessionWifi
  <2>3. WireOK'
    BY <1>2, SuffixType DEF SessionWifi, WireOK
  <2> QED BY <1>2, <2>1, <2>2, <2>3 DEF SessionWifi, ClientOK, PortOK, HistoryOK, portVars
<1>3. CASE SessionProbe(t)
  <2>1. CASE ForceStart
    <3>1. Goto(t, "attempt") /\ dirty' = TRUE /\ rx' \in Suffixes(rx) /\ tx' = tx
      BY <1>3, <2>1 DEF SessionProbe
    <3>2. "attempt" \in PCs
      BY LabelType DEF Locked
    <3>3. CallsOK'
      BY <3>1, <3>2, GotoType
    <3>4. WireOK'
      BY <3>1, SuffixType DEF WireOK
    <3> QED BY <1>3, <3>1, <3>3, <3>4 DEF SessionProbe, ClientOK, PortOK, HistoryOK,
                                          rpcVars, portVars
  <2>2. CASE ~ForceStart
    <3>1. SendProbe(t)
      BY <1>3, <2>2 DEF SessionProbe
    <3>2. CallsOK' /\ WireOK' /\ dirty' \in BOOLEAN
      BY <3>1, SendProbeType
    <3> QED BY <1>3, <3>2 DEF SessionProbe, ClientOK, PortOK, HistoryOK, rpcVars, portVars
  <2> QED BY <2>1, <2>2
<1>4. CASE ProbeOk(t)
  <2>1. CallsOK' /\ mode' \in {"UNKNOWN", "RPC", "CLI"}
    BY <1>4, AfterSessionType DEF ProbeOk
  <2>2. started' \in [Rpcs -> BOOLEAN]
    BY <1>4, SetFlagType DEF ProbeOk
  <2>3. WireOK'
    BY <1>4, TailType DEF ProbeOk, WireOK
  <2> QED BY <1>4, <2>1, <2>2, <2>3 DEF ProbeOk, ClientOK, PortOK, HistoryOK, portVars
<1>5. CASE ProbeFail(t)
  <2>1. WireOK'
    BY <1>5, MisreadType, TailType DEF ProbeFail, WireOK
  <2>2. CallsOK' /\ ClientOK'
    <3>1. CASE call[t].n < Attempts
      <4>1. Goto(t, "attempt") /\ UNCHANGED <<mode, started, cool>>
        BY <1>5, <3>1 DEF ProbeFail
      <4>2. "attempt" \in PCs
        BY LabelType DEF Locked
      <4>3. CallsOK'
        BY <4>1, <4>2, GotoType
      <4> QED BY <1>5, <4>1, <4>3 DEF ProbeFail, ClientOK
    <3>2. CASE ~(call[t].n < Attempts)
      <4>1. /\ SetFlag(t, FALSE) /\ AfterSession(t)
            /\ cool' = [cool EXCEPT ![call[t].mine] = TRUE]
        BY <1>5, <3>2 DEF ProbeFail
      <4>2. CallsOK' /\ mode' \in {"UNKNOWN", "RPC", "CLI"}
        BY <4>1, AfterSessionType
      <4>3. started' \in [Rpcs -> BOOLEAN]
        BY <4>1, SetFlagType
      <4>4. cool' \in [Rpcs -> BOOLEAN]
        BY <4>1 DEF ClientOK
      <4> QED BY <1>5, <4>2, <4>3, <4>4 DEF ProbeFail, ClientOK
    <3> QED BY <3>1, <3>2
  <2> QED BY <1>5, <2>1, <2>2 DEF ProbeFail, PortOK, HistoryOK, portVars
<1>6. CASE Attempt(t)
  <2>1. "reprobe" \in PCs
    BY LabelType DEF Locked
  <2>a. call \in [Tasks -> Call] /\ call[t].n + 1 \in Nat
    BY DEF CallsOK, Call
  <2>2. call' \in [Tasks -> Call]
    BY <1>6, <2>1, <2>a, MoveType DEF Attempt
  <2>3. <<Bytes("ctrlc", 0), Bytes("start", 0)>> \in Seq(TxItem)
    BY BytesType
  <2>4. WireOK'
    BY <1>6, <2>3 DEF Attempt, WireOK
  <2> QED BY <1>6, <2>2, <2>4 DEF Attempt, CallsOK, ClientOK, PortOK, HistoryOK,
                                  clientVars, rpcVars, portVars
<1>7. CASE Reprobe(t)
  <2>1. CallsOK' /\ WireOK' /\ dirty' \in BOOLEAN
    BY <1>7, SendProbeType DEF Reprobe
  <2> QED BY <1>7, <2>1 DEF Reprobe, ClientOK, PortOK, HistoryOK, rpcVars, portVars
<1> QED BY <1>1, <1>2, <1>3, <1>4, <1>5, <1>6, <1>7 DEF Negotiate

\* A second round trip keeps the types.
LEMMA SecondTripType ==
    ASSUME TypeOK, NEW t \in Tasks, NEW j \in {"gpio2", "prop"}, NEW isOwn,
           SecondTrip(t, j, isOwn)
    PROVE  CallsOK' /\ nReq' \in Nat
<1>1. "session" \in PCs /\ j \in JobStates /\ nReq + 1 \in Nat /\ call \in [Tasks -> Call]
  BY LabelType DEF Locked, JobStates, TypeOK, HistoryOK, CallsOK
<1> DEFINE c == [call[t] EXCEPT !.pc = "session", !.job = j, !.req = nReq + 1,
                                !.n = 0, !.own = dirty \/ isOwn, !.seen = FALSE]
<1>c. (dirty \/ isOwn) \in BOOLEAN
  OBVIOUS
<1>a. c \in Call
  BY <1>1, <1>c, SecondTripUpdate
<1>b. call' = [call EXCEPT ![t] = c]
  BY DEF SecondTrip
<1>2. call' \in [Tasks -> Call]
  <2> HIDE DEF c
  <2> QED BY <1>1, <1>a, <1>b
<1> QED BY <1>1, <1>2 DEF SecondTrip, TypeOK, CallsOK

\* Whether a frame is the call's own is a Boolean.
LEMMA TookOwnType ==
    ASSUME TypeOK, NEW t \in Tasks, rx # <<>>
    PROVE  TookOwn(t) \in BOOLEAN
BY DEF TookOwn

\* Ending a call with a frame keeps the types.
LEMMA ReturnType ==
    ASSUME TypeOK, NEW t \in Tasks, NEW okay \in BOOLEAN, Return(t, okay)
    PROVE  CallsOK' /\ nReq' \in Nat
<1>1. TookOwn(t) \in BOOLEAN
  BY DEF TookOwn
<1>2. (IF okay THEN "ok" ELSE "error") \in {"ok", "error"}
  OBVIOUS
<1>3. CallsOK'
  BY <1>1, <1>2, FinishType DEF Return, TypeOK
<1> QED BY <1>3 DEF Return, TypeOK, HistoryOK

\* Waiting for the next frame of a stream keeps the types.
LEMMA ContinueType ==
    ASSUME TypeOK, NEW t \in Tasks, NEW some \in BOOLEAN, Continue(t, some)
    PROVE  CallsOK' /\ nReq' \in Nat /\ dirty' \in BOOLEAN
<1>1. TookOwn(t) \in BOOLEAN
  BY DEF TookOwn
<1>2. call \in [Tasks -> Call] /\ call[t].n + 1 \in Nat
  BY DEF TypeOK, CallsOK, Call
<1>3. call' \in [Tasks -> Call]
  BY <1>1, <1>2, ContinueUpdate DEF Continue
<1> QED BY <1>3 DEF Continue, TypeOK, CallsOK, HistoryOK

\* What a frame that is taken leaves, beside the call itself.
LEMMA TakeType ==
    ASSUME TypeOK, NEW t \in Tasks, NEW jobs, Take(t, jobs)
    PROVE  ClientOK' /\ PortOK' /\ WireOK' /\ stray' \in BOOLEAN
<1>1. WireOK'
  BY TailType DEF Take, TypeOK, WireOK
<1>2. PortOK' /\ stray' \in BOOLEAN
  BY DEF Take, TypeOK, PortOK, HistoryOK, portVars
<1>3. ClientOK'
  BY DEF Take, TypeOK, ClientOK, rpcVars
<1> QED BY <1>1, <1>2, <1>3

\* Putting one item on the wire keeps it a wire.
LEMMA SendType ==
    ASSUME TypeOK, NEW item \in TxItem, tx' = Append(tx, item), rx' = rx
    PROVE  WireOK'
BY AppendType DEF TypeOK, WireOK

\* The round trip of an RPC method keeps the types.
LEMMA SendingType ==
    ASSUME TypeOK, NEW t \in Tasks,
           SendFragment(t) \/ SendRequest(t) \/ SendReboot(t) \/ SendFails(t) \/ RecvNone(t)
    PROVE  TypeOK'
<1> USE DEF TypeOK
<1>0. call \in [Tasks -> Call] /\ call[t].req \in Nat /\ call[t].n \in Nat /\ call[t].own \in BOOLEAN
  BY DEF CallsOK, Call
<1>1. CASE SendFragment(t)
  <2>1. Bytes("frag", call[t].req) \in TxItem
    BY <1>0, BytesType
  <2>2. WireOK'
    BY <1>1, <2>1, SendType DEF SendFragment
  <2>a. call' = [call EXCEPT ![t].n = call[t].n + 1]
    BY <1>1 DEF SendFragment
  <2>3. call' \in [Tasks -> Call]
    BY <1>0, <2>a DEF Call
  <2> QED BY <1>1, <2>2, <2>3 DEF SendFragment, CallsOK, ClientOK, PortOK, HistoryOK,
                                  clientVars, rpcVars, portVars
<1>2. CASE SendRequest(t)
  <2>1. Request(t) \in TxItem
    BY <1>0 DEF Request, TxItem, Ask, Families
  <2>2. WireOK'
    BY <1>2, <2>1, SendType DEF SendRequest
  <2>3. "recv" \in PCs
    BY LabelType DEF Locked
  <2>4. call' \in [Tasks -> Call]
    BY <1>0, <1>2, <2>3, MoveType DEF SendRequest
  <2> QED BY <1>2, <2>2, <2>4 DEF SendRequest, CallsOK, ClientOK, PortOK, HistoryOK,
                                  clientVars, rpcVars, portVars
<1>3. CASE SendReboot(t)
  <2>1. Bytes("reboot", call[t].req) \in TxItem
    BY <1>0, BytesType
  <2>2. WireOK'
    BY <1>3, <2>1, SendType DEF SendReboot
  <2>3. CallsOK'
    BY <1>3, FinishType DEF SendReboot
  <2> QED BY <1>3, <2>2, <2>3 DEF SendReboot, ClientOK, PortOK, HistoryOK, rpcVars, portVars
<1>4. CASE SendFails(t)
  <2>1. CallsOK' /\ nReq' \in Nat
    <3>1. CASE call[t].job = "info"
      BY <1>4, <3>1, SecondTripType DEF SendFails
    <3>2. CASE call[t].job # "info"
      BY <1>4, <3>2, FinishType DEF SendFails, HistoryOK
    <3> QED BY <3>1, <3>2
  <2> QED BY <1>4, <2>1 DEF SendFails, ClientOK, PortOK, WireOK, HistoryOK,
                            rpcVars, portVars, wireVars
<1>5. CASE RecvNone(t)
  <2>1. CallsOK' /\ nReq' \in Nat
    <3>1. CASE call[t].job = "info" /\ ~call[t].seen
      BY <1>5, <3>1, SecondTripType DEF RecvNone
    <3>2. CASE ~(call[t].job = "info" /\ ~call[t].seen)
      <4> DEFINE res == IF call[t].job = "info" \/ (call[t].job = "power" /\ call[t].n > 0)
                          THEN "ok" ELSE "error"
      <4>1. Finish(t, res, call[t].own) /\ nReq' = nReq
        BY <1>5, <3>2 DEF RecvNone
      <4>2. res \in {"ok", "error"}
        OBVIOUS
      <4> HIDE DEF res
      <4> QED BY <1>0, <4>1, <4>2, FinishType DEF HistoryOK
    <3> QED BY <3>1, <3>2
  <2>2. WireOK'
    BY <1>5, MisreadType DEF RecvNone, WireOK
  <2> QED BY <1>5, <2>1, <2>2 DEF RecvNone, ClientOK, PortOK, HistoryOK, rpcVars, portVars
<1> QED BY <1>1, <1>2, <1>3, <1>4, <1>5

\* Each way of receiving a frame keeps the types.
LEMMA ReceivingType ==
    ASSUME TypeOK, NEW t \in Tasks,
           \/ RecvAck(t) \/ RecvTyped(t) \/ RecvLocked(t) \/ RecvGpio(t) \/ RecvGpioValue(t)
           \/ RecvList(t) \/ RecvInfo(t)
    PROVE  TypeOK'
<1>1. ASSUME NEW okay \in BOOLEAN, NEW jobs, Take(t, jobs), Return(t, okay), EndTrip
      PROVE  TypeOK'
  BY <1>1, TakeType, ReturnType DEF TypeOK, HistoryOK, EndTrip
<1>2. ASSUME NEW j \in {"gpio2", "prop"}, NEW isOwn, NEW jobs, Take(t, jobs),
             SecondTrip(t, j, isOwn), EndTrip
      PROVE  TypeOK'
  BY <1>2, TakeType, SecondTripType DEF TypeOK, HistoryOK, EndTrip
<1>3. ASSUME NEW some \in BOOLEAN, NEW jobs, Take(t, jobs), Continue(t, some)
      PROVE  TypeOK'
  BY <1>3, TakeType, ContinueType DEF TypeOK, HistoryOK
<1>4. rx # <<>> => Head(rx) \in Frame
  BY TailType DEF TypeOK, WireOK
<1>5. rx # <<>> => Head(rx).ok \in BOOLEAN /\ Head(rx).more \in BOOLEAN
  BY <1>4 DEF Frame
<1>6. CASE RecvAck(t)
  BY <1>1, <1>5, <1>6 DEF RecvAck, Take
<1>7. CASE RecvTyped(t)
  <2>1. (Head(rx).ok /\ Head(rx).ask = Ask(call[t].job)) \in BOOLEAN
    OBVIOUS
  <2> QED BY <1>1, <1>7, <2>1 DEF RecvTyped
<1>12. CASE RecvLocked(t)
  BY <1>1, <1>12 DEF RecvLocked
<1>8. CASE RecvGpio(t)
  BY <1>1, <1>2, <1>8 DEF RecvGpio
<1>9. CASE RecvGpioValue(t)
  BY <1>1, <1>9 DEF RecvGpioValue
<1>10. CASE RecvList(t)
  <2>1. (Head(rx).ok /\ ~Head(rx).more) \in BOOLEAN
    OBVIOUS
  <2> QED BY <1>1, <1>3, <1>10, <2>1 DEF RecvList
<1>11. CASE RecvInfo(t)
  <2> DEFINE some == \/ call[t].seen
                     \/ Head(rx).ask = call[t].job /\ (Head(rx).ok \/ call[t].n > 0)
             okay == Head(rx).ok \/ call[t].n > 0
  <2>1. some \in BOOLEAN /\ okay \in BOOLEAN
    OBVIOUS
  <2>2. /\ Take(t, {"info", "power"})
        /\ \/ Continue(t, some)
           \/ EndTrip /\ SecondTrip(t, "prop", TookOwn(t))
           \/ EndTrip /\ Return(t, okay)
    BY <1>11 DEF RecvInfo
  <2> HIDE DEF some, okay
  <2> QED BY <1>1, <1>2, <1>3, <2>1, <2>2
<1> QED BY <1>6, <1>7, <1>8, <1>9, <1>10, <1>11, <1>12

\* The text shell keeps the types.
LEMMA ShellType ==
    ASSUME TypeOK, NEW t \in Tasks, Shell(t)
    PROVE  TypeOK'
<1> USE DEF TypeOK
<1>0. {"stopped", "prompt", "output"} \subseteq PCs
  BY LabelType DEF Locked
<1>1. CASE CliStop(t)
  <2>1. CASE port
    <3>1. tx' = Append(tx, Bytes("stop", 0)) /\ Goto(t, "stopped") /\ rx' = rx
      BY <1>1, <2>1 DEF CliStop
    <3>2. CallsOK'
      BY <1>0, <3>1, GotoType
    <3>3. WireOK'
      BY <3>1, BytesType, SendType
    <3> QED BY <1>1, <3>2, <3>3 DEF CliStop, ClientOK, PortOK, HistoryOK, rpcVars, portVars
  <2>2. CASE ~port
    <3>1. Finish(t, "error", TRUE) /\ tx' = tx /\ rx' = rx
      BY <1>1, <2>2 DEF CliStop
    <3>2. CallsOK'
      BY <3>1, FinishType
    <3> QED BY <1>1, <3>1, <3>2 DEF CliStop, ClientOK, PortOK, WireOK, HistoryOK, rpcVars, portVars
  <2> QED BY <2>1, <2>2
<1>2. CASE CliReset(t)
  <2>1. started' \in [Rpcs -> BOOLEAN]
    BY <1>2, SetFlagType DEF CliReset
  <2>2. CallsOK' /\ WireOK'
    <3>1. CASE call[t].job = "cli" /\ port
      <4>1. tx' = Append(tx, Bytes("ctrlc", 0)) /\ Goto(t, "prompt") /\ rx' = <<>>
        BY <1>2, <3>1 DEF CliReset
      <4>2. CallsOK'
        BY <1>0, <4>1, GotoType
      <4>3. Append(tx, Bytes("ctrlc", 0)) \in Seq(TxItem)
        BY BytesType, AppendType DEF WireOK
      <4> QED BY <4>1, <4>2, <4>3, EmptyType DEF WireOK
    <3>2. CASE ~(call[t].job = "cli" /\ port)
      <4> DEFINE res == IF call[t].job = "cli" THEN "error" ELSE "ok"
      <4>1. Finish(t, res, TRUE) /\ tx' = tx /\ rx' = <<>>
        BY <1>2, <3>2 DEF CliReset
      <4>2. res \in {"ok", "error"}
        OBVIOUS
      <4> HIDE DEF res
      <4>3. CallsOK'
        BY <4>1, <4>2, FinishType
      <4> QED BY <4>1, <4>3, EmptyType DEF WireOK
    <3> QED BY <3>1, <3>2
  <2> QED BY <1>2, <2>1, <2>2 DEF CliReset, ClientOK, PortOK, HistoryOK, portVars
<1>3. CASE CliCommand(t)
  <2>1. CallsOK' /\ WireOK'
    <3>1. CASE port
      <4> DEFINE kind == IF call[t].torn THEN "torn_cmd" ELSE "cmd"
      <4>1. tx' = Append(tx, Bytes(kind, 0)) /\ Goto(t, "output") /\ rx' = <<>>
        BY <1>3, <3>1 DEF CliCommand
      <4>2. kind \in {"torn_cmd", "cmd"}
        OBVIOUS
      <4> HIDE DEF kind
      <4>3. CallsOK'
        BY <1>0, <4>1, GotoType
      <4>4. Append(tx, Bytes(kind, 0)) \in Seq(TxItem)
        BY <4>2, BytesType, AppendType DEF WireOK
      <4> QED BY <4>1, <4>3, <4>4, EmptyType DEF WireOK
    <3>2. CASE ~port
      <4>1. Finish(t, "error", TRUE) /\ UNCHANGED wireVars
        BY <1>3, <3>2 DEF CliCommand
      <4> QED BY <4>1, FinishType DEF WireOK, wireVars
    <3> QED BY <3>1, <3>2
  <2> QED BY <1>3, <2>1 DEF CliCommand, ClientOK, PortOK, HistoryOK, rpcVars, portVars
<1>4. CASE CliOutput(t)
  <2> DEFINE res == IF port THEN "ok" ELSE "error"
  <2>1. Finish(t, res, TRUE) /\ tx' = tx /\ rx' = <<>>
    BY <1>4 DEF CliOutput
  <2>2. res \in {"ok", "error"}
    OBVIOUS
  <2> HIDE DEF res
  <2>3. CallsOK'
    BY <2>1, <2>2, FinishType
  <2>4. WireOK'
    BY <2>1, EmptyType DEF WireOK
  <2> QED BY <1>4, <2>3, <2>4 DEF CliOutput, ClientOK, PortOK, HistoryOK, rpcVars, portVars
<1> QED BY <1>1, <1>2, <1>3, <1>4 DEF Shell

\* A frame the device emits or loses keeps the host's wire a wire.
LEMMA EmitType ==
    ASSUME WireOK, NEW frame \in Frame, Emit(frame)
    PROVE  rx' \in Seq(Frame)
<1>1. Append(rx, frame) \in Seq(Frame)
  BY AppendType DEF WireOK
<1> QED BY <1>1 DEF Emit, WireOK

\* The device's text, probe answers and decode errors are frames.
LEMMA SignalType ==
    ASSUME WireOK, tx # <<>>, NEW kind \in {"probe", "err", "text"}, NEW okay \in BOOLEAN
    PROVE  Signal(kind, okay) \in Frame
<1>1. Head(tx) \in TxItem
  BY TailType DEF WireOK
<1> QED BY <1>1 DEF Signal, Frame, TxItem

\* The device, a reset and a read left running keep the types.
LEMMA DeviceType ==
    ASSUME TypeOK, Device
    PROVE  TypeOK'
<1> USE DEF TypeOK
<1>0. ASSUME NEW kinds, NEW in, Read(kinds, in)
      PROVE  /\ CallsOK' /\ ClientOK' /\ nReq' \in Nat /\ dirty' \in BOOLEAN
             /\ medium' \in Media /\ port' \in BOOLEAN /\ conn' \in BOOLEAN /\ orphan' \in BOOLEAN
             /\ tx # <<>> /\ Head(tx) \in TxItem /\ Tail(tx) \in Seq(TxItem)
  <2>1. Head(tx) \in TxItem /\ Tail(tx) \in Seq(TxItem)
    BY <1>0, TailType DEF Read, WireOK
  <2>2. CallsOK'
    BY <1>0 DEF Read, CallsOK, clientVars
  <2> QED BY <1>0, <2>1, <2>2 DEF Read, ClientOK, PortOK, HistoryOK, clientVars, rpcVars, portVars
<1>1. CASE DevAnswer
  <2>1. Read({"req"}, "RPC")
    BY <1>1 DEF DevAnswer
  <2>2. PICK ok \in BOOLEAN, more \in BOOLEAN :
          /\ Emit([k |-> "ans", id |-> Head(tx).id, ask |-> Head(tx).ask, ok |-> ok, more |-> more])
          /\ tx' = IF more THEN tx ELSE Tail(tx)
    BY <1>1 DEF DevAnswer
  <2>3. [k |-> "ans", id |-> Head(tx).id, ask |-> Head(tx).ask, ok |-> ok, more |-> more] \in Frame
    BY <1>0, <2>1 DEF TxItem, Frame
  <2>4. rx' \in Seq(Frame)
    BY <2>2, <2>3, EmitType
  <2>5. WireOK'
    BY <1>0, <2>1, <2>2, <2>4 DEF WireOK
  <2> QED BY <1>0, <1>1, <2>1, <2>5 DEF DevAnswer, PortOK, HistoryOK
<1>2. CASE DevProbe
  <2>1. Read({"probe"}, "RPC") /\ Emit(Signal("probe", TRUE)) /\ tx' = Tail(tx)
    BY <1>2 DEF DevProbe
  <2>2. rx' \in Seq(Frame)
    BY <1>0, <2>1, SignalType, EmitType
  <2> QED BY <1>0, <1>2, <2>1, <2>2 DEF DevProbe, WireOK, PortOK, HistoryOK
<1>3. CASE DevFragment
  <2>1. Read({"frag"}, "RPC") /\ tx' = Tail(tx)
    BY <1>3 DEF DevFragment
  <2> QED BY <1>0, <1>3, <2>1 DEF DevFragment, WireOK, PortOK, HistoryOK
<1>4. CASE DevLeave
  <2>1. Read({"stop", "reboot"}, "RPC") /\ tx' = Tail(tx)
    BY <1>4 DEF DevLeave
  <2>2. rx' = rx \/ Emit(Signal("text", FALSE))
    BY <1>4 DEF DevLeave
  <2>3. rx' \in Seq(Frame)
    BY <1>0, <2>1, <2>2, SignalType, EmitType DEF WireOK
  <2> QED BY <1>0, <1>4, <2>1, <2>3 DEF DevLeave, WireOK, PortOK, HistoryOK
<1>5. CASE DevDecodeError
  <2>1. /\ Read({"ctrlc", "start", "cmd", "torn_cmd"}, "RPC") /\ tx' = Tail(tx)
        /\ Emit(Signal("err", FALSE))
    BY <1>5 DEF DevDecodeError
  <2>2. rx' \in Seq(Frame)
    BY <1>0, <2>1, SignalType, EmitType
  <2> QED BY <1>0, <1>5, <2>1, <2>2 DEF DevDecodeError, WireOK, PortOK, HistoryOK
<1>6. CASE DevShell
  <2>1. Read({Head(tx).k}, "CLI") /\ tx' = Tail(tx)
    BY <1>6 DEF DevShell
  <2>2. rx' = rx \/ Emit(Signal("text", FALSE))
    BY <1>6 DEF DevShell
  <2>3. rx' \in Seq(Frame)
    BY <1>0, <2>1, <2>2, SignalType, EmitType DEF WireOK
  <2>4. dmode' \in {"CLI", "RPC"}
    BY <1>6 DEF DevShell
  <2> QED BY <1>0, <1>6, <2>1, <2>3, <2>4 DEF DevShell, WireOK, PortOK, HistoryOK
<1>7. CASE DevReset
  <2>1. CallsOK'
    BY <1>7, TearType DEF DevReset, CallsOK, clientVars
  <2>2. WireOK'
    BY <1>7, EmptyType, PrefixType DEF DevReset, WireOK
  <2> QED BY <1>7, <2>1, <2>2 DEF DevReset, ClientOK, PortOK, HistoryOK,
                                  clientVars, rpcVars, portVars
<1>8. CASE OrphanRead
  <2>1. WireOK'
    BY <1>8, SuffixType DEF OrphanRead, WireOK
  <2>2. CallsOK'
    BY <1>8 DEF OrphanRead, CallsOK, clientVars
  <2> QED BY <1>8, <2>1, <2>2 DEF OrphanRead, ClientOK, PortOK, HistoryOK, clientVars, rpcVars
<1> QED BY <1>1, <1>2, <1>3, <1>4, <1>5, <1>6, <1>7, <1>8 DEF Device

\* The end of a cooldown keeps the types.
LEMMA CooldownType ==
    ASSUME TypeOK, NEW r \in Rpcs, CooldownEnds(r)
    PROVE  TypeOK'
<1>1. ClientOK'
  BY DEF CooldownEnds, TypeOK, ClientOK, clientVars
<1> QED BY <1>1 DEF CooldownEnds, TypeOK, CallsOK, PortOK, WireOK, HistoryOK,
                    clientVars, portVars, wireVars

\* Type correctness: whatever calls, reconnects, cancellations and device steps
\* interleave, every variable of the link stays in its domain.
THEOREM TypeCorrect == Spec => []TypeOK
<1>1. ASSUME TypeOK, [Next]_vars PROVE TypeOK'
  <2>1. CASE UNCHANGED vars
    BY <1>1, <2>1 DEF TypeOK, CallsOK, ClientOK, PortOK, WireOK, HistoryOK,
                      vars, clientVars, rpcVars, portVars, wireVars
  <2>2. ASSUME NEW t \in Tasks, TaskStep(t) PROVE TypeOK'
    BY <1>1, <2>2, ConnectType, NegotiateType, SendingType, ReceivingType, ShellType
       DEF TaskStep, RoundTrip
  <2>3. ASSUME Next PROVE TypeOK'
    BY <1>1, <2>2, <2>3, ConnectType, LockType, CooldownType, DeviceType DEF Next
  <2> QED BY <1>1, <2>1, <2>3
<1> QED BY InitType, <1>1, PTL DEF Spec

-----------------------------------------------------------------------------
(* Mutual exclusion. *)

\* The labels before the lock is taken are not labels of an exchange.
LEMMA FreeLabels ==
    /\ "idle" \notin Locked /\ "opening" \notin Locked
    /\ "settling" \notin Locked /\ "waiting" \notin Locked
BY DEF Locked

\* The three things a task may do to the lock.
LEMMA SerializedStep ==
    ASSUME CallsOK, Serialized, NEW t \in Tasks,
           \A u \in Tasks \ {t} : call'[u].pc = call[u].pc,
           \/ lock' = lock /\ (call'[t].pc \in Locked <=> call[t].pc \in Locked)
           \/ lock = t /\ lock' = NoTask /\ call'[t].pc \notin Locked
           \/ lock = NoTask /\ lock' = t /\ call'[t].pc \in Locked
    PROVE  Serialized'
BY LinkAssumption DEF Serialized, CallsOK

\* A call that ends is idle and the other calls are untouched.
LEMMA LeaveShape ==
    ASSUME CallsOK, NEW t \in Tasks, NEW res, NEW isOwn, Leave(t, res, isOwn)
    PROVE  /\ call'[t] = Idle
           /\ \A u \in Tasks \ {t} : call'[u] = call[u]
BY DEF CallsOK, Leave

\* Tearing an exchange moves no call.
LEMMA TearShape ==
    ASSUME NEW calls \in [Tasks -> Call], NEW u \in Tasks
    PROVE  /\ Tear(calls)[u].pc = calls[u].pc
           /\ Tear(calls)[u].own = calls[u].own
           /\ Tear(calls)[u].req = calls[u].req
BY DEF Tear, Call

\* A call that does not hold the lock may end.
LEMMA LeaveSerialized ==
    ASSUME CallsOK, Serialized, NEW t \in Tasks, NEW res, NEW isOwn,
           Leave(t, res, isOwn), call[t].pc \notin Locked, lock' = lock
    PROVE  Serialized'
BY LeaveShape, FreeLabels, SerializedStep DEF Idle

\* The holder may end and release the lock.
LEMMA FinishSerialized ==
    ASSUME CallsOK, Serialized, NEW t \in Tasks, NEW res, NEW isOwn,
           Finish(t, res, isOwn), call[t].pc \in Locked
    PROVE  Serialized'
<1>1. lock = t /\ lock' = NoTask /\ Leave(t, res, isOwn)
  BY DEF Finish, Serialized
<1> QED BY <1>1, LeaveShape, FreeLabels, SerializedStep DEF Idle

\* The holder may move within its exchange.
LEMMA GotoSerialized ==
    ASSUME CallsOK, Serialized, NEW t \in Tasks, NEW label \in Locked,
           Goto(t, label), call[t].pc \in Locked
    PROVE  Serialized'
<1>1. /\ call'[t].pc = label /\ lock' = lock
      /\ \A u \in Tasks \ {t} : call'[u].pc = call[u].pc
  BY DEF CallsOK, Goto, Call
<1> QED BY <1>1, SerializedStep

\* What follows a negotiation keeps the lock with its holder or releases it.
LEMMA AfterSessionSerialized ==
    ASSUME CallsOK, Serialized, NEW t \in Tasks, AfterSession(t), call[t].pc \in Locked
    PROVE  Serialized'
<1>1. CASE call[t].job = "enter_rpc"
  <2>1. Finish(t, "ok", TRUE)
    BY <1>1 DEF AfterSession
  <2> QED BY <2>1, FinishSerialized
<1>2. CASE call[t].job # "enter_rpc"
  <2>1. call' = [call EXCEPT ![t].pc = "send", ![t].n = 0] /\ lock' = lock
    BY <1>2 DEF AfterSession
  <2>2. call'[t].pc = "send" /\ \A u \in Tasks \ {t} : call'[u].pc = call[u].pc
    BY <2>1 DEF CallsOK, Call
  <2>3. "send" \in Locked
    BY DEF Locked
  <2> QED BY <2>1, <2>2, <2>3, SerializedStep
<1> QED BY <1>1, <1>2

\* A second round trip is made under the same lock.
LEMMA SecondTripSerialized ==
    ASSUME CallsOK, Serialized, NEW t \in Tasks, NEW j, NEW isOwn, SecondTrip(t, j, isOwn),
           call[t].pc \in Locked
    PROVE  Serialized'
<1>1. /\ call'[t].pc = "session" /\ lock' = lock
      /\ \A u \in Tasks \ {t} : call'[u].pc = call[u].pc
  BY DEF CallsOK, SecondTrip, Call
<1>2. "session" \in Locked
  BY DEF Locked
<1> QED BY <1>1, <1>2, SerializedStep

\* Waiting for the next frame is done under the same lock.
LEMMA ContinueSerialized ==
    ASSUME CallsOK, Serialized, NEW t \in Tasks, NEW some, Continue(t, some)
    PROVE  Serialized'
<1>1. lock' = lock /\ \A u \in Tasks : call'[u].pc = call[u].pc
  BY DEF CallsOK, Continue, Call
<1> QED BY <1>1, SerializedStep

\* A step that moves no call and leaves the lock alone.
LEMMA StillSerialized ==
    ASSUME Serialized, \A u \in Tasks : call'[u].pc = call[u].pc, lock' = lock
    PROVE  Serialized'
BY DEF Serialized

\* connect() and disconnect() enter no exchange.
LEMMA ConnectSerialized ==
    ASSUME TypeOK, Serialized, NEW t \in Tasks
    PROVE  /\ \A j \in Jobs : BeginLive(t, j) \/ GetRpcFails(t, j) \/ BeginDisconnected(t, j)
             => Serialized'
           /\ OpenPort(t) \/ OpenFail(t) \/ Settle(t) => Serialized'
<1>0. CallsOK
  BY DEF TypeOK
<1>1. ASSUME NEW j \in Jobs, BeginLive(t, j) PROVE Serialized'
  <2>1. call[t].pc = "idle" /\ lock' = lock
    BY <1>1 DEF BeginLive, MayStart, clientVars
  <2>2. call'[t].pc = "waiting" /\ \A u \in Tasks \ {t} : call'[u].pc = call[u].pc
    BY <1>0, <1>1 DEF BeginLive, CallsOK, Call
  <2> QED BY <1>0, <2>1, <2>2, FreeLabels, SerializedStep
<1>2. ASSUME NEW j \in Jobs, BeginDisconnected(t, j) PROVE Serialized'
  <2> DEFINE calls == [call EXCEPT ![t].pc = "opening", ![t].job = j]
  <2>1. call[t].pc = "idle" /\ lock' = lock /\ call' = Tear(calls)
    BY <1>2 DEF BeginDisconnected, MayStart
  <2>2. j \in JobStates /\ "opening" \in PCs
    BY JobType, LabelType
  <2>3. calls \in [Tasks -> Call]
    BY <1>0, <2>2 DEF CallsOK, Call
  <2>4. calls[t].pc = "opening" /\ \A u \in Tasks \ {t} : calls[u].pc = call[u].pc
    BY <1>0 DEF CallsOK, Call
  <2> HIDE DEF calls
  <2>5. call'[t].pc = "opening" /\ \A u \in Tasks \ {t} : call'[u].pc = call[u].pc
    BY <2>1, <2>3, <2>4, TearShape
  <2> QED BY <1>0, <2>1, <2>5, FreeLabels, SerializedStep
<1>3. ASSUME OpenPort(t) PROVE Serialized'
  <2> DEFINE calls == [call EXCEPT ![t].pc = "settling"]
  <2>1. call[t].pc = "opening" /\ lock' = lock /\ call' = Tear(calls)
    BY <1>3 DEF OpenPort, clientVars
  <2>2. "settling" \in PCs
    BY LabelType
  <2>3. calls \in [Tasks -> Call]
    BY <1>0, <2>2 DEF CallsOK, Call
  <2>4. calls[t].pc = "settling" /\ \A u \in Tasks \ {t} : calls[u].pc = call[u].pc
    BY <1>0 DEF CallsOK, Call
  <2> HIDE DEF calls
  <2>5. call'[t].pc = "settling" /\ \A u \in Tasks \ {t} : call'[u].pc = call[u].pc
    BY <2>1, <2>3, <2>4, TearShape
  <2> QED BY <1>0, <2>1, <2>5, FreeLabels, SerializedStep
<1>4. ASSUME OpenFail(t) PROVE Serialized'
  BY <1>0, <1>4, FreeLabels, LeaveSerialized DEF OpenFail, clientVars
<1>5. ASSUME Settle(t) PROVE Serialized'
  <2>1. call[t].pc = "settling" /\ lock' = lock
    BY <1>5 DEF Settle
  <2>2. call'[t].pc = "waiting" /\ \A u \in Tasks \ {t} : call'[u].pc = call[u].pc
    BY <1>0, <1>5 DEF Settle, CallsOK, Call
  <2> QED BY <1>0, <2>1, <2>2, FreeLabels, SerializedStep
<1>6. ASSUME NEW j \in Jobs, GetRpcFails(t, j) PROVE Serialized'
  BY <1>6, StillSerialized DEF GetRpcFails, clientVars
<1> QED BY <1>1, <1>2, <1>3, <1>4, <1>5, <1>6

\* The lock is taken by one call at a time and given back by the call that leaves.
LEMMA LockSerialized ==
    ASSUME TypeOK, Serialized, NEW t \in Tasks
    PROVE  Acquire(t) \/ AcquireEnter(t) \/ Cancel(t) \/ CancelWaiting(t) => Serialized'
<1>0. CallsOK /\ "stop" \in Locked /\ "session" \in Locked
  BY DEF TypeOK, Locked
<1>1. ASSUME Acquire(t) PROVE Serialized'
  <2>1. lock = NoTask /\ lock' = t
    BY <1>1 DEF Acquire
  <2>2. call'[t].pc \in {"stop", "session"} /\ \A u \in Tasks \ {t} : call'[u].pc = call[u].pc
    BY <1>0, <1>1 DEF Acquire, CallsOK, Call
  <2> QED BY <1>0, <2>1, <2>2, SerializedStep
<1>2. ASSUME AcquireEnter(t) PROVE Serialized'
  <2>1. CASE rpc = 0
    BY <1>0, <1>2, <2>1, FreeLabels, LeaveSerialized DEF AcquireEnter
  <2>2. CASE rpc # 0
    <3>1. lock = NoTask /\ lock' = t
      BY <1>2, <2>2 DEF AcquireEnter
    <3>2. call'[t].pc \in {"stop", "session"} /\ \A u \in Tasks \ {t} : call'[u].pc = call[u].pc
      BY <1>0, <1>2, <2>2 DEF AcquireEnter, CallsOK, Call
    <3> QED BY <1>0, <3>1, <3>2, SerializedStep
  <2> QED BY <2>1, <2>2
<1>3. ASSUME Cancel(t) PROVE Serialized'
  BY <1>0, <1>3, FinishSerialized DEF Cancel
<1>4. ASSUME CancelWaiting(t) PROVE Serialized'
  BY <1>0, <1>4, FreeLabels, LeaveSerialized DEF CancelWaiting, clientVars
<1> QED BY <1>1, <1>2, <1>3, <1>4

\* Negotiation, round trips and the shell run under the lock.
LEMMA TaskSerialized ==
    ASSUME TypeOK, Serialized, NEW t \in Tasks, Negotiate(t) \/ RoundTrip(t) \/ Shell(t)
    PROVE  Serialized'
<1>0. CallsOK
  BY DEF TypeOK
<1>1. {"session", "probe", "attempt", "reprobe", "send", "recv", "stop", "stopped", "prompt",
       "output"} \subseteq Locked
  BY DEF Locked
<1>2. CASE Negotiate(t)
  <2>1. CASE SessionReady(t) \/ SessionWifi(t) \/ ProbeOk(t)
    BY <1>0, <1>1, <2>1, AfterSessionSerialized DEF SessionReady, SessionWifi, ProbeOk
  <2>2. CASE SessionProbe(t) \/ Reprobe(t)
    BY <1>0, <1>1, <2>2, GotoSerialized DEF SessionProbe, Reprobe, SendProbe
  <2>3. CASE ProbeFail(t)
    BY <1>0, <1>1, <2>3, GotoSerialized, AfterSessionSerialized DEF ProbeFail
  <2>4. CASE Attempt(t)
    <3>1. call[t].pc = "attempt" /\ lock' = lock
      BY <2>4 DEF Attempt, clientVars
    <3>2. call'[t].pc = "reprobe" /\ \A u \in Tasks \ {t} : call'[u].pc = call[u].pc
      BY <1>0, <2>4 DEF Attempt, CallsOK, Call
    <3> QED BY <1>0, <1>1, <3>1, <3>2, SerializedStep
  <2> QED BY <1>2, <2>1, <2>2, <2>3, <2>4 DEF Negotiate
<1>3. CASE RoundTrip(t)
  <2>1. CASE SendFragment(t)
    <3>1. lock' = lock /\ \A u \in Tasks : call'[u].pc = call[u].pc
      BY <1>0, <2>1 DEF SendFragment, clientVars, CallsOK, Call
    <3> QED BY <3>1, StillSerialized
  <2>2. CASE SendRequest(t)
    <3>1. call[t].pc = "send" /\ lock' = lock
      BY <2>2 DEF SendRequest, clientVars
    <3>2. call'[t].pc = "recv" /\ \A u \in Tasks \ {t} : call'[u].pc = call[u].pc
      BY <1>0, <2>2 DEF SendRequest, CallsOK, Call
    <3> QED BY <1>0, <1>1, <3>1, <3>2, SerializedStep
  <2>3. CASE SendReboot(t)
    BY <1>0, <1>1, <2>3, FinishSerialized DEF SendReboot
  <2>4. CASE SendFails(t)
    BY <1>0, <1>1, <2>4, FinishSerialized, SecondTripSerialized DEF SendFails
  <2>5. CASE RecvNone(t)
    BY <1>0, <1>1, <2>5, FinishSerialized, SecondTripSerialized DEF RecvNone
  <2>6. ASSUME NEW okay, Return(t, okay), call[t].pc = "recv" PROVE Serialized'
    BY <1>0, <1>1, <2>6, FinishSerialized DEF Return
  <2>7. ASSUME NEW j, NEW isOwn, SecondTrip(t, j, isOwn), call[t].pc = "recv" PROVE Serialized'
    BY <1>0, <1>1, <2>7, SecondTripSerialized
  <2>8. CASE RecvAck(t) \/ RecvTyped(t) \/ RecvLocked(t) \/ RecvGpio(t) \/ RecvGpioValue(t)
    BY <2>6, <2>7, <2>8 DEF RecvAck, RecvTyped, RecvLocked, RecvGpio, RecvGpioValue, Take
  <2>9. CASE RecvList(t)
    BY <1>0, <2>6, <2>9, ContinueSerialized DEF RecvList, Take
  <2>10. CASE RecvInfo(t)
    BY <1>0, <2>6, <2>7, <2>10, ContinueSerialized DEF RecvInfo, Take
  <2> QED BY <1>3, <2>1, <2>2, <2>3, <2>4, <2>5, <2>8, <2>9, <2>10 DEF RoundTrip
<1>4. CASE Shell(t)
  BY <1>0, <1>1, <1>4, GotoSerialized, FinishSerialized
     DEF Shell, CliStop, CliReset, CliCommand, CliOutput
<1> QED BY <1>2, <1>3, <1>4

\* The device touches neither the calls' labels nor the lock.
LEMMA DeviceSerialized ==
    ASSUME TypeOK, Serialized, Device
    PROVE  Serialized'
<1>1. CASE DevReset
  <2>1. \A u \in Tasks : call'[u].pc = call[u].pc
    BY <1>1, TearShape DEF DevReset, TypeOK, CallsOK
  <2> QED BY <1>1, <2>1, StillSerialized DEF DevReset, clientVars
<1>2. CASE ~DevReset
  <2>1. call' = call /\ lock' = lock
    BY <1>2 DEF Device, DevAnswer, DevProbe, DevFragment, DevLeave, DevDecodeError,
                DevShell, OrphanRead, Read, clientVars
  <2> QED BY <2>1, StillSerialized
<1> QED BY <1>1, <1>2

\* Every step preserves mutual exclusion on the link.
LEMMA NextSerialized == TypeOK /\ Serialized /\ [Next]_vars => Serialized'
<1> SUFFICES ASSUME TypeOK, Serialized, [Next]_vars PROVE Serialized'
  OBVIOUS
<1>1. CASE UNCHANGED vars
  BY <1>1, StillSerialized DEF vars, clientVars
<1>2. ASSUME NEW t \in Tasks, TaskStep(t) PROVE Serialized'
  BY <1>2, ConnectSerialized, TaskSerialized DEF TaskStep
<1>3. ASSUME NEW r \in Rpcs, CooldownEnds(r) PROVE Serialized'
  BY <1>3, StillSerialized DEF CooldownEnds, clientVars
<1>4. CASE Next
  BY <1>2, <1>3, <1>4, ConnectSerialized, LockSerialized, DeviceSerialized DEF Next
<1> QED BY <1>1, <1>4

\* Mutual exclusion: whatever reconnects, cancellations and errors happen, only the
\* holder of _io_lock is inside an exchange, and nobody leaves one still holding it.
THEOREM MutualExclusion == Spec => []Serialized
<1>1. Init => Serialized
  <2> SUFFICES ASSUME Init PROVE Serialized
    OBVIOUS
  <2>1. lock = NoTask /\ \A t \in Tasks : call[t].pc = "idle"
    BY DEF Init, Idle
  <2> QED BY <2>1, FreeLabels, LinkAssumption DEF Serialized
<1> QED BY <1>1, TypeCorrect, NextSerialized, PTL DEF Spec

-----------------------------------------------------------------------------
(* Correlation: a clean link carries one round trip at a time. *)

\* What the lock holder's exchange consists of is untouched.
SameExchange == \A u \in Tasks : lock = u =>
    /\ call'[u].pc = call[u].pc /\ call'[u].own = call[u].own /\ call'[u].req = call[u].req

\* Steps of bystanders.
LEMMA BystanderInStep ==
    ASSUME QuietLink, HeldLink, SameExchange, tx' = tx, rx' = rx, lock' = lock, dirty' = dirty
    PROVE  QuietLink' /\ HeldLink'
<1>1. QuietLink'
  BY DEF QuietLink
<1>2. HeldLink'
  <2> SUFFICES ASSUME NEW t \in Tasks, ~dirty, lock = t PROVE InStep(call[t])'
    BY DEF HeldLink
  <2>1. InStep(call[t])
    BY DEF HeldLink
  <2> QED BY <2>1 DEF InStep, SameExchange
<1> QED BY <1>1, <1>2

\* Steps after which the wire is empty.
LEMMA EmptyInStep ==
    ASSUME lock' \in Tasks \cup {NoTask},
           ~dirty' => /\ tx' = <<>> /\ rx' = <<>>
                      /\ lock' # NoTask => /\ call'[lock'].own
                                           /\ call'[lock'].pc \in {"session", "stop", "send"}
    PROVE  QuietLink' /\ HeldLink'
<1>1. QuietLink'
  BY DEF QuietLink
<1>2. HeldLink'
  <2> SUFFICES ASSUME NEW t \in Tasks, ~dirty', lock' = t PROVE InStep(call[t])'
    BY DEF HeldLink
  <2>1. call'[t].own /\ call'[t].pc \in {"session", "stop", "send"} /\ tx' = <<>> /\ rx' = <<>>
    BY LinkAssumption
  <2> QED BY <2>1 DEF InStep
<1> QED BY <1>1, <1>2

\* Steps that give an exchange up.
LEMMA DirtyInStep ==
    ASSUME dirty'
    PROVE  QuietLink' /\ HeldLink'
BY DEF QuietLink, HeldLink

\* A call that ends without the lock took no frame.
LEMMA LeaveOwn ==
    ASSUME CallsOK, OwnUntilRecv, NEW t \in Tasks, NEW res, NEW isOwn, Leave(t, res, isOwn)
    PROVE  OwnUntilRecv'
BY LeaveShape DEF OwnUntilRecv, Idle

\* A call that ends with its own frames keeps Correlated.
LEMMA LeaveCorrelated ==
    ASSUME Correlated, NEW t \in Tasks, NEW res, NEW isOwn, Leave(t, res, isOwn),
           ~dirty => isOwn
    PROVE  Correlated'
BY DEF Leave, Correlated

\* A call that gives its exchange up marks the link dirty, which claims nothing of it.
LEMMA FinishInStep ==
    ASSUME CallsOK, OwnUntilRecv, Correlated, NEW t \in Tasks, NEW res, NEW isOwn,
           Finish(t, res, isOwn), ~dirty => isOwn, ~dirty' => tx' = <<>> /\ rx' = <<>>
    PROVE  OwnUntilRecv' /\ QuietLink' /\ HeldLink' /\ Correlated'
<1>1. Leave(t, res, isOwn) /\ lock' = NoTask
  BY DEF Finish
<1>2. QuietLink' /\ HeldLink'
  BY <1>1, LinkAssumption DEF QuietLink, HeldLink
<1> QED BY <1>1, <1>2, LeaveOwn, LeaveCorrelated

\* The inductive invariant.
LinkInv == TypeOK /\ Serialized /\ LinkInStep /\ Correlated

\* The conjuncts of the inductive invariant.
LEMMA LinkInvParts ==
    ASSUME LinkInv
    PROVE  /\ CallsOK /\ ClientOK /\ PortOK /\ WireOK /\ HistoryOK /\ Serialized
           /\ OrphanIsDirty /\ OwnUntilRecv /\ QuietLink /\ HeldLink /\ Correlated
BY DEF LinkInv, TypeOK, LinkInStep

\* Connecting takes no lock, yet closing or opening the port leaves a clean link
\* clean only when nothing was on the wire.
LEMMA ConnectInStep ==
    ASSUME LinkInv, NEW t \in Tasks
    PROVE  /\ \A j \in Jobs : BeginLive(t, j) \/ GetRpcFails(t, j) \/ BeginDisconnected(t, j)
             => LinkInStep' /\ Correlated'
           /\ OpenPort(t) \/ OpenFail(t) \/ Settle(t) => LinkInStep' /\ Correlated'
<1> USE LinkInvParts
<1>0. ASSUME call[t].pc \notin Locked PROVE lock # t
  BY <1>0 DEF Serialized
<1>1. ASSUME NEW j \in Jobs, BeginLive(t, j) PROVE LinkInStep' /\ Correlated'
  <2>1. /\ call'[t].pc = "waiting" /\ call'[t].own = call[t].own
        /\ \A u \in Tasks \ {t} : call'[u] = call[u]
    BY <1>1 DEF BeginLive, CallsOK, Call
  <2>2. call[t].pc = "idle" /\ UNCHANGED <<out, lock, tx, rx, dirty, orphan>>
    BY <1>1 DEF BeginLive, MayStart, clientVars, wireVars, portVars
  <2>3. SameExchange
    BY <1>0, <2>1, <2>2, FreeLabels DEF SameExchange
  <2>4. OwnUntilRecv'
    BY <2>1, <2>2 DEF OwnUntilRecv
  <2>5. QuietLink' /\ HeldLink'
    BY <2>2, <2>3, BystanderInStep
  <2> QED BY <2>2, <2>4, <2>5 DEF LinkInStep, OrphanIsDirty, Correlated
<1>2. ASSUME NEW calls \in [Tasks -> Call], call' = Tear(calls), call[t].pc \in {"idle", "opening"},
             calls[t].pc \in {"opening", "settling"}, calls[t].own = call[t].own,
             \A u \in Tasks \ {t} : calls[u] = call[u],
             dirty' = (dirty \/ WireInUse), ~WireInUse => tx' = <<>> /\ rx' = <<>>,
             UNCHANGED <<out, lock, orphan>>
      PROVE  LinkInStep' /\ Correlated'
  <2>1. lock # t
    BY <1>0, <1>2, FreeLabels
  <2>2. /\ call'[t].pc \in {"opening", "settling"} /\ call'[t].own = call[t].own
        /\ \A u \in Tasks \ {t} : call'[u].pc = call[u].pc /\ call'[u].own = call[u].own
    BY <1>2, TearShape
  <2>3. OwnUntilRecv'
    BY <1>2, <2>2 DEF OwnUntilRecv
  <2>4. ASSUME ~dirty', lock' # NoTask
        PROVE  call'[lock'].own /\ call'[lock'].pc \in {"session", "stop", "send", "recv"}
    <3>1. lock \in Tasks \ {t} /\ ~dirty
      BY <1>2, <2>1, <2>4 DEF CallsOK
    <3>2. InStep(call[lock])
      BY <3>1 DEF HeldLink
    <3> QED BY <1>2, <2>2, <3>1, <3>2 DEF InStep
  <2>5. ~dirty' => tx' = <<>> /\ rx' = <<>>
    BY <1>2
  <2>6. QuietLink' /\ HeldLink'
    BY <1>2, <2>4, <2>5, LinkAssumption DEF QuietLink, HeldLink, InStep
  <2> QED BY <1>2, <2>3, <2>6 DEF LinkInStep, OrphanIsDirty, Correlated
<1>3. ASSUME NEW j \in Jobs, BeginDisconnected(t, j) PROVE LinkInStep' /\ Correlated'
  <2> DEFINE calls == [call EXCEPT ![t].pc = "opening", ![t].job = j]
  <2>1. j \in JobStates /\ "opening" \in PCs
    BY JobType, LabelType
  <2>2. calls \in [Tasks -> Call]
    BY <2>1 DEF CallsOK, Call
  <2>3. /\ calls[t].pc = "opening" /\ calls[t].own = call[t].own
        /\ \A u \in Tasks \ {t} : calls[u] = call[u]
    BY DEF CallsOK, Call
  <2>4. /\ call' = Tear(calls) /\ call[t].pc = "idle" /\ dirty' = (dirty \/ WireInUse)
        /\ UNCHANGED <<out, lock, orphan>> /\ tx' \in Prefixes(tx) /\ rx' \in Prefixes(rx)
    BY <1>3 DEF BeginDisconnected, Disconnect, MayStart
  <2>5. \A p \in Prefixes(<<>>) : p = <<>>
    BY DEF Prefixes
  <2>6. ~WireInUse => tx' = <<>> /\ rx' = <<>>
    BY <2>4, <2>5 DEF WireInUse
  <2> HIDE DEF calls
  <2> QED BY <1>2, <2>2, <2>3, <2>4, <2>6
<1>4. ASSUME OpenPort(t) PROVE LinkInStep' /\ Correlated'
  <2> DEFINE calls == [call EXCEPT ![t].pc = "settling"]
  <2>1. "settling" \in PCs
    BY LabelType
  <2>2. calls \in [Tasks -> Call]
    BY <2>1 DEF CallsOK, Call
  <2>3. /\ calls[t].pc = "settling" /\ calls[t].own = call[t].own
        /\ \A u \in Tasks \ {t} : calls[u] = call[u]
    BY DEF CallsOK, Call
  <2>4. /\ call' = Tear(calls) /\ call[t].pc = "opening" /\ dirty' = (dirty \/ WireInUse)
        /\ UNCHANGED <<out, lock, orphan>> /\ tx' \in {tx, <<>>} /\ rx' \in {rx, <<>>}
    BY <1>4 DEF OpenPort, clientVars
  <2>5. ~WireInUse => tx' = <<>> /\ rx' = <<>>
    BY <2>4 DEF WireInUse
  <2> HIDE DEF calls
  <2> QED BY <1>2, <2>2, <2>3, <2>4, <2>5
<1>5. ASSUME OpenFail(t) PROVE LinkInStep' /\ Correlated'
  <2>1. /\ Leave(t, "error", TRUE) /\ UNCHANGED <<lock, tx, rx, dirty, orphan>>
        /\ call[t].pc = "opening"
    BY <1>5 DEF OpenFail, clientVars, wireVars
  <2>2. OwnUntilRecv' /\ Correlated'
    BY <2>1, LeaveOwn, LeaveCorrelated
  <2>3. SameExchange
    BY <1>0, <2>1, LeaveShape, FreeLabels DEF SameExchange
  <2>4. QuietLink' /\ HeldLink'
    BY <2>1, <2>3, BystanderInStep
  <2> QED BY <2>1, <2>2, <2>4 DEF LinkInStep, OrphanIsDirty
<1>6. ASSUME Settle(t) PROVE LinkInStep' /\ Correlated'
  <2>1. /\ call'[t].pc = "waiting" /\ call'[t].own = call[t].own
        /\ \A u \in Tasks \ {t} : call'[u] = call[u]
    BY <1>6 DEF Settle, CallsOK, Call
  <2>2. call[t].pc = "settling" /\ UNCHANGED <<out, lock, tx, rx, dirty, orphan>>
    BY <1>6 DEF Settle, wireVars
  <2>3. SameExchange
    BY <1>0, <2>1, <2>2, FreeLabels DEF SameExchange
  <2>4. OwnUntilRecv'
    BY <2>1, <2>2 DEF OwnUntilRecv
  <2>5. QuietLink' /\ HeldLink'
    BY <2>2, <2>3, BystanderInStep
  <2> QED BY <2>2, <2>4, <2>5 DEF LinkInStep, OrphanIsDirty, Correlated
<1>7. ASSUME NEW j \in Jobs, GetRpcFails(t, j) PROVE LinkInStep' /\ Correlated'
  <2>1. UNCHANGED <<call, lock, tx, rx, dirty, orphan>> /\ out'.own
    BY <1>7 DEF GetRpcFails, clientVars, wireVars, portVars
  <2>2. SameExchange
    BY <2>1 DEF SameExchange
  <2>3. QuietLink' /\ HeldLink'
    BY <2>1, <2>2, BystanderInStep
  <2> QED BY <2>1, <2>3 DEF LinkInStep, OrphanIsDirty, OwnUntilRecv, Correlated
<1> QED BY <1>1, <1>3, <1>4, <1>5, <1>6, <1>7

\* The lock is taken on an empty link, and left with the link as it was.
LEMMA LockInStep ==
    ASSUME LinkInv, NEW t \in Tasks
    PROVE  Acquire(t) \/ AcquireEnter(t) \/ Cancel(t) \/ CancelWaiting(t)
             => LinkInStep' /\ Correlated'
<1> USE LinkInvParts
<1>0. ASSUME call[t].pc = "waiting", lock = NoTask, lock' = t,
             call'[t].pc \in {"stop", "session"}, call'[t].own = call[t].own,
             \A u \in Tasks \ {t} : call'[u] = call[u],
             UNCHANGED <<out, tx, rx, dirty, orphan>>
      PROVE  LinkInStep' /\ Correlated'
  <2>1. call[t].own
    BY <1>0 DEF OwnUntilRecv
  <2>2. OwnUntilRecv'
    BY <1>0, <2>1 DEF OwnUntilRecv
  <2>3. QuietLink' /\ HeldLink'
    BY <1>0, <2>1, EmptyInStep DEF QuietLink
  <2> QED BY <1>0, <2>2, <2>3 DEF LinkInStep, OrphanIsDirty, Correlated
<1>1. ASSUME Acquire(t) PROVE LinkInStep' /\ Correlated'
  <2>1. /\ call'[t].pc \in {"stop", "session"} /\ call'[t].own = call[t].own
        /\ \A u \in Tasks \ {t} : call'[u] = call[u]
    BY <1>1 DEF Acquire, CallsOK, Call
  <2> QED BY <1>0, <1>1, <2>1 DEF Acquire, wireVars, portVars
<1>2. ASSUME Leave(t, "error", TRUE), call[t].pc \in {"opening", "settling", "waiting"},
             UNCHANGED <<lock, tx, rx, dirty, orphan>>
      PROVE  LinkInStep' /\ Correlated'
  <2>1. OwnUntilRecv' /\ Correlated'
    BY <1>2, LeaveOwn, LeaveCorrelated
  <2>2. lock # t
    BY <1>2, FreeLabels DEF Serialized
  <2>3. SameExchange
    BY <1>2, <2>2, LeaveShape DEF SameExchange
  <2>4. QuietLink' /\ HeldLink'
    BY <1>2, <2>3, BystanderInStep
  <2> QED BY <1>2, <2>1, <2>4 DEF LinkInStep, OrphanIsDirty
<1>3. ASSUME AcquireEnter(t) PROVE LinkInStep' /\ Correlated'
  <2>1. CASE rpc = 0
    BY <1>2, <1>3, <2>1 DEF AcquireEnter, wireVars, portVars
  <2>2. CASE rpc # 0
    <3>1. /\ call'[t].pc \in {"stop", "session"} /\ call'[t].own = call[t].own
          /\ \A u \in Tasks \ {t} : call'[u] = call[u]
      BY <1>3, <2>2 DEF AcquireEnter, CallsOK, Call
    <3> QED BY <1>0, <1>3, <2>2, <3>1 DEF AcquireEnter, wireVars, portVars
  <2> QED BY <2>1, <2>2
<1>4. ASSUME Cancel(t) PROVE LinkInStep' /\ Correlated'
  <2>1. Finish(t, "error", TRUE) /\ dirty' = TRUE
    BY <1>4 DEF Cancel
  <2>2. OwnUntilRecv' /\ QuietLink' /\ HeldLink' /\ Correlated'
    BY <2>1, FinishInStep
  <2> QED BY <2>1, <2>2 DEF LinkInStep, OrphanIsDirty
<1>5. ASSUME CancelWaiting(t) PROVE LinkInStep' /\ Correlated'
  BY <1>2, <1>5 DEF CancelWaiting, clientVars, wireVars, portVars
<1> QED BY <1>1, <1>3, <1>4, <1>5

\* The holder of a clean link is not in the middle of a negotiation or of a shell
\* exchange.
LEMMA HolderInStep ==
    ASSUME LinkInv, NEW t \in Tasks, call[t].pc \in Locked, ~dirty
    PROVE  InStep(call[t])
BY LinkInvParts DEF Serialized, HeldLink

\* Moving on before the answer is awaited takes no frame.
LEMMA GotoOwn ==
    ASSUME CallsOK, OwnUntilRecv, NEW t \in Tasks, NEW label, Goto(t, label), call[t].pc # "recv"
    PROVE  OwnUntilRecv' /\ out' = out /\ lock' = lock
BY DEF CallsOK, Call, Goto, OwnUntilRecv

\* A negotiation that left nothing on the wire leaves the link in step.
LEMMA AfterSessionInStep ==
    ASSUME LinkInv, NEW t \in Tasks, AfterSession(t), call[t].pc \in Locked, call[t].own,
           ~dirty' => tx' = <<>> /\ rx' = <<>>
    PROVE  OwnUntilRecv' /\ QuietLink' /\ HeldLink' /\ Correlated'
<1> USE LinkInvParts
<1>1. CASE call[t].job = "enter_rpc"
  BY <1>1, FinishInStep DEF AfterSession
<1>2. CASE call[t].job # "enter_rpc"
  <2>1. call' = [call EXCEPT ![t].pc = "send", ![t].n = 0] /\ out' = out /\ lock' = lock
    BY <1>2 DEF AfterSession
  <2>2. /\ call'[t].pc = "send" /\ call'[t].own = call[t].own
        /\ \A u \in Tasks \ {t} : call'[u] = call[u]
    BY <2>1 DEF CallsOK, Call
  <2>3. OwnUntilRecv'
    BY <2>2 DEF OwnUntilRecv
  <2>4. lock = t
    BY DEF Serialized
  <2>5. QuietLink' /\ HeldLink'
    BY <2>1, <2>2, <2>4, EmptyInStep
  <2> QED BY <2>1, <2>3, <2>5 DEF Correlated
<1> QED BY <1>1, <1>2

\* A negotiation marks the link dirty until a probe is answered on an empty wire.
LEMMA NegotiateInStep ==
    ASSUME LinkInv, NEW t \in Tasks, Negotiate(t)
    PROVE  LinkInStep' /\ Correlated'
<1> USE LinkInvParts
<1>0. {"session", "probe", "attempt", "reprobe"} \subseteq Locked
  BY DEF Locked
<1>1. CASE SessionReady(t) \/ SessionWifi(t)
  <2>1. /\ call[t].pc = "session" /\ AfterSession(t) /\ UNCHANGED <<tx, dirty, orphan>>
        /\ rx' = rx \/ rx' \in Suffixes(rx)
    BY <1>1 DEF SessionReady, SessionWifi, wireVars, portVars
  <2>2. call[t].own
    BY <2>1 DEF OwnUntilRecv
  <2>3. ~dirty' => tx' = <<>> /\ rx = <<>>
    BY <1>0, <2>1, HolderInStep DEF InStep
  <2>4. rx = <<>> => rx' = <<>>
    BY <2>1, EmptySuffix
  <2> QED BY <1>0, <2>1, <2>2, <2>3, <2>4, AfterSessionInStep DEF LinkInStep, OrphanIsDirty
<1>2. CASE SessionProbe(t) \/ Reprobe(t)
  <2>1. /\ call[t].pc \in {"session", "reprobe"} /\ dirty' = TRUE
        /\ Goto(t, "attempt") \/ Goto(t, "probe")
    BY <1>2 DEF SessionProbe, Reprobe, SendProbe
  <2>2. OwnUntilRecv' /\ out' = out
    BY <2>1, GotoOwn
  <2> QED BY <2>1, <2>2, DirtyInStep DEF LinkInStep, OrphanIsDirty, Correlated
<1>3. CASE ProbeOk(t)
  <2>1. /\ call[t].pc = "probe" /\ AfterSession(t) /\ tx' = tx /\ rx' = Tail(rx)
        /\ dirty' = (tx # <<>> \/ Tail(rx) # <<>> \/ orphan) /\ orphan' = orphan
    BY <1>3 DEF ProbeOk, portVars
  <2>2. call[t].own
    BY <2>1 DEF OwnUntilRecv
  <2> QED BY <1>0, <2>1, <2>2, AfterSessionInStep DEF LinkInStep, OrphanIsDirty
<1>4. CASE ProbeFail(t)
  <2>1. call[t].pc = "probe" /\ dirty' = TRUE /\ (Goto(t, "attempt") \/ AfterSession(t))
    BY <1>4 DEF ProbeFail
  <2>2. call[t].own
    BY <2>1 DEF OwnUntilRecv
  <2>3. CASE AfterSession(t)
    BY <1>0, <2>1, <2>2, <2>3, AfterSessionInStep DEF LinkInStep, OrphanIsDirty
  <2>4. CASE Goto(t, "attempt")
    BY <2>1, <2>4, GotoOwn, DirtyInStep DEF LinkInStep, OrphanIsDirty, Correlated
  <2> QED BY <2>1, <2>3, <2>4
<1>5. CASE Attempt(t)
  <2>1. call[t].pc = "attempt" /\ UNCHANGED <<out, dirty, orphan>>
    BY <1>5 DEF Attempt, portVars
  <2>2. dirty
    BY <1>0, <2>1, HolderInStep DEF InStep
  <2>3. OwnUntilRecv'
    BY <1>5 DEF Attempt, CallsOK, Call, OwnUntilRecv
  <2> QED BY <2>1, <2>2, <2>3, DirtyInStep DEF LinkInStep, OrphanIsDirty, Correlated
<1> QED BY <1>1, <1>2, <1>3, <1>4, <1>5 DEF Negotiate

\* A shell exchange marks the link dirty from its StopSession on.
LEMMA ShellStepsInStep ==
    ASSUME LinkInv, NEW t \in Tasks, Shell(t)
    PROVE  LinkInStep' /\ Correlated'
<1> USE LinkInvParts
<1>0. {"stop", "stopped", "prompt", "output"} \subseteq Locked
  BY DEF Locked
<1>1. CASE CliStop(t)
  <2>1. CASE port
    <3>1. call[t].pc = "stop" /\ Goto(t, "stopped") /\ dirty'
      BY <1>1, <2>1 DEF CliStop
    <3> QED BY <3>1, GotoOwn, DirtyInStep DEF LinkInStep, OrphanIsDirty, Correlated
  <2>2. CASE ~port
    <3>1. /\ call[t].pc = "stop" /\ Finish(t, "error", TRUE) /\ tx' = tx /\ rx' = rx
          /\ dirty' = (dirty \/ port) /\ orphan' = orphan
      BY <1>1, <2>2 DEF CliStop, portVars
    <3>2. ~dirty => tx' = <<>> /\ rx' = <<>>
      BY <1>0, <3>1, HolderInStep DEF InStep
    <3> QED BY <3>1, <3>2, FinishInStep DEF LinkInStep, OrphanIsDirty
  <2> QED BY <2>1, <2>2
<1>2. CASE CliReset(t) \/ CliCommand(t) \/ CliOutput(t)
  <2>1. /\ call[t].pc \in {"stopped", "prompt", "output"} /\ UNCHANGED <<dirty, orphan>>
        /\ \/ Goto(t, "prompt") \/ Goto(t, "output")
           \/ Finish(t, "ok", TRUE) \/ Finish(t, "error", TRUE)
    BY <1>2 DEF CliReset, CliCommand, CliOutput, portVars
  <2>2. dirty
    BY <1>0, <2>1, HolderInStep DEF InStep
  <2>3. OwnUntilRecv' /\ QuietLink' /\ HeldLink' /\ Correlated'
    BY <2>1, <2>2, GotoOwn, DirtyInStep, FinishInStep DEF Correlated
  <2> QED BY <2>1, <2>2, <2>3 DEF LinkInStep, OrphanIsDirty
<1> QED BY <1>1, <1>2 DEF Shell

\* A second round trip starts on an empty link or on a dirty one.
LEMMA SecondTripInStep ==
    ASSUME LinkInv, NEW t \in Tasks, NEW j, NEW isOwn, SecondTrip(t, j, isOwn),
           call[t].pc \in Locked, ~dirty => isOwn,
           ~dirty' => tx' = <<>> /\ rx' = <<>>
    PROVE  OwnUntilRecv' /\ QuietLink' /\ HeldLink' /\ Correlated'
<1> USE LinkInvParts
<1>1. /\ call'[t].pc = "session" /\ call'[t].own /\ lock' = lock /\ out' = out
      /\ \A u \in Tasks \ {t} : call'[u] = call[u]
  BY DEF CallsOK, SecondTrip, Call
<1>2. lock = t
  BY DEF Serialized
<1>3. OwnUntilRecv'
  BY <1>1 DEF OwnUntilRecv
<1>4. QuietLink' /\ HeldLink'
  BY <1>1, <1>2, EmptyInStep
<1> QED BY <1>1, <1>3, <1>4 DEF Correlated

\* A request is put behind what its own round trip has already sent.
LEMMA SendingInStep ==
    ASSUME LinkInv, NEW t \in Tasks,
           SendFragment(t) \/ SendRequest(t) \/ SendReboot(t) \/ SendFails(t) \/ RecvNone(t)
    PROVE  LinkInStep' /\ Correlated'
<1> USE LinkInvParts
<1>0. "send" \in Locked /\ "recv" \in Locked
  BY DEF Locked
<1>1. ASSUME call[t].pc = "send", NEW item \in TxItem, tx' = Append(tx, item), rx' = rx,
             item.id = call[t].req, item.k \in {"frag", "req"},
             item.k = "req" => call'[t].pc = "recv", call'[t].pc \in {"send", "recv"},
             call'[t].own = call[t].own, call'[t].req = call[t].req,
             \A u \in Tasks \ {t} : call'[u] = call[u],
             UNCHANGED <<out, lock, dirty, orphan>>
      PROVE  LinkInStep' /\ Correlated'
  <2>1. OwnUntilRecv'
    BY <1>1 DEF OwnUntilRecv
  <2>2. lock = t
    BY <1>0, <1>1 DEF Serialized
  <2>3. QuietLink'
    BY <1>1, <2>2, LinkAssumption DEF QuietLink
  <2>4. ASSUME ~dirty PROVE InStep(call[t])'
    <3>1. InStep(call[t])
      BY <1>0, <1>1, <2>4, HolderInStep
    <3>2. tx \in Seq(TxItem) /\ rx \in Seq(Frame)
      BY DEF WireOK
    <3>3. \A i \in 1..Len(tx') : tx'[i] = IF i = Len(tx) + 1 THEN item ELSE tx[i]
      BY <1>1, <3>2
    <3>4. Len(tx') = Len(tx) + 1 /\ Len(tx) \in Nat
      BY <1>1, <3>2
    <3>5. \A i \in 1..Len(tx) : tx[i].id = call[t].req /\ tx[i].k = "frag"
      BY <1>1, <3>1 DEF InStep
    <3>6. \A i \in 1..Len(tx') :
            /\ tx'[i].id = call'[t].req /\ tx'[i].k \in {"frag", "req"}
            /\ tx'[i].k = "req" => i = Len(tx') /\ call'[t].pc = "recv"
      BY <1>1, <3>3, <3>4, <3>5
    <3>7. \A i \in 1..Len(rx') : rx'[i].id = call'[t].req /\ rx'[i].k = "text"
      BY <1>1, <3>1 DEF InStep
    <3> QED BY <1>1, <3>1, <3>6, <3>7 DEF InStep
  <2>5. HeldLink'
    BY <1>1, <2>2, <2>4 DEF HeldLink
  <2> QED BY <1>1, <2>1, <2>3, <2>5 DEF LinkInStep, OrphanIsDirty, Correlated
<1>2. call[t].req \in Nat /\ call[t].own \in BOOLEAN
  BY DEF CallsOK, Call
<1>3. CASE SendFragment(t)
  <2>1. Bytes("frag", call[t].req) \in TxItem
    BY <1>2, BytesType
  <2>2. /\ call'[t].pc = "send" /\ call'[t].own = call[t].own /\ call'[t].req = call[t].req
        /\ \A u \in Tasks \ {t} : call'[u] = call[u]
    BY <1>3 DEF SendFragment, CallsOK, Call
  <2>3. Bytes("frag", call[t].req).id = call[t].req /\ Bytes("frag", call[t].req).k = "frag"
    BY DEF Bytes
  <2>4. /\ call[t].pc = "send" /\ tx' = Append(tx, Bytes("frag", call[t].req)) /\ rx' = rx
        /\ UNCHANGED <<out, lock, dirty, orphan>>
    BY <1>3 DEF SendFragment, clientVars, portVars
  <2> QED BY <1>1, <2>1, <2>2, <2>3, <2>4
<1>4. CASE SendRequest(t)
  <2>1. Request(t) \in TxItem
    BY <1>2 DEF Request, TxItem, Ask, Families
  <2>2. /\ call'[t].pc = "recv" /\ call'[t].own = call[t].own /\ call'[t].req = call[t].req
        /\ \A u \in Tasks \ {t} : call'[u] = call[u]
    BY <1>4 DEF SendRequest, CallsOK, Call
  <2>3. Request(t).id = call[t].req /\ Request(t).k = "req"
    BY DEF Request
  <2>4. /\ call[t].pc = "send" /\ tx' = Append(tx, Request(t)) /\ rx' = rx
        /\ UNCHANGED <<out, lock, dirty, orphan>>
    BY <1>4 DEF SendRequest, clientVars, portVars
  <2> QED BY <1>1, <2>1, <2>2, <2>3, <2>4
<1>5. CASE SendReboot(t)
  <2>1. Finish(t, "ok", TRUE) /\ dirty' = TRUE
    BY <1>5 DEF SendReboot
  <2> QED BY <2>1, FinishInStep DEF LinkInStep, OrphanIsDirty
<1>6. CASE SendFails(t)
  <2>1. /\ call[t].pc = "send" /\ UNCHANGED <<tx, rx, orphan>> /\ dirty' = (dirty \/ WireInUse)
        /\ SecondTrip(t, "prop", call[t].own) \/ Finish(t, "error", TRUE)
    BY <1>6 DEF SendFails, wireVars, portVars
  <2>2. ~dirty' => tx' = <<>> /\ rx' = <<>>
    BY <2>1 DEF WireInUse
  <2>a. call[t].own
    BY <2>1 DEF OwnUntilRecv
  <2>3. OwnUntilRecv' /\ QuietLink' /\ HeldLink' /\ Correlated'
    BY <1>0, <2>1, <2>2, <2>a, SecondTripInStep, FinishInStep
  <2> QED BY <2>1, <2>3 DEF LinkInStep, OrphanIsDirty
<1>7. CASE RecvNone(t)
  <2>1. /\ call[t].pc = "recv" /\ dirty' = TRUE
        /\ \/ SecondTrip(t, "prop", call[t].own)
           \/ Finish(t, "ok", call[t].own) \/ Finish(t, "error", call[t].own)
    BY <1>7 DEF RecvNone
  <2>2. ~dirty => call[t].own
    BY <1>0, <2>1, HolderInStep DEF InStep
  <2>3. OwnUntilRecv' /\ QuietLink' /\ HeldLink' /\ Correlated'
    BY <1>0, <2>1, <2>2, SecondTripInStep, FinishInStep
  <2> QED BY <2>1, <2>3 DEF LinkInStep, OrphanIsDirty
<1> QED BY <1>3, <1>4, <1>5, <1>6, <1>7

\* The frame taken on a clean link is the call's own; the last one empties it.
LEMMA HeadInStep ==
    ASSUME LinkInv, NEW t \in Tasks, NEW jobs, Take(t, jobs), ~dirty
    PROVE  /\ TookOwn(t)
           /\ ~Head(rx).more => tx = <<>> /\ Tail(rx) = <<>>
<1> USE LinkInvParts
<1>1. call[t].pc = "recv" /\ rx # <<>> /\ Head(rx).k # "text" /\ "recv" \in Locked
  BY DEF Take, Locked
<1>2. InStep(call[t])
  BY <1>1, HolderInStep
<1>3. rx \in Seq(Frame) /\ Head(rx) = rx[1] /\ Len(rx) \in Nat /\ Len(rx) >= 1
  BY <1>1 DEF WireOK
<1>a. \A i \in 1..Len(rx) :
        /\ rx[i].id = call[t].req /\ rx[i].k \in {"ans", "text"}
        /\ rx[i].k = "ans" /\ ~rx[i].more => i = Len(rx) /\ tx = <<>>
  BY <1>2 DEF InStep
<1>b. 1 \in 1..Len(rx)
  BY <1>3
<1>4. Head(rx).id = call[t].req /\ Head(rx).k = "ans" /\ (~Head(rx).more => Len(rx) = 1 /\ tx = <<>>)
  BY <1>1, <1>3, <1>a, <1>b
<1>5. Len(rx) = 1 => Tail(rx) = <<>>
  BY <1>3, SingletonTail
<1> QED BY <1>2, <1>4, <1>5 DEF TookOwn, InStep

\* Taking a frame of a clean link takes the call's own, in order.
LEMMA ReceivingInStep ==
    ASSUME LinkInv, NEW t \in Tasks,
           \/ RecvAck(t) \/ RecvTyped(t) \/ RecvLocked(t) \/ RecvGpio(t) \/ RecvGpioValue(t)
           \/ RecvList(t) \/ RecvInfo(t)
    PROVE  LinkInStep' /\ Correlated'
<1> USE LinkInvParts
<1>0. ASSUME NEW jobs, Take(t, jobs), EndTrip PROVE ~dirty' => tx' = <<>> /\ rx' = <<>>
  BY <1>0, HeadInStep DEF EndTrip, Take
<1>1. ASSUME NEW jobs, Take(t, jobs)
      PROVE  call[t].pc = "recv" /\ call[t].pc \in Locked /\ orphan' = orphan
  BY <1>1 DEF Take, Locked, portVars
<1>2. ASSUME NEW okay, NEW jobs, Take(t, jobs), Return(t, okay), EndTrip
      PROVE  LinkInStep' /\ Correlated'
  <2>1. ~dirty => TookOwn(t)
    BY <1>2, HeadInStep
  <2>2. OwnUntilRecv' /\ QuietLink' /\ HeldLink' /\ Correlated'
    BY <1>0, <1>2, <2>1, FinishInStep DEF Return
  <2> QED BY <1>1, <1>2, <2>2 DEF LinkInStep, OrphanIsDirty, EndTrip
<1>3. ASSUME NEW j, NEW jobs, Take(t, jobs), SecondTrip(t, j, TookOwn(t)), EndTrip
      PROVE  LinkInStep' /\ Correlated'
  <2>a. ~dirty => TookOwn(t)
    BY <1>3, HeadInStep
  <2>1. OwnUntilRecv' /\ QuietLink' /\ HeldLink' /\ Correlated'
    BY <1>0, <1>1, <1>3, <2>a, SecondTripInStep
  <2> QED BY <1>1, <1>3, <2>1 DEF LinkInStep, OrphanIsDirty, EndTrip
<1>4. ASSUME NEW some, NEW jobs, Take(t, jobs), Continue(t, some), Head(rx).more
      PROVE  LinkInStep' /\ Correlated'
  <2>1. /\ call'[t].pc = "recv" /\ call'[t].own = TookOwn(t) /\ call'[t].req = call[t].req
        /\ \A u \in Tasks \ {t} : call'[u] = call[u]
    BY <1>1, <1>4 DEF Continue, CallsOK, Call
  <2>2. UNCHANGED <<out, lock, dirty, orphan, tx>> /\ rx' = Tail(rx) /\ rx # <<>>
    BY <1>1, <1>4 DEF Continue, Take
  <2>3. OwnUntilRecv'
    BY <2>1 DEF OwnUntilRecv
  <2>4. lock = t
    BY <1>1, <1>4 DEF Serialized
  <2>5. ASSUME ~dirty PROVE InStep(call[t])'
    <3>1. InStep(call[t]) /\ TookOwn(t)
      BY <1>1, <1>4, <2>5, HolderInStep, HeadInStep
    <3>2. rx \in Seq(Frame)
      BY DEF WireOK
    <3>3. Len(rx') = Len(rx) - 1 /\ Len(rx) \in Nat
          /\ \A i \in 1..Len(rx') : rx'[i] = rx[i + 1] /\ i + 1 \in 1..Len(rx)
      BY <2>2, <3>2
    <3>a. \A i \in 1..Len(rx) :
            /\ rx[i].id = call[t].req /\ rx[i].k \in {"ans", "text"}
            /\ rx[i].k = "ans" /\ ~rx[i].more => i = Len(rx) /\ tx = <<>>
      BY <3>1 DEF InStep
    <3>4. ASSUME NEW i \in 1..Len(rx')
          PROVE  /\ rx'[i].id = call'[t].req /\ rx'[i].k \in {"ans", "text"}
                 /\ rx'[i].k = "ans" /\ ~rx'[i].more => i = Len(rx') /\ tx' = <<>>
      <4>1. rx'[i] = rx[i + 1] /\ i + 1 \in 1..Len(rx)
        BY <3>3
      <4>2. /\ rx[i + 1].id = call[t].req /\ rx[i + 1].k \in {"ans", "text"}
            /\ rx[i + 1].k = "ans" /\ ~rx[i + 1].more => i + 1 = Len(rx) /\ tx = <<>>
        BY <3>a, <4>1
      <4>3. i + 1 = Len(rx) => i = Len(rx')
        BY <3>3
      <4> QED BY <2>1, <2>2, <4>1, <4>2, <4>3
    <3> QED BY <2>1, <2>2, <3>1, <3>4 DEF InStep
  <2>6. QuietLink' /\ HeldLink'
    BY <2>2, <2>4, <2>5, LinkAssumption DEF QuietLink, HeldLink
  <2> QED BY <2>2, <2>3, <2>6 DEF LinkInStep, OrphanIsDirty, Correlated
<1>5. CASE RecvAck(t) \/ RecvTyped(t) \/ RecvLocked(t) \/ RecvGpio(t) \/ RecvGpioValue(t)
  BY <1>2, <1>3, <1>5 DEF RecvAck, RecvTyped, RecvLocked, RecvGpio, RecvGpioValue
<1>6. CASE RecvList(t)
  BY <1>2, <1>4, <1>6 DEF RecvList, MoreToCome
<1>7. CASE RecvInfo(t)
  BY <1>2, <1>3, <1>4, <1>7 DEF RecvInfo, MoreToCome
<1> QED BY <1>5, <1>6, <1>7

\* The device answers what it read; on a clean link that is the round trip under way.
LEMMA DeviceInStep ==
    ASSUME LinkInv, Device
    PROVE  LinkInStep' /\ Correlated'
<1> USE LinkInvParts
<1>0. tx \in Seq(TxItem) /\ rx \in Seq(Frame)
  BY DEF WireOK
<1>1. ASSUME NEW kinds, NEW in, Read(kinds, in)
      PROVE  /\ UNCHANGED <<call, out, lock, dirty, orphan>> /\ Head(tx).k \in kinds
             /\ tx # <<>> /\ Len(tx) \in Nat /\ Len(tx) >= 1 /\ Head(tx) = tx[1]
             /\ Len(Tail(tx)) = Len(tx) - 1
             /\ \A i \in 1..Len(Tail(tx)) : Tail(tx)[i] = tx[i + 1] /\ i + 1 \in 1..Len(tx)
  <2>1. tx # <<>>
    BY <1>1 DEF Read
  <2>2. /\ Len(tx) \in Nat /\ Len(tx) >= 1 /\ Head(tx) = tx[1]
        /\ Len(Tail(tx)) = Len(tx) - 1
        /\ \A i \in 1..Len(Tail(tx)) : Tail(tx)[i] = tx[i + 1] /\ i + 1 \in 1..Len(tx)
    BY <1>0, <2>1
  <2> QED BY <1>1, <2>1, <2>2 DEF Read, clientVars, portVars
\* On a clean link the bytes the device reads belong to the lock holder.
<1>2. ASSUME NEW kinds, NEW in, Read(kinds, in), ~dirty
      PROVE  /\ lock \in Tasks /\ InStep(call[lock])
             /\ Head(tx).id = call[lock].req /\ Head(tx).k \in {"frag", "req"}
             /\ Head(tx).k = "req" => Len(tx) = 1 /\ call[lock].pc = "recv"
  <2>1. lock \in Tasks
    BY <1>1, <1>2 DEF QuietLink, CallsOK
  <2>2. InStep(call[lock])
    BY <1>2, <2>1 DEF HeldLink
  <2>3. \A i \in 1..Len(tx) :
          /\ tx[i].id = call[lock].req /\ tx[i].k \in {"frag", "req"}
          /\ tx[i].k = "req" => i = Len(tx) /\ call[lock].pc = "recv"
    BY <2>2 DEF InStep
  <2>4. 1 \in 1..Len(tx) /\ Head(tx) = tx[1]
    BY <1>1, <1>2
  <2> QED BY <2>1, <2>2, <2>3, <2>4
\* One item read, and nothing or one frame of the same round trip written.
<1>3. ASSUME NEW kinds, NEW in, Read(kinds, in), NEW frame \in Frame,
             rx' \in {rx, Append(rx, frame)}, frame.id = Head(tx).id,
             frame.k = "text" \/ (frame.k = "ans" /\ Head(tx).k = "req"),
             frame.k = "ans" /\ frame.more => tx' = tx,
             ~(frame.k = "ans" /\ frame.more) => tx' = Tail(tx)
      PROVE  LinkInStep' /\ Correlated'
  <2>1. QuietLink'
    <3> SUFFICES ASSUME ~dirty', lock' = NoTask PROVE FALSE
      BY DEF QuietLink
    <3> QED BY <1>1, <1>2, <1>3, LinkAssumption
  <2>2. ASSUME ~dirty PROVE InStep(call[lock])'
    <3> DEFINE c == call[lock]
    <3>1. /\ InStep(c) /\ Head(tx).id = c.req /\ Head(tx).k \in {"frag", "req"}
          /\ Head(tx).k = "req" => Len(tx) = 1 /\ c.pc = "recv"
      BY <1>2, <1>3, <2>2
    <3>2. c' = c
      BY <1>1, <1>3
    <3>3. /\ tx # <<>> /\ c.own /\ c.pc \in {"send", "recv"}
          /\ \A i \in 1..Len(tx) :
               /\ tx[i].id = c.req /\ tx[i].k \in {"frag", "req"}
               /\ tx[i].k = "req" => i = Len(tx) /\ c.pc = "recv"
          /\ \A i \in 1..Len(rx) :
               /\ rx[i].id = c.req /\ rx[i].k \in {"ans", "text"}
               /\ rx[i].k = "ans" => c.pc = "recv" /\ rx[i].more
      BY <1>1, <1>3, <3>1 DEF InStep
    <3> HIDE DEF c
    <3>4. ASSUME NEW i \in 1..Len(tx')
          PROVE  /\ tx'[i].id = c.req /\ tx'[i].k \in {"frag", "req"}
                 /\ tx'[i].k = "req" => i = Len(tx') /\ c.pc = "recv"
      <4>1. CASE tx' = tx
        BY <3>3, <4>1
      <4>2. CASE tx' = Tail(tx)
        <5>1. /\ tx'[i] = tx[i + 1] /\ i + 1 \in 1..Len(tx)
              /\ i + 1 = Len(tx) => i = Len(tx')
          BY <1>1, <1>3, <4>2
        <5> QED BY <3>3, <5>1
      <4> QED BY <1>3, <4>1, <4>2
    <3>5. frame.k = "ans" /\ ~frame.more => tx' = <<>> /\ c.pc = "recv"
      BY <1>0, <1>3, <3>1, SingletonTail
    <3>6. ASSUME NEW i \in 1..Len(rx')
          PROVE  /\ rx'[i].id = c.req /\ rx'[i].k \in {"ans", "text"}
                 /\ rx'[i].k = "ans" => c.pc = "recv"
                 /\ rx'[i].k = "ans" /\ ~rx'[i].more => i = Len(rx') /\ tx' = <<>>
      <4>1. CASE rx' = rx
        BY <3>3, <4>1
      <4>2. CASE rx' = Append(rx, frame)
        <5>1. Len(rx') = Len(rx) + 1 /\ Len(rx) \in Nat /\ rx'[Len(rx) + 1] = frame
              /\ \A k \in 1..Len(rx) : rx'[k] = rx[k]
          BY <1>0, <4>2
        <5>2. CASE i = Len(rx) + 1
          BY <1>3, <3>1, <3>5, <5>1, <5>2
        <5>3. CASE i # Len(rx) + 1
          <6>1. i \in 1..Len(rx) /\ rx'[i] = rx[i]
            BY <5>1, <5>3
          <6> QED BY <3>3, <6>1
        <5> QED BY <5>2, <5>3
      <4> QED BY <1>3, <4>1, <4>2
    <3>7. InStep(c)'
      BY <3>2, <3>3, <3>4, <3>6 DEF InStep
    <3> QED BY <3>7 DEF c
  <2>3. HeldLink'
    <3> SUFFICES ASSUME NEW t \in Tasks, ~dirty', lock' = t PROVE InStep(call[t])'
      BY DEF HeldLink
    <3>1. ~dirty /\ lock = t
      BY <1>1, <1>3
    <3> QED BY <2>2, <3>1
  <2>4. OwnUntilRecv' /\ OrphanIsDirty' /\ Correlated'
    BY <1>1, <1>3 DEF OwnUntilRecv, OrphanIsDirty, Correlated
  <2> QED BY <2>1, <2>3, <2>4 DEF LinkInStep
<1>4. ASSUME tx # <<>>
      PROVE  Signal("text", FALSE) \in Frame /\ Signal("text", FALSE).id = Head(tx).id
             /\ Signal("text", FALSE).k = "text"
  BY <1>4, SignalType DEF Signal
<1>5. CASE DevAnswer
  <2>1. Read({"req"}, "RPC")
    BY <1>5 DEF DevAnswer
  <2>2. PICK ok \in BOOLEAN, more \in BOOLEAN :
          /\ Emit([k |-> "ans", id |-> Head(tx).id, ask |-> Head(tx).ask, ok |-> ok, more |-> more])
          /\ tx' = IF more THEN tx ELSE Tail(tx)
    BY <1>5 DEF DevAnswer
  <2> DEFINE f == [k |-> "ans", id |-> Head(tx).id, ask |-> Head(tx).ask, ok |-> ok, more |-> more]
  <2>3. Head(tx) \in TxItem /\ Head(tx).k = "req"
    BY <1>0, <1>1, <2>1, TailType
  <2>4. f \in Frame /\ f.id = Head(tx).id /\ f.k = "ans" /\ f.more = more
    BY <2>3 DEF TxItem, Frame
  <2>5. rx' \in {rx, Append(rx, f)}
    BY <2>2 DEF Emit
  <2> HIDE DEF f
  <2> QED BY <1>3, <2>1, <2>2, <2>3, <2>4, <2>5
<1>6. CASE DevFragment
  <2>1. Read({"frag"}, "RPC") /\ tx' = Tail(tx) /\ rx' = rx
    BY <1>6 DEF DevFragment
  <2> QED BY <1>1, <1>3, <1>4, <2>1
<1>7. CASE DevShell
  <2>1. Read({Head(tx).k}, "CLI") /\ tx' = Tail(tx)
    BY <1>7 DEF DevShell
  <2>2. rx' \in {rx, Append(rx, Signal("text", FALSE))}
    BY <1>7 DEF DevShell, Emit
  <2> QED BY <1>1, <1>3, <1>4, <2>1, <2>2
<1>8. CASE DevProbe \/ DevLeave \/ DevDecodeError
  <2>1. \E kinds : /\ Read(kinds, "RPC")
                   /\ kinds \subseteq {"probe", "stop", "reboot", "ctrlc", "start", "cmd", "torn_cmd"}
    BY <1>8 DEF DevProbe, DevLeave, DevDecodeError
  <2>2. PICK kinds : /\ Read(kinds, "RPC")
                     /\ kinds \subseteq {"probe", "stop", "reboot", "ctrlc", "start", "cmd", "torn_cmd"}
    BY <2>1
  <2>3. UNCHANGED <<call, out, lock, dirty, orphan>> /\ Head(tx).k \in kinds
    BY <1>1, <2>2
  <2>4. dirty
    <3> SUFFICES ASSUME ~dirty PROVE FALSE
      OBVIOUS
    <3>1. Head(tx).k \in {"frag", "req"}
      BY <1>2, <2>2
    <3> QED BY <2>2, <2>3, <3>1
  <2>5. OwnUntilRecv' /\ OrphanIsDirty' /\ Correlated' /\ dirty'
    BY <2>3, <2>4 DEF OwnUntilRecv, OrphanIsDirty, Correlated
  <2> QED BY <2>5, DirtyInStep DEF LinkInStep
<1>9. CASE DevReset
  <2>1. /\ call' = Tear(call) /\ UNCHANGED <<out, lock, orphan>> /\ dirty' = (dirty \/ WireInUse)
        /\ tx' = <<>> /\ rx' \in Prefixes(rx)
    BY <1>9 DEF DevReset, clientVars, portVars
  <2>2. \A u \in Tasks : call'[u].pc = call[u].pc /\ call'[u].own = call[u].own
    BY <2>1, TearShape DEF CallsOK
  <2>3. \A p \in Prefixes(<<>>) : p = <<>>
    BY DEF Prefixes
  <2>4. ~dirty' => tx' = <<>> /\ rx' = <<>>
    BY <2>1, <2>3 DEF WireInUse
  <2>5. OwnUntilRecv' /\ OrphanIsDirty' /\ Correlated'
    BY <2>1, <2>2 DEF OwnUntilRecv, OrphanIsDirty, Correlated
  <2>6. ASSUME NEW t \in Tasks, ~dirty', lock' = t PROVE InStep(call[t])'
    <3>1. InStep(call[t])
      BY <2>1, <2>6 DEF HeldLink
    <3>2. call[t].own /\ call[t].pc \in {"session", "stop", "send", "recv"}
      BY <3>1 DEF InStep
    <3> QED BY <2>2, <2>4, <2>6, <3>2 DEF InStep
  <2>7. QuietLink' /\ HeldLink'
    BY <2>4, <2>6 DEF QuietLink, HeldLink
  <2> QED BY <2>5, <2>7 DEF LinkInStep
<1>10. CASE OrphanRead
  <2>1. orphan /\ dirty /\ UNCHANGED <<call, out, lock, dirty>>
    BY <1>10 DEF OrphanRead, OrphanIsDirty, clientVars
  <2>2. OwnUntilRecv' /\ OrphanIsDirty' /\ Correlated' /\ dirty'
    BY <2>1 DEF OwnUntilRecv, OrphanIsDirty, Correlated
  <2> QED BY <2>2, DirtyInStep DEF LinkInStep
<1> QED BY <1>5, <1>6, <1>7, <1>8, <1>9, <1>10 DEF Device

\* Every step preserves the link invariant.
LEMMA NextInStep == LinkInv /\ [Next]_vars => LinkInStep' /\ Correlated'
<1> SUFFICES ASSUME LinkInv, [Next]_vars PROVE LinkInStep' /\ Correlated'
  OBVIOUS
<1>0. ASSUME UNCHANGED <<call, out, lock, tx, rx, dirty, orphan>> PROVE LinkInStep' /\ Correlated'
  BY <1>0, LinkInvParts, BystanderInStep
     DEF LinkInStep, OrphanIsDirty, OwnUntilRecv, SameExchange, Correlated
<1>1. CASE UNCHANGED vars
  BY <1>0, <1>1 DEF vars, clientVars, wireVars, portVars
<1>2. ASSUME NEW t \in Tasks, TaskStep(t) PROVE LinkInStep' /\ Correlated'
  BY <1>2, ConnectInStep, NegotiateInStep, SendingInStep, ReceivingInStep, ShellStepsInStep
     DEF TaskStep, RoundTrip
<1>3. ASSUME NEW r \in Rpcs, CooldownEnds(r) PROVE LinkInStep' /\ Correlated'
  BY <1>0, <1>3 DEF CooldownEnds, clientVars, wireVars, portVars
<1>4. CASE Next
  BY <1>2, <1>3, <1>4, ConnectInStep, LockInStep, DeviceInStep DEF Next
<1> QED BY <1>1, <1>4

\* The strengthening that makes correlation inductive holds of every behaviour.
THEOREM CleanLink == Spec => []LinkInStep
<1>1. Init => LinkInStep /\ Correlated
  <2> SUFFICES ASSUME Init PROVE LinkInStep /\ Correlated
    OBVIOUS
  <2>1. \A t \in Tasks : call[t].own
    BY DEF Init, Idle
  <2>2. QuietLink /\ HeldLink /\ OrphanIsDirty /\ OwnUntilRecv
    BY <2>1, LinkAssumption DEF Init, QuietLink, HeldLink, OrphanIsDirty, OwnUntilRecv
  <2>3. Correlated
    BY DEF Init, Correlated
  <2> QED BY <2>2, <2>3 DEF LinkInStep
<1>2. TypeOK /\ Serialized /\ LinkInStep /\ Correlated /\ [Next]_vars => LinkInStep' /\ Correlated'
  BY NextInStep DEF LinkInv
<1> QED BY <1>1, <1>2, TypeCorrect, MutualExclusion, PTL DEF Spec

\* Correlation: answers are never matched by command_id, yet on a link no exchange
\* was given up on, a call that succeeds has taken only answers to its own request.
THEOREM AnswersAreOwn == Spec => []Correlated
<1>1. Init => Correlated
  BY DEF Init, Correlated
<1>2. TypeOK /\ Serialized /\ LinkInStep /\ Correlated /\ [Next]_vars => Correlated'
  BY NextInStep DEF LinkInv
<1> QED BY <1>1, <1>2, TypeCorrect, MutualExclusion, CleanLink, PTL DEF Spec
=============================================================================
