------------------------- MODULE StorageToolsProofs -------------------------
(***************************************************************************)
(* Proofs about StorageTools, for any number of calls, paths, contents and *)
(* frames: StorageInv is inductive, so what a tool returns on a link in    *)
(* step is true of the device, and a file pulled is one the device held.   *)
(***************************************************************************)
EXTENDS StorageTools, TLAPS

-----------------------------------------------------------------------------
(* The data. *)

\* The longest content bounds them all.
LEMMA MaxFramesType ==
  MaxFrames \in Nat /\ MaxFrames >= 1 /\ \A c \in Names : Frames[c] <= MaxFrames
<1> DEFINE S == {Frames[c] : c \in Names}
<1>1. \E n \in S : \A c \in Names : Frames[c] <= n
  BY StorageAssumption
<1>2. MaxFrames \in S /\ \A c \in Names : Frames[c] <= MaxFrames
  BY <1>1 DEF MaxFrames
<1>3. S \subseteq Nat \ {0}
  BY StorageAssumption
<1> QED BY <1>2, <1>3

\* The contents a file may have.
LEMMA DataTypes ==
  /\ Data \subseteq Held /\ Bytes \subseteq Data
  /\ Empty \in Data /\ Absent \in Held /\ Dir \in Held
  /\ \A d \in Held : d \notin {Absent, Dir} => d \in Data
  BY DEF Data, Held

\* Whole contents and damaged ones are contents.
LEMMA BytesTypes ==
  /\ \A c \in Names : Whole(c) \in Bytes
  /\ \A d : Damaged(d) \subseteq Bytes /\ Spoilt(d) \subseteq Bytes
<1>1. ASSUME NEW c \in Names PROVE Whole(c) \in Bytes
  <2>1. 0 \in 0..(MaxFrames + 1)
    BY MaxFramesType
  <2> QED BY <2>1 DEF Whole, Bytes
<1>2. ASSUME NEW d PROVE Damaged(d) \subseteq Bytes /\ Spoilt(d) \subseteq Bytes
  BY DEF Damaged, Spoilt
<1> QED BY <1>1, <1>2

-----------------------------------------------------------------------------
(* Sequences. *)

\* A sequence over a set is one over a larger set.
LEMMA SeqGrows ==
  ASSUME NEW S, NEW T, S \subseteq T, NEW s \in Seq(S)
  PROVE  s \in Seq(T)
  OBVIOUS

\* The first element of a sequence and the rest.
LEMMA HeadAndTail ==
  ASSUME NEW S, NEW s \in Seq(S), s # <<>>
  PROVE  /\ Head(s) \in S /\ Head(s) = s[1] /\ Tail(s) \in Seq(S)
         /\ Len(s) \in Nat /\ Len(s) >= 1 /\ Len(Tail(s)) = Len(s) - 1
         /\ \A k \in 1..Len(Tail(s)) : Tail(s)[k] = s[k + 1]
  OBVIOUS

\* Two sequences one after the other.
LEMMA ConcatType ==
  ASSUME NEW S, NEW s \in Seq(S), NEW t \in Seq(S)
  PROVE  s \o t \in Seq(S)
  OBVIOUS

\* Nothing before a sequence is the sequence.
LEMMA EmptyConcat ==
  ASSUME NEW S, NEW s \in Seq(S)
  PROVE  <<>> \o s = s
  OBVIOUS

\* A function on 1..n is a sequence.
LEMMA FunctionIsSeq ==
  ASSUME NEW S, NEW n \in Nat, NEW f \in [1..n -> S]
  PROVE  f \in Seq(S) /\ Len(f) = n
  OBVIOUS

-----------------------------------------------------------------------------
(* Calls and their requests. *)

\* A call that has begun has its locals.
LEMMA Begun ==
  ASSUME job \in [Calls -> Job \cup {NoOp}], NEW t \in Calls
  PROVE  /\ job[t].pc # "idle" <=> job[t] \in Job
         /\ job[t].pc = "idle" <=> job[t] = NoOp
         /\ job[t] \in Job \cup {NoOp}
  BY DEF Job, NoOp

\* What a round trip may ask for.
LEMMA MethodType ==
  ASSUME NEW j \in Job
  PROVE  /\ Method(j) \in Wires \ {"frag"}
         /\ j.op \in {"push", "pull"} /\ j.trip = 2 => Method(j) = "md5sum"
         /\ j.op = "push" /\ j.trip = 1 => Method(j) = "write"
         /\ j.op = "pull" /\ j.trip = 1 => Method(j) = "read"
         /\ j.op \notin {"push", "pull"} => Method(j) = j.op
<1>1. j.op \in AllOps /\ j.trip \in {1, 2}
  BY DEF Job
<1>2. j.op \in {"push", "pull"} /\ j.trip = 2 => Method(j) = "md5sum"
  BY DEF Method
<1>3. j.op = "push" /\ j.trip = 1 => Method(j) = "write"
  BY DEF Method
<1>4. j.op = "pull" /\ j.trip = 1 => Method(j) = "read"
  BY DEF Method
<1>5. j.op \notin {"push", "pull"} => Method(j) = j.op
  BY DEF Method
<1>6. Method(j) \in Wires \ {"frag"}
  BY <1>1, <1>2, <1>3, <1>4, <1>5 DEF Wires, AllOps, Queries, Writers
<1> QED BY <1>2, <1>3, <1>4, <1>5, <1>6

\* The request of a round trip.
LEMMA AskedType ==
  ASSUME NEW j \in Job
  PROVE  Asked(j) \in Request /\ Asked(j).op = Method(j) /\ Asked(j).path = j.path
<1>1. Method(j) \in Wires
  BY MethodType
<1>2. (IF Method(j) = "write" THEN j.data ELSE Empty) \in Data \cup {Absent, Dir}
  BY DataTypes DEF Job
<1> QED BY <1>1, <1>2 DEF Asked, Request, Job

\* A status that is not OK is an honest answer to anything.
LEMMA NothingIsHonest ==
  Nothing \in Honest /\ \A j : Answering(j, Nothing)
<1>1. Nothing \in Answer /\ ~Nothing.ok
  BY DataTypes DEF Nothing, Answer
<1> QED BY <1>1 DEF Honest, Answering

\* A call's end is well typed, and true when its claim is.
LEMMA EndType ==
  ASSUME NEW j, NEW okay \in BOOLEAN, dirty \in BOOLEAN, End(j, okay),
         okay /\ ~dirty => Claim(j) \in j.held
  PROVE  out' \in Outcome /\ ResultHeld'
<1>1. CASE okay
  <2> DEFINE o == [res |-> "ok", transfer |-> j.op \in {"push", "pull"},
                   held |-> Claim(j) \in j.held, sure |-> ~dirty]
  <2>1. out' = o
    BY <1>1 DEF End
  <2>2. (j.op \in {"push", "pull"}) \in BOOLEAN /\ (Claim(j) \in j.held) \in BOOLEAN
        /\ (~dirty) \in BOOLEAN
    OBVIOUS
  <2>3. o \in Outcome
    BY <2>2 DEF Outcome
  <2>4. o.sure => o.held
    <3>1. o.sure = ~dirty /\ o.held = (Claim(j) \in j.held)
      OBVIOUS
    <3> HIDE DEF o
    <3> QED BY <1>1, <3>1
  <2> QED BY <2>1, <2>3, <2>4 DEF ResultHeld
<1>2. CASE ~okay
  BY <1>2 DEF End, Raised, Outcome, ResultHeld
<1> QED BY <1>1, <1>2

-----------------------------------------------------------------------------
(* What a call does with a frame. *)

\* The results of a frame: the call's next record, its outcome and the host's files.
Handled(t, a) ==
    /\ \E x \in Job \cup {NoOp} :
         /\ job' = [job EXCEPT ![t] = x]
         /\ x.pc = "wait" => /\ a.ok /\ a.more
                             /\ x.held = job[t].held /\ Method(x) = Method(job[t])
         /\ x.pc # "idle" /\ x.op = "pull" => x.data \in Data
    /\ out' \in Outcome /\ ResultHeld'
    /\ host' \in [Files -> Data \cup {Absent}] /\ last' \in [Files -> {"none", "ok", "error"}]
    /\ PulledExisted'

\* A call that ends, and leaves the host's files alone.
LEMMA Ends ==
  ASSUME StorageInv, NEW t \in Calls, NEW a, NEW j, NEW okay \in BOOLEAN,
         job' = [job EXCEPT ![t] = NoOp], End(j, okay),
         okay /\ ~dirty => Claim(j) \in j.held,
         UNCHANGED <<was, hostVars>>
  PROVE  Handled(t, a)
<1>1. out' \in Outcome /\ ResultHeld'
  BY EndType DEF StorageInv, TypeOK
<1>2. /\ host' \in [Files -> Data \cup {Absent}] /\ last' \in [Files -> {"none", "ok", "error"}]
      /\ PulledExisted'
  BY DEF StorageInv, TypeOK, hostVars, PulledExisted
<1>3. NoOp \in Job \cup {NoOp} /\ NoOp.pc = "idle"
  BY DEF NoOp
<1> QED BY <1>1, <1>2, <1>3 DEF Handled

\* A call that goes on.
LEMMA GoesOn ==
  ASSUME StorageInv, NEW t \in Calls, NEW a, NEW x \in Job,
         job' = [job EXCEPT ![t] = x],
         x.pc = "wait" => /\ a.ok /\ a.more
                          /\ x.held = job[t].held /\ Method(x) = Method(job[t]),
         x.op = "pull" => x.data \in Data,
         UNCHANGED <<out, was, hostVars>>
  PROVE  Handled(t, a)
<1>1. out' \in Outcome /\ ResultHeld'
  BY DEF StorageInv, TypeOK, ResultHeld
<1>2. /\ host' \in [Files -> Data \cup {Absent}] /\ last' \in [Files -> {"none", "ok", "error"}]
      /\ PulledExisted'
  BY DEF StorageInv, TypeOK, hostVars, PulledExisted
<1> QED BY <1>1, <1>2 DEF Handled

\* A frame that is taken has the kind its method asks for.
LEMMA TakenKind ==
  ASSUME NEW j, NEW a \in Answer
  PROVE  /\ Taken(j, a) \in BOOLEAN
         /\ Taken(j, a) => a.ok
         /\ Taken(j, a) /\ Method(j) \in Queries \cup {"md5sum", "read"} => a.op = Method(j)
  BY DEF Taken, Answer

\* The first round trip of a transfer.
LEMMA SecondTripKeeps ==
  ASSUME StorageInv, NEW t \in Calls, NEW a \in Honest, job[t].pc = "wait",
         SecondTrip(t, a), UNCHANGED was
  PROVE  Handled(t, a)
<1> DEFINE j == job[t]
           d == CASE j.op = "push" -> j.data
                  [] j.op = "pull" /\ Taken(j, a) -> a.data
                  [] OTHER -> Empty
           x == [j EXCEPT !.pc = "ask", !.trip = 2, !.data = d]
<1>1. j \in Job /\ j.op \in {"push", "pull"} /\ j.trip = 1 /\ UNCHANGED <<was, hostVars>>
  BY Begun DEF StorageInv, TypeOK, SecondTrip
<1>2. a \in Answer
  BY DEF Honest
<1>3. CASE j.op = "push" /\ ~Taken(j, a)
  <2>1. job' = [job EXCEPT ![t] = NoOp] /\ End(j, FALSE)
    BY <1>3 DEF SecondTrip
  <2> QED BY <1>1, <2>1, Ends
<1>4. CASE ~(j.op = "push" /\ ~Taken(j, a))
  <2>1. job' = [job EXCEPT ![t] = x] /\ UNCHANGED out
    BY <1>4 DEF SecondTrip
  <2>2. d \in Data \cup {Absent, Dir} /\ (j.op = "pull" => d \in Data)
    <3>1. CASE j.op = "push"
      BY <1>1, <3>1 DEF Job
    <3>2. CASE j.op = "pull" /\ Taken(j, a)
      <4>1. Method(j) = "read"
        BY <1>1, <3>2, MethodType
      <4>2. a.ok /\ a.op = "read"
        BY <1>2, <3>2, <4>1, TakenKind
      <4>3. a.data \in Data /\ d = a.data
        BY <3>2, <4>2 DEF Honest
      <4> QED BY <4>3
    <3>3. CASE j.op = "pull" /\ ~Taken(j, a)
      BY <3>3, DataTypes
    <3> QED BY <1>1, <3>1, <3>2, <3>3
  <2>3. x \in Job /\ x.pc = "ask" /\ x.op = j.op /\ x.data = d
    <3> HIDE DEF d, j
    <3>1. j \in Job /\ d \in Data \cup {Absent, Dir} /\ 2 \in 1..2
      BY <1>1, <2>2
    <3>2. x \in Job
      BY <3>1 DEF Job
    <3> QED BY <3>1 DEF Job
  <2> HIDE DEF x, d
  <2> QED BY <1>1, <2>1, <2>2, <2>3, GoesOn
<1> QED BY <1>3, <1>4

\* What a digest in step says of the call's path.
LEMMA DigestHeld ==
  ASSUME NEW j \in Job, NEW a \in Answer, j.op \in {"push", "pull"}, j.trip = 2,
         ~dirty => Answering(j, a)
  PROVE  Taken(j, a) /\ a.data = j.data /\ ~dirty => Claim(j) \in j.held
<1> SUFFICES ASSUME Taken(j, a), a.data = j.data, ~dirty PROVE Claim(j) \in j.held
  OBVIOUS
<1>1. Method(j) = "md5sum"
  BY MethodType
<1>2. a.ok /\ a.data \in j.held
  BY <1>1, TakenKind DEF Answering
<1>3. Claim(j) = j.data
  BY DEF Claim
<1> QED BY <1>2, <1>3

\* The end of a push.
LEMMA VerifyPushKeeps ==
  ASSUME StorageInv, NEW t \in Calls, NEW a \in Honest, job[t].pc = "wait",
         VerifyPush(t, a), UNCHANGED was, ~dirty => Answering(job[t], a)
  PROVE  Handled(t, a)
<1> DEFINE j == job[t]
           okay == Taken(j, a) /\ a.data = j.data
<1>1. /\ j \in Job /\ a \in Answer /\ j.op = "push" /\ j.trip = 2 /\ UNCHANGED <<was, hostVars>>
      /\ job' = [job EXCEPT ![t] = NoOp] /\ End(j, okay)
  BY Begun DEF StorageInv, TypeOK, VerifyPush, Honest
<1>2. okay /\ ~dirty => Claim(j) \in j.held
  BY <1>1, DigestHeld
<1>3. okay \in BOOLEAN
  OBVIOUS
<1> HIDE DEF okay
<1> QED BY <1>1, <1>2, <1>3, Ends

\* The end of a pull: the host's file is written, and a digest that fits is one of
\* data that the device has held.
LEMMA VerifyPullKeeps ==
  ASSUME StorageInv, NEW t \in Calls, NEW a \in Honest, job[t].pc = "wait",
         VerifyPull(t, a), UNCHANGED was, ~dirty => Answering(job[t], a)
  PROVE  Handled(t, a)
<1> DEFINE j == job[t]
           fits == Taken(j, a) /\ a.data = j.data
<1>1. /\ j \in Job /\ a \in Answer /\ j.op = "pull" /\ j.trip = 2
      /\ job' = [job EXCEPT ![t] = NoOp]
  BY Begun DEF StorageInv, TypeOK, VerifyPull, Honest
<1>2. fits /\ ~dirty => Claim(j) \in j.held
  BY <1>1, DigestHeld
<1>3. fits \in BOOLEAN
  OBVIOUS
<1>4. fits => j.data \in was
  <2> SUFFICES ASSUME fits PROVE j.data \in was
    OBVIOUS
  <2>1. Method(j) = "md5sum"
    BY <1>1, MethodType
  <2>2. a.ok /\ a.op = "md5sum"
    BY <1>1, <2>1, TakenKind
  <2> QED BY <2>2 DEF Honest
<1>5. j.data \in Data /\ j.file \in Files
  BY <1>1 DEF StorageInv, PullIsData, Job
<1> HIDE DEF fits
<1>6. CASE /\ host' = [host EXCEPT ![j.file] = j.data]
           /\ End(j, fits)
           /\ last' = [last EXCEPT ![j.file] = IF fits THEN "ok" ELSE "error"]
  <2>1. out' \in Outcome /\ ResultHeld'
    BY <1>2, <1>3, <1>6, EndType DEF StorageInv, TypeOK
  <2>2. host \in [Files -> Data \cup {Absent}] /\ last \in [Files -> {"none", "ok", "error"}]
    BY DEF StorageInv, TypeOK
  <2>3. host' \in [Files -> Data \cup {Absent}] /\ last' \in [Files -> {"none", "ok", "error"}]
    BY <1>5, <1>6, <2>2
  <2>4. PulledExisted'
    <3> SUFFICES ASSUME NEW f \in Files, last'[f] = "ok" PROVE host'[f] \in was
      BY DEF PulledExisted
    <3>1. CASE f = j.file
      BY <1>4, <1>5, <1>6, <2>2, <3>1
    <3>2. CASE f # j.file
      BY <1>5, <1>6, <2>2, <3>2 DEF StorageInv, PulledExisted
    <3> QED BY <3>1, <3>2
  <2>5. NoOp \in Job \cup {NoOp} /\ NoOp.pc = "idle"
    BY DEF NoOp
  <2> QED BY <1>1, <2>1, <2>3, <2>4, <2>5 DEF Handled
<1>7. CASE End(j, FALSE) /\ UNCHANGED hostVars
  BY <1>1, <1>7, Ends
<1> QED BY <1>6, <1>7 DEF VerifyPull, fits

\* A frame of a listing.
LEMMA ListFrameKeeps ==
  ASSUME StorageInv, NEW t \in Calls, NEW a \in Honest, job[t].pc = "wait",
         ListFrame(t, a), UNCHANGED was, ~dirty => Answering(job[t], a)
  PROVE  Handled(t, a)
<1> DEFINE d == IF a.op = "list" THEN a.data ELSE job[t].data
           j == [job[t] EXCEPT !.data = d]
<1>1. job[t] \in Job /\ a \in Answer
  BY Begun DEF StorageInv, TypeOK, Honest
<1>2. d \in Data \cup {Absent, Dir}
  BY <1>1 DEF Answer, Job
<1>3. /\ j \in Job /\ j.op = job[t].op /\ j.trip = job[t].trip /\ j.held = job[t].held
      /\ j.pc = "wait" /\ j.data = d
  <2> HIDE DEF d
  <2> QED BY <1>1, <1>2 DEF Job
<1>4. /\ j.op = "list" /\ UNCHANGED <<was, hostVars>>
      /\ \/ a.ok /\ a.more /\ job' = [job EXCEPT ![t] = j] /\ UNCHANGED out
         \/ job' = [job EXCEPT ![t] = NoOp] /\ End(j, a.ok)
  BY DEF ListFrame
<1>5. Method(job[t]) = "list" /\ Method(j) = "list"
  BY <1>1, <1>3, <1>4, MethodType
<1>6. a.ok /\ ~dirty => Claim(j) \in j.held
  <2> SUFFICES ASSUME a.ok, ~dirty PROVE Claim(j) \in j.held
    OBVIOUS
  <2>1. a.op = "list" /\ a.data \in job[t].held
    BY <1>5 DEF Answering
  <2>2. Claim(j) = j.data
    BY <1>4 DEF Claim
  <2> QED BY <1>3, <2>1, <2>2
<1>7. a.ok \in BOOLEAN
  BY <1>1 DEF Answer
<1> HIDE DEF j, d
<1>8. CASE a.ok /\ a.more /\ job' = [job EXCEPT ![t] = j] /\ UNCHANGED out
  BY <1>3, <1>4, <1>5, <1>8, GoesOn
<1>9. CASE job' = [job EXCEPT ![t] = NoOp] /\ End(j, a.ok)
  BY <1>4, <1>6, <1>7, <1>9, Ends
<1> QED BY <1>4, <1>8, <1>9

\* The tools of one round trip.
LEMMA OnlyTripKeeps ==
  ASSUME StorageInv, NEW t \in Calls, NEW a \in Honest, job[t].pc = "wait",
         OnlyTrip(t, a), UNCHANGED was, ~dirty => Answering(job[t], a)
  PROVE  Handled(t, a)
<1> DEFINE j == [job[t] EXCEPT !.data = a.data]
<1>1. job[t] \in Job /\ a \in Answer
  BY Begun DEF StorageInv, TypeOK, Honest
<1>2. /\ j \in Job /\ j.op = job[t].op /\ j.held = job[t].held /\ j.data = a.data
  BY <1>1 DEF Job, Answer
<1>3. /\ j.op \in Queries \cup {"mkdir", "delete", "rename"} /\ UNCHANGED <<was, hostVars>>
      /\ job' = [job EXCEPT ![t] = NoOp] /\ End(j, Taken(j, a))
  BY DEF OnlyTrip
<1> HIDE DEF j
<1>4. Method(job[t]) = j.op /\ Method(j) = j.op
  BY <1>1, <1>2, <1>3, MethodType DEF Queries
<1>5. Taken(j, a) /\ ~dirty => Claim(j) \in j.held
  <2> SUFFICES ASSUME Taken(j, a), ~dirty PROVE Claim(j) \in j.held
    OBVIOUS
  <2>1. a.ok
    BY <1>1, TakenKind
  <2>2. CASE j.op \in Queries
    <3>1. a.data \in j.held
      BY <1>2, <1>4, <2>1, <2>2 DEF Answering
    <3>2. Claim(j) = j.data
      BY <2>2 DEF Claim, Queries
    <3> QED BY <1>2, <3>1, <3>2
  <2>3. CASE j.op \in {"mkdir", "delete", "rename"}
    BY <1>2, <1>4, <2>1, <2>3 DEF Answering, Claim
  <2> QED BY <1>3, <2>2, <2>3
<1>6. Taken(j, a) \in BOOLEAN
  BY <1>1, TakenKind
<1> QED BY <1>3, <1>5, <1>6, Ends

\* What a call does with a frame, whichever tool it is.
LEMMA HandleKeeps ==
  ASSUME StorageInv, NEW t \in Calls, NEW a \in Honest, job[t].pc = "wait",
         Handle(t, a), UNCHANGED was, ~dirty => Answering(job[t], a)
  PROVE  Handled(t, a)
  BY SecondTripKeeps, VerifyPushKeeps, VerifyPullKeeps, ListFrameKeeps, OnlyTripKeeps DEF Handle

-----------------------------------------------------------------------------
(* What the steps of the calls preserve. *)

\* The part of the invariant that is about the calls and the lock.
CallsOK == job \in [Calls -> Job \cup {NoOp}] /\ lock \in Calls \cup {NoCall} /\ PullIsData /\ LockIsHeld

\* Call t gets record x, and has the lock just when it waits.
LEMMA OneCall ==
  ASSUME CallsOK, NEW t \in Calls, NEW x \in Job \cup {NoOp},
         job' = [job EXCEPT ![t] = x],
         x.pc # "idle" /\ x.op = "pull" => x.data \in Data,
         lock' \in {t, NoCall, lock},
         x.pc = "wait" <=> lock' = t,
         lock \in {t, NoCall} \/ lock' = lock
  PROVE  CallsOK'
<1>1. /\ job'[t] = x
      /\ \A u \in Calls \ {t} : job'[u] = job[u]
      /\ job' \in [Calls -> Job \cup {NoOp}]
  BY DEF CallsOK
<1>2. lock' \in Calls \cup {NoCall}
  BY DEF CallsOK
<1>3. PullIsData'
  BY <1>1 DEF CallsOK, PullIsData
<1>4. LockIsHeld'
  <2> SUFFICES ASSUME NEW u \in Calls PROVE job'[u].pc = "wait" <=> lock' = u
    BY DEF LockIsHeld
  <2>1. CASE u = t
    BY <1>1, <2>1
  <2>2. CASE u # t
    <3>1. lock' = u <=> lock = u
      BY <2>2, StorageAssumption
    <3> QED BY <1>1, <2>2, <3>1 DEF CallsOK, LockIsHeld
  <2> QED BY <2>1, <2>2
<1> QED BY <1>1, <1>2, <1>3, <1>4 DEF CallsOK

\* The parts of the invariant that a call which begins, asks, takes a frame or ends
\* leaves to be shown.
LEMMA CallStep ==
  ASSUME StorageInv, CallsOK', LinkInStep',
         out' \in Outcome /\ ResultHeld',
         todo' \in Seq(Request) /\ rx' \in Seq(Honest),
         dirty' \in BOOLEAN /\ trips' \in 0..MaxTrips,
         host' \in [Files -> Data \cup {Absent}] /\ last' \in [Files -> {"none", "ok", "error"}],
         PulledExisted',
         UNCHANGED <<deviceVars, enabled>>
  PROVE  StorageInv'
<1>1. Honest' = Honest /\ Honest \subseteq Answer
  BY DEF Honest, deviceVars
<1>2. rx' \in Seq(Answer)
  BY <1>1, SeqGrows
<1>3. TypeOK'
  BY <1>2 DEF StorageInv, TypeOK, CallsOK, deviceVars
<1>4. AnswersAreHonest'
  BY <1>1 DEF AnswersAreHonest
<1>5. CardIsKnown'
  BY DEF StorageInv, CardIsKnown, deviceVars
<1> QED BY <1>3, <1>4, <1>5 DEF StorageInv, CallsOK

\* What the invariant says of the variables a call may leave alone.
LEMMA Facts ==
  ASSUME StorageInv
  PROVE  /\ CallsOK /\ LinkInStep
         /\ out \in Outcome /\ ResultHeld
         /\ todo \in Seq(Request) /\ rx \in Seq(Honest)
         /\ dirty \in BOOLEAN /\ trips \in 0..MaxTrips
         /\ host \in [Files -> Data \cup {Absent}] /\ last \in [Files -> {"none", "ok", "error"}]
         /\ PulledExisted
  BY DEF StorageInv, TypeOK, CallsOK, AnswersAreHonest

\* The host's files, untouched.
LEMMA HostKept ==
  ASSUME StorageInv, UNCHANGED <<deviceVars, hostVars>>
  PROVE  /\ host' \in [Files -> Data \cup {Absent}] /\ last' \in [Files -> {"none", "ok", "error"}]
         /\ PulledExisted'
  BY Facts DEF hostVars, deviceVars, PulledExisted

\* The outcome, untouched.
LEMMA OutKept ==
  ASSUME StorageInv, UNCHANGED out
  PROVE  out' \in Outcome /\ ResultHeld'
  BY Facts DEF ResultHeld

\* A call that is not the lock's holder changes, and the link does not.
LEMMA LinkKept ==
  ASSUME StorageInv, NEW t \in Calls, NEW x, lock # t,
         job' = [job EXCEPT ![t] = x],
         UNCHANGED <<lock, todo, rx, dirty, deviceVars>>
  PROVE  LinkInStep'
<1>1. lock # NoCall => job'[lock] = job[lock]
  BY Facts DEF CallsOK
<1> QED BY <1>1, Facts DEF LinkInStep, RoundTrip, deviceVars

\* A call begins.
LEMMA BeginKeeps ==
  ASSUME StorageInv, NEW t \in Calls, NEW op \in Ops, Begin(t, op)
  PROVE  StorageInv'
<1>1. PICK p \in Paths, to \in Paths, f \in Files :
        /\ ~Refused(op, f)
        /\ job' = [job EXCEPT ![t] =
               [pc |-> "ask", op |-> op, trip |-> 1, path |-> p, to |-> to, file |-> f,
                data |-> IF op = "push" THEN host[f] ELSE Empty, held |-> {card[p]}]]
  BY DEF Begin
<1> DEFINE d == IF op = "push" THEN host[f] ELSE Empty
           x == [pc |-> "ask", op |-> op, trip |-> 1, path |-> p, to |-> to, file |-> f,
                 data |-> d, held |-> {card[p]}]
<1>2. /\ job[t].pc = "idle" /\ trips + 2 <= MaxTrips /\ trips' \in {trips + 1, trips + 2}
      /\ UNCHANGED <<out, lock, todo, rx, dirty, deviceVars, hostVars, enabled>>
  BY DEF Begin
<1>3. d \in Data \cup {Absent, Dir} /\ (op # "push" => d \in Data)
  BY Facts, DataTypes
<1>4. x \in Job
  <2>1. op \in AllOps /\ 1 \in 1..2 /\ {card[p]} \in SUBSET (Data \cup {Absent, Dir})
    BY StorageAssumption DEF StorageInv, TypeOK, Held
  <2> HIDE DEF d
  <2> QED BY <1>3, <2>1 DEF Job
<1>5. x.pc = "ask" /\ (x.op = "pull" => x.data \in Data)
  <2> HIDE DEF d
  <2> QED BY <1>3
<1>6. lock # t
  BY <1>2, Facts DEF CallsOK, LockIsHeld
<1>7. job' = [job EXCEPT ![t] = x]
  BY <1>1
<1> HIDE DEF x
<1>8. CallsOK'
  BY <1>2, <1>4, <1>5, <1>6, <1>7, Facts, OneCall
<1>9. LinkInStep'
  BY <1>2, <1>6, <1>7, LinkKept
<1>10. trips' \in 0..MaxTrips
  BY <1>2, Facts, StorageAssumption
<1>11. todo' \in Seq(Request) /\ rx' \in Seq(Honest) /\ dirty' \in BOOLEAN
  BY <1>2, Facts
<1> QED BY <1>2, <1>8, <1>9, <1>10, <1>11, OutKept, HostKept, CallStep

\* A call is refused.
LEMMA RefuseKeeps ==
  ASSUME StorageInv, NEW t \in Calls, NEW op \in Ops, Refuse(t, op)
  PROVE  StorageInv'
<1>1. out' = Raised /\ UNCHANGED <<job, lock, todo, rx, trips, dirty, deviceVars, hostVars, enabled>>
  BY DEF Refuse, linkVars
<1>2. out' \in Outcome /\ ResultHeld'
  BY <1>1 DEF Raised, Outcome, ResultHeld
<1>3. CallsOK'
  BY <1>1, Facts DEF CallsOK, PullIsData, LockIsHeld
<1>4. LinkInStep'
  BY <1>1, Facts DEF LinkInStep, RoundTrip, deviceVars
<1>5. /\ todo' \in Seq(Request) /\ rx' \in Seq(Honest)
      /\ dirty' \in BOOLEAN /\ trips' \in 0..MaxTrips
  BY <1>1, Facts
<1> QED BY <1>1, <1>2, <1>3, <1>4, <1>5, HostKept, CallStep

\* A request is sent, on a link that is empty when it is in step.
LEMMA AskKeeps ==
  ASSUME StorageInv, NEW t \in Calls, Ask(t)
  PROVE  StorageInv'
<1> DEFINE x == [job[t] EXCEPT !.pc = "wait"]
<1>1. /\ job[t].pc = "ask" /\ lock = NoCall /\ lock' = t
      /\ todo' = Append(todo, Asked(job[t])) /\ job' = [job EXCEPT ![t] = x]
      /\ UNCHANGED <<out, rx, trips, dirty, deviceVars, hostVars, enabled>>
  BY DEF Ask
<1>2. job[t] \in Job
  BY <1>1, Begun, Facts DEF CallsOK
<1>3. /\ x \in Job /\ x.pc = "wait" /\ x.op = job[t].op /\ x.trip = job[t].trip
      /\ x.data = job[t].data /\ x.path = job[t].path /\ x.to = job[t].to
  BY <1>2 DEF Job
<1> HIDE DEF x
<1>4. Method(x) = Method(job[t]) /\ Asked(x) = Asked(job[t])
  BY <1>3 DEF Method, Asked
<1>5. x.op = "pull" => x.data \in Data
  BY <1>1, <1>3, Facts DEF CallsOK, PullIsData
<1>6. CallsOK'
  BY <1>1, <1>3, <1>5, Facts, OneCall
<1>7. Asked(job[t]) \in Request
  BY <1>2, AskedType
<1>8. todo' \in Seq(Request) /\ rx' \in Seq(Honest) /\ dirty' \in BOOLEAN /\ trips' \in 0..MaxTrips
  BY <1>1, <1>7, Facts
<1>9. LinkInStep'
  <2> SUFFICES ASSUME ~dirty
               PROVE  /\ ~chain' /\ lock' # NoCall
                      /\ RoundTrip(job[lock])'
    BY <1>1 DEF LinkInStep
  <2>1. ~chain /\ todo = <<>> /\ rx = <<>>
    BY <1>1, Facts DEF LinkInStep
  <2>2. job'[t] = x
    BY <1>1, Facts DEF CallsOK
  <2>3. todo' = <<Asked(x)>> /\ rx' = <<>>
    BY <1>1, <1>4, <1>7, <2>1
  <2>4. RoundTrip(job[lock])'
    BY <1>1, <2>2, <2>3 DEF RoundTrip
  <2> QED BY <1>1, <2>1, <2>4, StorageAssumption DEF deviceVars
<1> QED BY <1>1, <1>6, <1>8, <1>9, OutKept, HostKept, CallStep

\* A frame is taken: in step it is the next of the call's own answer, and the rest
\* of the answer, if any, is still to come.
LEMMA ReceiveKeeps ==
  ASSUME StorageInv, NEW t \in Calls, Receive(t)
  PROVE  StorageInv'
<1> DEFINE a == Head(rx)
<1>1. /\ job[t].pc = "wait" /\ rx # <<>> /\ rx' = Tail(rx) /\ Handle(t, a)
      /\ lock' = IF job'[t].pc = "wait" THEN t ELSE NoCall
      /\ dirty' = (dirty \/ (a.more /\ ~(job'[t].pc = "wait")))
      /\ UNCHANGED <<todo, trips, deviceVars, enabled>>
  BY DEF Receive
<1>2. a \in Honest /\ Tail(rx) \in Seq(Honest) /\ a \in Answer
  <2>1. a \in Honest /\ Tail(rx) \in Seq(Honest)
    BY <1>1, Facts, HeadAndTail
  <2> QED BY <2>1 DEF Honest
<1>3. lock = t /\ t # NoCall
  BY <1>1, Facts, StorageAssumption DEF CallsOK, LockIsHeld
<1>4. ~dirty => /\ ~chain /\ todo = <<>>
                /\ \A k \in 1..Len(rx) : Answering(job[t], rx[k]) /\ (rx[k].more <=> k < Len(rx))
  BY <1>1, <1>3, Facts DEF LinkInStep, RoundTrip
<1>5. /\ a = rx[1] /\ Len(rx) \in Nat /\ Len(rx) >= 1 /\ Len(rx') = Len(rx) - 1
      /\ \A k \in 1..Len(rx') : rx'[k] = rx[k + 1]
  BY <1>1, Facts, HeadAndTail
<1>6. ~dirty => Answering(job[t], a)
  BY <1>4, <1>5
<1> HIDE DEF a
<1>7. Handled(t, a)
  BY <1>1, <1>2, <1>6, HandleKeeps DEF deviceVars
<1>8. PICK x \in Job \cup {NoOp} :
         /\ job' = [job EXCEPT ![t] = x]
         /\ x.pc = "wait" => /\ a.ok /\ a.more
                             /\ x.held = job[t].held /\ Method(x) = Method(job[t])
         /\ x.pc # "idle" /\ x.op = "pull" => x.data \in Data
  BY <1>7 DEF Handled
<1>9. job'[t] = x
  BY <1>8, Facts DEF CallsOK
<1>10. CallsOK'
  BY <1>1, <1>3, <1>8, <1>9, Facts, OneCall
<1>11. dirty' \in BOOLEAN
  BY <1>1, <1>2, Facts DEF Answer
<1>12. LinkInStep'
  <2> SUFFICES ASSUME ~dirty'
               PROVE  /\ ~chain'
                      /\ lock' = NoCall => todo' = <<>> /\ rx' = <<>>
                      /\ lock' # NoCall => RoundTrip(job[lock])'
    BY DEF LinkInStep
  <2>1. ~dirty /\ (x.pc = "wait" \/ ~a.more)
    BY <1>1, <1>9
  <2>2. ~chain' /\ todo' = <<>>
    BY <1>1, <1>4, <2>1 DEF deviceVars
  <2>3. a.more <=> 1 < Len(rx)
    BY <1>4, <1>5, <2>1
  <2>4. CASE x.pc = "wait"
    <3>1. lock' = t /\ x.held = job[t].held /\ Method(x) = Method(job[t]) /\ 1 < Len(rx)
      BY <1>1, <1>8, <1>9, <2>3, <2>4
    <3>2. ASSUME NEW k \in 1..Len(rx')
          PROVE  Answering(x, rx'[k]) /\ (rx'[k].more <=> k < Len(rx'))
      <4>1. k + 1 \in 1..Len(rx) /\ rx'[k] = rx[k + 1] /\ (k + 1 < Len(rx) <=> k < Len(rx'))
        BY <1>5
      <4>2. Answering(job[t], rx[k + 1]) /\ (rx[k + 1].more <=> k + 1 < Len(rx))
        BY <1>4, <2>1, <4>1
      <4>3. Answering(x, rx[k + 1])
        BY <3>1, <4>2 DEF Answering
      <4> QED BY <4>1, <4>2, <4>3
    <3>3. rx' # <<>>
      <4>1. Len(rx') > 0
        BY <1>5, <3>1
      <4> QED BY <4>1
    <3>4. RoundTrip(job[lock])'
      BY <1>9, <2>2, <3>1, <3>2, <3>3 DEF RoundTrip
    <3> QED BY <1>3, <2>2, <3>1, <3>4
  <2>5. CASE x.pc # "wait"
    <3>1. lock' = NoCall
      BY <1>1, <1>9, <2>5
    <3>2. Len(rx') = 0 /\ rx' \in Seq(Honest)
      BY <1>1, <1>2, <1>5, <2>1, <2>3, <2>5
    <3>3. rx' = <<>>
      BY <3>2
    <3> QED BY <2>2, <3>1, <3>3
  <2> QED BY <2>4, <2>5
<1>13. todo' \in Seq(Request) /\ rx' \in Seq(Honest) /\ trips' \in 0..MaxTrips
  BY <1>1, <1>2, Facts
<1>14. /\ out' \in Outcome /\ ResultHeld'
       /\ host' \in [Files -> Data \cup {Absent}] /\ last' \in [Files -> {"none", "ok", "error"}]
       /\ PulledExisted'
  BY <1>7 DEF Handled
<1> QED BY <1>1, <1>10, <1>11, <1>12, <1>13, <1>14, CallStep

\* No frame in time: the link counts as out of step from now on.
LEMMA TimeOutKeeps ==
  ASSUME StorageInv, NEW t \in Calls, TimeOut(t)
  PROVE  StorageInv'
<1>1. /\ job[t].pc = "wait" /\ Handle(t, Nothing) /\ lock' = NoCall /\ dirty' = TRUE
      /\ UNCHANGED <<todo, rx, trips, deviceVars, enabled>>
  BY DEF TimeOut
<1>2. lock = t /\ t # NoCall
  BY <1>1, Facts, StorageAssumption DEF CallsOK, LockIsHeld
<1>3. Handled(t, Nothing)
  BY <1>1, NothingIsHonest, HandleKeeps DEF deviceVars
<1>4. PICK x \in Job \cup {NoOp} :
         /\ job' = [job EXCEPT ![t] = x]
         /\ x.pc = "wait" => Nothing.ok
         /\ x.pc # "idle" /\ x.op = "pull" => x.data \in Data
  BY <1>3 DEF Handled
<1>5. x.pc # "wait"
  BY <1>4 DEF Nothing
<1>6. CallsOK'
  BY <1>1, <1>2, <1>4, <1>5, Facts, OneCall
<1>7. LinkInStep'
  BY <1>1 DEF LinkInStep
<1>8. dirty' \in BOOLEAN
  BY <1>1
<1>9. todo' \in Seq(Request) /\ rx' \in Seq(Honest) /\ trips' \in 0..MaxTrips
  BY <1>1, Facts
<1>10. /\ out' \in Outcome /\ ResultHeld'
       /\ host' \in [Files -> Data \cup {Absent}] /\ last' \in [Files -> {"none", "ok", "error"}]
       /\ PulledExisted'
  BY <1>3 DEF Handled
<1> QED BY <1>1, <1>6, <1>7, <1>8, <1>9, <1>10, CallStep

\* A call is cancelled, with the lock or without it.
LEMMA CancelKeeps ==
  ASSUME StorageInv, NEW t \in Calls, Cancel(t)
  PROVE  StorageInv'
<1>1. /\ job' = [job EXCEPT ![t] = NoOp] /\ End(job[t], FALSE)
      /\ UNCHANGED <<rx, trips, deviceVars, hostVars, enabled>>
  BY DEF Cancel
<1>2. NoOp \in Job \cup {NoOp} /\ NoOp.pc = "idle"
  BY DEF NoOp
<1>3. out' \in Outcome /\ ResultHeld'
  BY <1>1, Facts, EndType
<1>4. rx' \in Seq(Honest) /\ trips' \in 0..MaxTrips
  BY <1>1, Facts
<1>5. CASE lock = t
  <2>1. /\ lock' = NoCall /\ dirty' = TRUE
        /\ \/ todo' = todo
           \/ todo # <<>> /\ todo' = [todo EXCEPT ![Len(todo)].op = "frag"]
    BY <1>5 DEF Cancel
  <2>2. CallsOK'
    BY <1>1, <1>2, <1>5, <2>1, Facts, StorageAssumption, OneCall
  <2>3. LinkInStep' /\ dirty' \in BOOLEAN
    BY <2>1 DEF LinkInStep
  <2>4. todo' \in Seq(Request)
    <3>1. CASE todo' = todo
      BY <3>1, Facts
    <3>2. CASE todo # <<>> /\ todo' = [todo EXCEPT ![Len(todo)].op = "frag"]
      <4> DEFINE n == Len(todo)
                 r == [todo[n] EXCEPT !.op = "frag"]
      <4>1. todo \in Seq(Request) /\ n \in 1..n /\ n \in Nat
        BY <3>2, Facts
      <4>2. r \in Request
        <5>1. todo[n] \in Request
          BY <4>1
        <5> QED BY <5>1 DEF Request, Wires
      <4>3. todo' = [todo EXCEPT ![n] = r]
        BY <3>2
      <4> HIDE DEF r
      <4> QED BY <4>1, <4>2, <4>3
    <3> QED BY <2>1, <3>1, <3>2
  <2> QED BY <1>1, <1>3, <1>4, <2>2, <2>3, <2>4, HostKept, CallStep
<1>6. CASE lock # t
  <2>1. UNCHANGED <<lock, dirty, todo>>
    BY <1>6 DEF Cancel
  <2>2. CallsOK'
    BY <1>1, <1>2, <1>6, <2>1, Facts, OneCall
  <2>3. LinkInStep'
    BY <1>1, <1>6, <2>1, LinkKept
  <2>4. todo' \in Seq(Request) /\ dirty' \in BOOLEAN
    BY <2>1, Facts
  <2> QED BY <1>1, <1>3, <1>4, <2>2, <2>3, <2>4, HostKept, CallStep
<1> QED BY <1>5, <1>6

-----------------------------------------------------------------------------
(* What the device does. *)

\* A sequence is one over any set that has its elements.
LEMMA SeqOf ==
  ASSUME NEW S, NEW T, NEW s \in Seq(S), \A k \in 1..Len(s) : s[k] \in T
  PROVE  s \in Seq(T)
  OBVIOUS

\* The files after a request that was carried out.
LEMMA EffectType ==
  ASSUME card \in [Paths -> Held], NEW r \in Request, NEW c \in Effect(r)
  PROVE  /\ c \in [Paths -> Held]
         /\ r.op = "mkdir" => c[r.path] = Dir
         /\ r.op = "delete" => c[r.path] = Absent
         /\ r.op = "rename" /\ Can(r) => c[r.path] = Absent
         /\ r.op \in Queries \cup {"md5sum", "list", "read"} => c = card
<1>1. r.path \in Paths /\ r.to \in Paths /\ r.data \in Held /\ r.op \in Wires
  BY DEF Request, Held
<1>2. CASE r.op = "write"
  <2>1. PICK d \in {r.data} \cup Spoilt(r.data) : c = [card EXCEPT ![r.path] = d]
    BY <1>2 DEF Effect
  <2>2. d \in Held
    BY <1>1, BytesTypes, DataTypes
  <2> QED BY <1>1, <1>2, <2>1, <2>2 DEF Queries
<1>3. CASE r.op = "delete"
  BY <1>1, <1>3, DataTypes DEF Effect, Queries
<1>4. CASE r.op = "mkdir"
  BY <1>1, <1>4, DataTypes DEF Effect, Queries
<1>5. CASE r.op = "rename"
  <2>1. c = [card EXCEPT ![r.path] = Absent, ![r.to] = card[r.path]]
    BY <1>5 DEF Effect
  <2>2. Can(r) => r.path # r.to
    BY <1>5 DEF Can
  <2> QED BY <1>1, <1>5, <2>1, <2>2, DataTypes DEF Queries
<1>6. CASE r.op \notin {"write", "delete", "mkdir", "rename"}
  BY <1>6 DEF Effect
<1> QED BY <1>2, <1>3, <1>4, <1>5, <1>6

\* The files after one that was not.
LEMMA FailedType ==
  ASSUME card \in [Paths -> Held], NEW r \in Request, NEW c \in Failed(r)
  PROVE  c \in [Paths -> Held]
<1>1. c = card \/ \E d \in Spoilt(r.data) : c = [card EXCEPT ![r.path] = d]
  BY DEF Failed
<1>2. Spoilt(r.data) \subseteq Held
  BY BytesTypes, DataTypes
<1> QED BY <1>1, <1>2

\* The frames of an answer: all but the last announce another, and they carry what
\* the path holds.
AnswerFrames(r, frames) ==
    /\ frames \in Seq(Answer) /\ Len(frames) >= 1
    /\ \A k \in 1..Len(frames) :
         /\ frames[k].op = r.op /\ frames[k].ok
         /\ frames[k].more <=> k < Len(frames)
         /\ r.op = "read" => frames[k].data \in Data
         /\ r.op \in Queries \cup {"md5sum", "list"} => frames[k].data = card[r.path]

\* A reply is an answer.
LEMMA ReplyType ==
  ASSUME NEW r \in Request, NEW d \in Held, NEW more \in BOOLEAN
  PROVE  /\ Reply(r, d, more) \in Answer
         /\ Reply(r, d, more).op = r.op /\ Reply(r, d, more).ok
         /\ Reply(r, d, more).more = more /\ Reply(r, d, more).data = d
<1>1. r.op \in Wires
  BY DEF Request
<1>2. Reply(r, d, more) \in Answer
  BY <1>1 DEF Reply, Answer, Held
<1> QED BY <1>2 DEF Reply

\* An answer of one frame.
LEMMA OneFrame ==
  ASSUME NEW r \in Request, NEW d \in Held,
         r.op = "read" => d \in Data,
         r.op \in Queries \cup {"md5sum", "list"} => d = card[r.path]
  PROVE  AnswerFrames(r, <<Reply(r, d, FALSE)>>)
<1> DEFINE a == Reply(r, d, FALSE)
<1>1. a \in Answer /\ a.op = r.op /\ a.ok /\ ~a.more /\ a.data = d
  BY ReplyType
<1> HIDE DEF a
<1>2. <<a>> \in Seq(Answer) /\ Len(<<a>>) = 1 /\ <<a>>[1] = a
  BY <1>1
<1>3. ASSUME NEW k \in 1..Len(<<a>>)
      PROVE  /\ <<a>>[k].op = r.op /\ <<a>>[k].ok
             /\ <<a>>[k].more <=> k < Len(<<a>>)
             /\ r.op = "read" => <<a>>[k].data \in Data
             /\ r.op \in Queries \cup {"md5sum", "list"} => <<a>>[k].data = card[r.path]
  <2>1. k = 1 /\ <<a>>[k] = a /\ ~(k < Len(<<a>>))
    BY <1>2
  <2> QED BY <1>1, <2>1
<1>4. AnswerFrames(r, <<a>>)
  BY <1>2, <1>3 DEF AnswerFrames
<1> QED BY <1>4 DEF a

\* An answer of several; D is what they carry.
LEMMA SeveralFrames ==
  ASSUME NEW r \in Request, NEW n \in Nat, n >= 1, NEW D \in [1..n -> Held], NEW f,
         f = [k \in 1..n |-> Reply(r, D[k], k < n)],
         r.op = "read" => \A k \in 1..n : D[k] \in Data,
         r.op \in Queries \cup {"md5sum", "list"} => \A k \in 1..n : D[k] = card[r.path]
  PROVE  AnswerFrames(r, f)
<1>1. ASSUME NEW k \in 1..n
      PROVE  /\ f[k] \in Answer /\ f[k].op = r.op /\ f[k].ok
             /\ f[k].more = (k < n) /\ f[k].data = D[k]
  <2>1. D[k] \in Held /\ f[k] = Reply(r, D[k], k < n)
    OBVIOUS
  <2> DEFINE b == k < n
  <2>2. b \in BOOLEAN
    OBVIOUS
  <2>3. f[k] = Reply(r, D[k], b)
    BY <2>1
  <2> HIDE DEF b
  <2>4. f[k] \in Answer /\ f[k].op = r.op /\ f[k].ok /\ f[k].more = b /\ f[k].data = D[k]
    BY <2>1, <2>2, <2>3, ReplyType
  <2> QED BY <2>4 DEF b
<1>2. f \in [1..n -> Answer]
  BY <1>1
<1>3. f \in Seq(Answer) /\ Len(f) = n
  BY <1>2, FunctionIsSeq
<1>4. ASSUME NEW k \in 1..Len(f)
      PROVE  /\ f[k].op = r.op /\ f[k].ok
             /\ f[k].more <=> k < Len(f)
             /\ r.op = "read" => f[k].data \in Data
             /\ r.op \in Queries \cup {"md5sum", "list"} => f[k].data = card[r.path]
  <2>1. k \in 1..n /\ Len(f) = n
    BY <1>3
  <2>2. f[k].op = r.op /\ f[k].ok /\ f[k].data = D[k] /\ f[k].more = (k < n)
    BY <1>1, <2>1
  <2>3. f[k].more <=> k < Len(f)
    BY <2>1, <2>2
  <2> QED BY <2>1, <2>2, <2>3
<1> QED BY <1>3, <1>4 DEF AnswerFrames

\* The answers the device may give to a request it can carry out.
LEMMA RepliesType ==
  ASSUME card \in [Paths -> Held], NEW r \in Request, r.op # "frag", Can(r),
         NEW frames \in Replies(r)
  PROVE  AnswerFrames(r, frames)
<1> DEFINE d == card[r.path]
           n == IF d \in Bytes THEN IF d.cut = 0 THEN Frames[d.of] ELSE 1 ELSE 1
<1>1. d \in Held /\ r.op \in Wires /\ Empty \in Held
  BY DataTypes DEF Request
<1>2. r.op \in {"md5sum", "read"} => d \in Data
  BY <1>1, DataTypes DEF Can
<1>3. CASE r.op = "read" /\ n > 1
  <2>1. d \in Bytes /\ n = Frames[d.of] /\ d.of \in Names
    BY <1>3 DEF Bytes
  <2>2. n \in Nat /\ n <= MaxFrames /\ MaxFrames \in Nat
    BY <2>1, StorageAssumption, MaxFramesType
  <2> HIDE DEF n
  <2> DEFINE D == [k \in 1..n |-> [d EXCEPT !.cut = k]]
  <2>3. frames = [k \in 1..n |-> Reply(r, [d EXCEPT !.cut = k], k < n)]
    BY <1>3 DEF Replies, n
  <2> HIDE DEF d
  <2>4. \A k \in 1..n : [d EXCEPT !.cut = k] \in Bytes
    BY <2>1, <2>2 DEF Bytes
  <2>5. D \in [1..n -> Held] /\ \A k \in 1..n : D[k] \in Data
    BY <2>4, DataTypes
  <2>6. frames = [k \in 1..n |-> Reply(r, D[k], k < n)]
    BY <2>3
  <2>7. r.op \notin Queries \cup {"md5sum", "list"}
    BY <1>3 DEF Queries
  <2> HIDE DEF D
  <2> QED BY <1>3, <2>2, <2>5, <2>6, <2>7, SeveralFrames
<1>4. CASE r.op = "list"
  <2>1. PICK k \in 1..2 : frames = [i \in 1..k |-> Reply(r, d, i < k)]
    BY <1>4 DEF Replies
  <2> DEFINE D == [i \in 1..k |-> d]
  <2>2. D \in [1..k -> Held] /\ \A i \in 1..k : D[i] = card[r.path]
    BY <1>1
  <2>3. frames = [i \in 1..k |-> Reply(r, D[i], i < k)]
    BY <2>1
  <2>4. k \in Nat /\ k >= 1
    OBVIOUS
  <2> HIDE DEF D
  <2> QED BY <1>4, <2>2, <2>3, <2>4, SeveralFrames
<1>5. CASE r.op \in {"write", "mkdir", "delete", "rename"}
  <2>1. frames = <<Reply(r, Empty, FALSE)>>
    BY <1>5 DEF Replies
  <2>2. r.op # "read" /\ r.op \notin Queries \cup {"md5sum", "list"}
    BY <1>5 DEF Queries
  <2> QED BY <1>1, <2>1, <2>2, OneFrame
<1>6. CASE /\ ~(r.op = "read" /\ n > 1) /\ r.op # "list"
           /\ r.op \notin {"write", "mkdir", "delete", "rename"}
  <2>1. frames = <<Reply(r, d, FALSE)>>
    BY <1>6 DEF Replies
  <2> QED BY <1>1, <1>2, <2>1, OneFrame
<1> QED BY <1>3, <1>4, <1>5, <1>6

\* The calls see what their paths come to hold; what they ask for does not change.
LEMMA WitnessKeeps ==
  ASSUME StorageInv, card' \in [Paths -> Held], Witness, UNCHANGED <<lock, hostVars>>
  PROVE  /\ CallsOK' /\ CardIsKnown' /\ was \subseteq was' /\ was' \subseteq Held
         /\ PulledExisted'
         /\ \A t \in Calls : job[t].pc # "idle" =>
              /\ Asked(job'[t]) = Asked(job[t]) /\ Method(job'[t]) = Method(job[t])
              /\ job[t].held \subseteq job'[t].held /\ card'[job[t].path] \in job'[t].held
<1>1. was' = was \cup {card'[p] : p \in Paths}
  BY DEF Witness
<1>2. was \subseteq was' /\ was' \subseteq Held /\ CardIsKnown'
  BY <1>1 DEF StorageInv, TypeOK, CardIsKnown
<1>3. PulledExisted'
  BY <1>2, Facts DEF PulledExisted, hostVars
<1>4. ASSUME NEW t \in Calls
      PROVE  /\ job'[t] \in Job \cup {NoOp} /\ job'[t].pc = job[t].pc
             /\ job[t].pc # "idle" =>
                  /\ job'[t].op = job[t].op /\ job'[t].trip = job[t].trip
                  /\ job'[t].path = job[t].path /\ job'[t].to = job[t].to
                  /\ job'[t].data = job[t].data
                  /\ job'[t].held = job[t].held \cup {card'[job[t].path]}
  <2>1. CASE job[t].pc = "idle"
    <3>1. job'[t] = job[t]
      BY <2>1 DEF Witness
    <3> QED BY <2>1, <3>1, Facts DEF CallsOK
  <2>2. CASE job[t].pc # "idle"
    <3>1. job[t] \in Job
      BY <2>2, Facts, Begun DEF CallsOK
    <3>2. job'[t] = [job[t] EXCEPT !.held = job[t].held \cup {card'[job[t].path]}]
      BY <2>2 DEF Witness
    <3>3. card'[job[t].path] \in Held
      BY <3>1 DEF Job
    <3> QED BY <3>1, <3>2, <3>3 DEF Job, Held
  <2> QED BY <2>1, <2>2
<1>5. CallsOK'
  <2>1. job' \in [Calls -> Job \cup {NoOp}]
    <3>1. job' = [t \in Calls |-> job'[t]]
      BY DEF Witness
    <3> QED BY <1>4, <3>1
  <2>2. PullIsData'
    BY <1>4, Facts DEF CallsOK, PullIsData
  <2>3. LockIsHeld'
    BY <1>4, Facts DEF CallsOK, LockIsHeld
  <2> QED BY <2>1, <2>2, <2>3, Facts DEF CallsOK
<1>6. ASSUME NEW t \in Calls, job[t].pc # "idle"
      PROVE  /\ Asked(job'[t]) = Asked(job[t]) /\ Method(job'[t]) = Method(job[t])
             /\ job[t].held \subseteq job'[t].held /\ card'[job[t].path] \in job'[t].held
  BY <1>4, <1>6 DEF Asked, Method
<1> QED BY <1>2, <1>3, <1>5, <1>6

\* What was honest stays so, as the device's past only grows.
LEMMA HonestGrows ==
  ASSUME was \subseteq was'
  PROVE  Honest \subseteq Honest'
  BY DEF Honest

\* The parts of the invariant that a step of the device leaves to be shown.
LEMMA DeviceStep ==
  ASSUME StorageInv, card' \in [Paths -> Held], chain' \in BOOLEAN,
         CallsOK', CardIsKnown', was' \subseteq Held, PulledExisted', LinkInStep',
         todo' \in Seq(Request), rx' \in Seq(Honest'),
         UNCHANGED <<out, lock, trips, dirty, hostVars, enabled>>
  PROVE  StorageInv'
<1>1. Honest' \subseteq Answer
  BY DEF Honest
<1>2. rx' \in Seq(Answer)
  BY <1>1, SeqGrows
<1>3. TypeOK'
  BY <1>2 DEF StorageInv, TypeOK, CallsOK, hostVars
<1>4. AnswersAreHonest' /\ ResultHeld'
  BY Facts DEF AnswersAreHonest, ResultHeld
<1> QED BY <1>3, <1>4 DEF StorageInv, CallsOK

\* The frames of an answer are honest, and answer the round trip that asked.
LEMMA FramesFit ==
  ASSUME StorageInv, NEW r \in Request, r.op # "frag", Can(r), NEW c \in Effect(r), card' = c,
         Witness, UNCHANGED <<lock, hostVars>>, NEW frames \in Replies(r)
  PROVE  /\ frames \in Seq(Honest') /\ Len(frames) >= 1
         /\ \A t \in Calls : job[t].pc # "idle" /\ r = Asked(job[t]) =>
              \A k \in 1..Len(frames) :
                Answering(job'[t], frames[k]) /\ (frames[k].more <=> k < Len(frames))
<1>1. card \in [Paths -> Held] /\ CardIsKnown
  BY DEF StorageInv, TypeOK
<1>2. AnswerFrames(r, frames)
  BY <1>1, RepliesType
<1>3. /\ card' \in [Paths -> Held]
      /\ r.op = "mkdir" => card'[r.path] = Dir
      /\ r.op \in {"delete", "rename"} => card'[r.path] = Absent
      /\ r.op \in Queries \cup {"md5sum", "list", "read"} => card' = card
  BY <1>1, EffectType
<1>4. was \subseteq was' /\ card[r.path] \in was
  BY <1>1, <1>3, WitnessKeeps DEF CardIsKnown, Request
<1>5. ASSUME NEW k \in 1..Len(frames)
      PROVE  frames[k] \in Honest'
  <2>1. frames[k] \in Answer /\ frames[k].op = r.op
    BY <1>2, <1>5 DEF AnswerFrames
  <2>2. r.op = "md5sum" => frames[k].data \in was'
    BY <1>2, <1>4, <1>5 DEF AnswerFrames
  <2>3. r.op = "read" => frames[k].data \in Data
    BY <1>2, <1>5 DEF AnswerFrames
  <2> QED BY <2>1, <2>2, <2>3 DEF Honest
<1>6. frames \in Seq(Honest') /\ Len(frames) >= 1
  BY <1>2, <1>5, SeqOf DEF AnswerFrames
<1>7. ASSUME NEW t \in Calls, job[t].pc # "idle", r = Asked(job[t]), NEW k \in 1..Len(frames)
      PROVE  Answering(job'[t], frames[k]) /\ (frames[k].more <=> k < Len(frames))
  <2>1. job[t] \in Job
    BY <1>7, Begun, Facts DEF CallsOK
  <2>2. r.op = Method(job[t]) /\ r.path = job[t].path
    BY <1>7, <2>1, AskedType
  <2>3. Method(job'[t]) = r.op /\ card'[r.path] \in job'[t].held
    BY <1>3, <1>7, <2>2, WitnessKeeps
  <2>4. /\ frames[k].op = r.op
        /\ frames[k].more <=> k < Len(frames)
        /\ r.op \in Queries \cup {"md5sum", "list"} => frames[k].data = card[r.path]
    BY <1>2, <1>7 DEF AnswerFrames
  <2>5. Answering(job'[t], frames[k])
    BY <1>3, <2>3, <2>4 DEF Answering
  <2> QED BY <2>4, <2>5
<1> QED BY <1>6, <1>7

\* The device takes a request: in step it is that of the lock's holder, and the link
\* has nothing but the answer then.
LEMMA ServeKeeps ==
  ASSUME StorageInv, Serve
  PROVE  StorageInv'
<1> DEFINE r == Head(todo)
<1>1. /\ todo # <<>> /\ r.op # "frag" /\ todo' = Tail(todo) /\ chain' = FALSE /\ Witness
      /\ UNCHANGED <<out, lock, trips, dirty, hostVars, enabled>>
  BY DEF Serve
<1>2. r \in Request /\ todo' \in Seq(Request) /\ chain' \in BOOLEAN
  BY <1>1, Facts, HeadAndTail
<1>3. card \in [Paths -> Held]
  BY DEF StorageInv, TypeOK
<1>4. PICK first, fs :
        /\ first \in Interrupted
        /\ rx' = rx \o first \o fs
        /\ \/ Can(r) /\ card' \in Effect(r) /\ fs \in Replies(r)
           \/ card' \in Failed(r) /\ fs = <<Nothing>>
  BY DEF Serve
<1> HIDE DEF r
<1>5. card' \in [Paths -> Held]
  BY <1>2, <1>3, <1>4, EffectType, FailedType
<1>6. /\ CallsOK' /\ CardIsKnown' /\ was \subseteq was' /\ was' \subseteq Held
      /\ PulledExisted'
  BY <1>1, <1>5, WitnessKeeps
<1>7. Nothing \in Honest' /\ Honest \subseteq Honest' /\ \A j : Answering(j, Nothing)
  BY <1>6, HonestGrows, NothingIsHonest
<1>8. /\ fs \in Seq(Honest') /\ Len(fs) >= 1
      /\ \A t \in Calls : job[t].pc # "idle" /\ r = Asked(job[t]) =>
           \A k \in 1..Len(fs) : Answering(job'[t], fs[k]) /\ (fs[k].more <=> k < Len(fs))
  <2>1. CASE Can(r) /\ card' \in Effect(r) /\ fs \in Replies(r)
    BY <1>1, <1>2, <2>1, FramesFit DEF r
  <2>2. CASE fs = <<Nothing>>
    <3>1. fs \in Seq(Honest') /\ Len(fs) = 1 /\ fs[1] = Nothing
      BY <1>7, <2>2
    <3>2. ~Nothing.more
      BY DEF Nothing
    <3>3. \A k \in 1..Len(fs) : k = 1 /\ ~(k < Len(fs))
      BY <3>1
    <3> QED BY <1>7, <3>1, <3>2, <3>3
  <2> QED BY <1>4, <2>1, <2>2
<1>9. rx' \in Seq(Honest')
  <2>1. rx \in Seq(Honest')
    BY <1>7, Facts, SeqGrows
  <2>2. first \in Seq(Honest')
    <3>1. CASE first = <<>>
      BY <3>1
    <3>2. CASE first = <<Nothing>>
      BY <1>7, <3>2
    <3> QED BY <1>4, <3>1, <3>2 DEF Interrupted
  <2>3. rx \o first \in Seq(Honest')
    BY <2>1, <2>2, ConcatType
  <2> QED BY <1>4, <1>8, <2>3, ConcatType
<1>10. LinkInStep'
  <2> SUFFICES ASSUME ~dirty
               PROVE  /\ ~chain'
                      /\ lock' = NoCall => todo' = <<>> /\ rx' = <<>>
                      /\ lock' # NoCall => RoundTrip(job[lock])'
    BY <1>1 DEF LinkInStep
  <2>1. ~chain /\ lock # NoCall /\ RoundTrip(job[lock])
    BY <1>1, Facts DEF LinkInStep
  <2>2. lock \in Calls /\ job[lock].pc = "wait"
    BY <2>1, Facts DEF CallsOK, LockIsHeld
  <2>3. rx = <<>> /\ todo = <<Asked(job[lock])>>
    BY <1>1, <2>1 DEF RoundTrip
  <2>4. r = Asked(job[lock]) /\ todo' = <<>>
    BY <1>1, <2>3 DEF r
  <2>5. first = <<>> /\ rx' = fs
    <3>1. first = <<>>
      BY <1>4, <2>1 DEF Interrupted
    <3>2. rx' = <<>> \o <<>> \o fs /\ <<>> \o <<>> = <<>>
      BY <1>4, <2>3, <3>1
    <3>3. <<>> \o fs = fs
      BY <1>8, EmptyConcat
    <3> QED BY <3>1, <3>2, <3>3
  <2>6. fs # <<>>
    BY <1>8
  <2>7. \A k \in 1..Len(fs) : Answering(job'[lock], fs[k]) /\ (fs[k].more <=> k < Len(fs))
    BY <1>8, <2>2, <2>4
  <2>8. RoundTrip(job[lock])'
    BY <1>1, <2>4, <2>5, <2>6, <2>7 DEF RoundTrip
  <2>9. ~chain'
    BY <1>1
  <2> QED BY <1>1, <2>1, <2>8, <2>9
<1> QED BY <1>1, <1>2, <1>5, <1>6, <1>9, <1>10, DeviceStep

\* The fragments of an unfinished write, which only a link out of step has.
LEMMA FragmentKeeps ==
  ASSUME StorageInv, Fragment
  PROVE  StorageInv'
<1> DEFINE r == Head(todo)
<1>1. /\ todo # <<>> /\ r.op = "frag" /\ todo' = Tail(todo) /\ chain' = TRUE /\ Witness
      /\ card' \in {card} \cup {[card EXCEPT ![r.path] = d] : d \in Damaged(r.data)}
      /\ UNCHANGED <<out, lock, rx, trips, dirty, hostVars, enabled>>
  BY DEF Fragment
<1>2. r \in Request /\ todo' \in Seq(Request) /\ chain' \in BOOLEAN
  BY <1>1, Facts, HeadAndTail
<1>3. card' \in [Paths -> Held]
  <2>1. Damaged(r.data) \subseteq Held /\ card \in [Paths -> Held]
    BY BytesTypes, DataTypes DEF StorageInv, TypeOK
  <2> HIDE DEF r
  <2> QED BY <1>1, <2>1
<1>4. /\ CallsOK' /\ CardIsKnown' /\ was \subseteq was' /\ was' \subseteq Held
      /\ PulledExisted'
  BY <1>1, <1>3, WitnessKeeps
<1>5. rx' \in Seq(Honest')
  BY <1>1, <1>4, Facts, HonestGrows, SeqGrows
<1>6. dirty
  <2> SUFFICES ASSUME ~dirty PROVE FALSE
    OBVIOUS
  <2>1. lock # NoCall /\ RoundTrip(job[lock])
    BY <1>1, Facts DEF LinkInStep
  <2>2. lock \in Calls /\ job[lock] \in Job
    BY <2>1, Facts, Begun DEF CallsOK, LockIsHeld
  <2>3. r = Asked(job[lock])
    BY <1>1, <2>1 DEF RoundTrip
  <2>4. r.op = Method(job[lock]) /\ Method(job[lock]) # "frag"
    BY <2>2, <2>3, AskedType, MethodType
  <2> QED BY <1>1, <2>4
<1>7. LinkInStep'
  BY <1>1, <1>6 DEF LinkInStep
<1> QED BY <1>1, <1>2, <1>3, <1>4, <1>5, <1>7, DeviceStep

-----------------------------------------------------------------------------
(* The theorems. *)

\* The first state.
LEMMA InitStorage == Init => StorageInv
<1> SUFFICES ASSUME Init PROVE StorageInv
  OBVIOUS
<1>1. \A c \in Names : Whole(c) \in Data
  BY BytesTypes, DataTypes
<1>2. job \in [Calls -> Job \cup {NoOp}] /\ \A t \in Calls : job[t].pc = "idle"
  BY DEF Init, NoOp
<1>3. /\ card \in [Paths -> Held] /\ host \in [Files -> Data \cup {Absent}]
      /\ was \subseteq Held
  BY <1>1, DataTypes DEF Init
<1>4. out \in Outcome /\ ResultHeld
  BY DEF Init, Raised, Outcome, ResultHeld
<1>5. chain \in BOOLEAN /\ enabled \in BOOLEAN /\ dirty \in BOOLEAN
  BY DEF Init
<1>6. trips \in 0..MaxTrips
  BY StorageAssumption DEF Init
<1>7. TypeOK
  BY <1>2, <1>3, <1>4, <1>5, <1>6 DEF Init, TypeOK
<1>8. AnswersAreHonest /\ CardIsKnown
  BY DEF Init, AnswersAreHonest, CardIsKnown
<1>9. PullIsData /\ LockIsHeld
  BY <1>2, StorageAssumption DEF Init, PullIsData, LockIsHeld
<1>10. LinkInStep /\ PulledExisted
  BY DEF Init, LinkInStep, PulledExisted
<1> QED BY <1>4, <1>7, <1>8, <1>9, <1>10 DEF StorageInv

\* Every step of every call and of the device keeps StorageInv.
LEMMA NextStorage == StorageInv /\ [Next]_vars => StorageInv'
<1> SUFFICES ASSUME StorageInv, [Next]_vars PROVE StorageInv'
  OBVIOUS
<1>1. ASSUME NEW t \in Calls, NEW op \in Ops, Begin(t, op) \/ Refuse(t, op)
      PROVE  StorageInv'
  BY <1>1, BeginKeeps, RefuseKeeps
<1>2. ASSUME NEW t \in Calls, Ask(t) \/ Receive(t) \/ TimeOut(t) \/ Cancel(t)
      PROVE  StorageInv'
  BY <1>2, AskKeeps, ReceiveKeeps, TimeOutKeeps, CancelKeeps
<1>3. CASE Serve \/ Fragment
  BY <1>3, ServeKeeps, FragmentKeeps
<1>4. CASE UNCHANGED vars
  <2>1. UNCHANGED <<job, out, lock, todo, rx, trips, dirty, chain, card, was, host, last, enabled>>
    BY <1>4 DEF vars, linkVars, deviceVars, hostVars
  <2>2. TypeOK'
    BY <2>1 DEF StorageInv, TypeOK
  <2>3. AnswersAreHonest' /\ CardIsKnown' /\ PullIsData' /\ LockIsHeld'
    BY <2>1 DEF StorageInv, AnswersAreHonest, Honest, CardIsKnown, PullIsData, LockIsHeld
  <2>4. LinkInStep' /\ ResultHeld' /\ PulledExisted'
    BY <2>1 DEF StorageInv, LinkInStep, RoundTrip, ResultHeld, PulledExisted
  <2> QED BY <2>2, <2>3, <2>4 DEF StorageInv
<1> QED BY <1>1, <1>2, <1>3, <1>4 DEF Next

\* The inductive invariant holds in every reachable state.
THEOREM StorageInvariant == Spec => []StorageInv
  BY InitStorage, NextStorage, PTL DEF Spec

\* Every call, frame and file keeps its type; in particular what a pull writes to the
\* host is data, never the lack of a file.
THEOREM StorageTypes == Spec => []TypeOK
<1>1. StorageInv => TypeOK
  BY DEF StorageInv
<1> QED BY <1>1, StorageInvariant, PTL

\* On a link in step, what a storage tool returns was true of the device's file during
\* the call, for any number of concurrent calls, paths, contents and frames.
THEOREM ResultsHold == Spec => []ResultHeld
<1>1. StorageInv => ResultHeld
  BY DEF StorageInv
<1> QED BY <1>1, StorageInvariant, PTL

\* A local file whose last pull returned holds what the device once held whole, even
\* on a link out of step.
THEOREM PullsExisted == Spec => []PulledExisted
<1>1. StorageInv => PulledExisted
  BY DEF StorageInv
<1> QED BY <1>1, StorageInvariant, PTL
=============================================================================
