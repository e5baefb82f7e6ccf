----------------------- MODULE ExpansionModuleProofs -----------------------
(***************************************************************************)
(* Proofs about ExpansionModule, for any watchdog, number of polls, chunks *)
(* and queue lengths: ExpansionInv is inductive, so a handshake runs at    *)
(* the initial rate whatever the tasks do to the state they share.         *)
(***************************************************************************)
EXTENDS ExpansionModule, TLAPS

-----------------------------------------------------------------------------
(* The parts the actions are made of. *)

\* A UART's queue takes a frame or drops it.
LEMMA ArriveType ==
  ASSUME NEW S, NEW q \in Seq(S), NEW f \in S, NEW max \in Nat, Len(q) <= max
  PROVE  Arrive(q, f, max) \in Seq(S) /\ Len(Arrive(q, f, max)) <= max
<1>1. CASE Len(q) < max
  <2>1. Append(q, f) \in Seq(S) /\ Len(Append(q, f)) = Len(q) + 1
    OBVIOUS
  <2> QED BY <1>1, <2>1 DEF Arrive
<1>2. CASE ~(Len(q) < max)
  BY <1>2 DEF Arrive
<1> QED BY <1>1, <1>2

\* The rest of a queue.
LEMMA TailType ==
  ASSUME NEW S, NEW q \in Seq(S), q # <<>>, NEW max \in Nat, Len(q) <= max
  PROVE  Head(q) \in S /\ Tail(q) \in Seq(S) /\ Len(Tail(q)) <= max
<1>1. Len(Tail(q)) = Len(q) - 1
  OBVIOUS
<1> QED BY <1>1

\* The types of what the sending tasks share.
TxOK ==
    /\ mid \subseteq Tasks /\ torn \in BOOLEAN
    /\ out \in Seq(Requests) /\ Len(out) <= MaxOut

\* The first write of a frame.
LEMMA WriteFrameType ==
  ASSUME TxOK, NEW t \in Tasks, WriteFrame(t)
  PROVE  TxOK'
  BY DEF TxOK, WriteFrame

\* Its checksum.
LEMMA WriteChecksumType ==
  ASSUME TxOK, NEW t \in Tasks, NEW f \in Requests, WriteChecksum(t, f)
  PROVE  TxOK'
<1> DEFINE g == IF torn \/ baud # fl.baud THEN "noise" ELSE f
<1>1. g \in Requests
  BY DEF Requests
<1>2. out' = Arrive(out, g, MaxOut)
  BY DEF WriteChecksum
<1>3. out' \in Seq(Requests) /\ Len(out') <= MaxOut
  <2>1. MaxOut \in Nat /\ out \in Seq(Requests) /\ Len(out) <= MaxOut
    BY ExpansionAssumption DEF TxOK
  <2> HIDE DEF g
  <2> QED BY <1>1, <1>2, <2>1, ArriveType
<1>4. mid' \subseteq Tasks /\ torn' \in BOOLEAN
  BY DEF WriteChecksum, TxOK
<1> QED BY <1>3, <1>4 DEF TxOK

\* Where uart_rx_task may be.
RxPCs == {"read", "callback", "process", "delay", "switched", "due", "beat"}

\* Where flipper_connect_task may be.
Cons == [pc : {"boot", "check", "called", "pulse", "poll", "give_up", "stop", "rest"},
         polls : 0..(MaxPolls - 1)]

\* At the end of a round uart_rx_task reads again or has a heartbeat to send; the
\* state is the one it was, or ERROR.
LEMMA RoundEndsType ==
  ASSUME NEW s \in States, NEW n \in Nat, RoundEnds(s, n)
  PROVE  /\ state' \in {s, "ERROR"}
         /\ silent' \in 0..(Silence + 1)
         /\ rx' \in [pc : RxPCs, send : Requests]
         /\ rx'.pc \in {"read", "due"}
<1>1. state' \in {s, "ERROR"}
  BY DEF RoundEnds
<1>2. silent' \in 0..(Silence + 1)
  BY ExpansionAssumption DEF RoundEnds, Least
<1>3. rx' \in {Reading, Due}
  BY DEF RoundEnds
<1>4. rx' \in [pc : RxPCs, send : Requests] /\ rx'.pc \in {"read", "due"}
  BY <1>3 DEF Reading, Due, RxPCs, Requests
<1> QED BY <1>1, <1>2, <1>4

-----------------------------------------------------------------------------
(* What each step preserves. *)

\* The invariant without the types, which is about four variables only.
Watched == HandshakeAtInitialBaud /\ HandshakeIsWatched /\ SwitchIsWatched

\* All of it but what only expansion_send_rpc() is about.
TaskInv == TypeOK /\ Watched

\* A step that goes to no handshake and enters no baud switch, and changes nothing
\* else that matters, keeps the tasks in step.
LEMMA WatchedKept ==
  ASSUME Watched, UNCHANGED <<baud, con>>,
         state' \notin {"AWAITING_HEARTBEAT", "BAUD_NEGOTIATION"} \/ state' = state,
         rx'.pc \notin {"delay", "switched"},
         rx.pc # "switched"
  PROVE  Watched'
  BY DEF Watched, HandshakeAtInitialBaud, HandshakeIsWatched, SwitchIsWatched

\* A restarted bridge is in its initial state.
LEMMA PanicKeeps ==
  ASSUME TaskInv, Panic
  PROVE  TaskInv'
<1> USE DEF TaskInv
<1>1. TypeOK'
  <2>1. state' \in States /\ baud' \in Bauds /\ silent' \in 0..(Silence + 1) /\ kept' \in BOOLEAN
    BY ExpansionAssumption DEF Panic, States, Bauds
  <2>2. rx' \in [pc : RxPCs, send : Requests]
    BY DEF Panic, Reading, RxPCs, Requests
  <2>3. con' \in Cons
    BY ExpansionAssumption DEF Panic, Booting, Cons
  <2>4. tcp' \in [pc : {"idle", "frame", "gap"}, left : 0..(MaxChunks - 1)]
    BY ExpansionAssumption DEF Panic, NotSending
  <2>5. mid' \subseteq Tasks /\ torn' \in BOOLEAN
    BY DEF Panic
  <2>6. in' \in Seq(Replies) /\ Len(in') <= MaxIn
    BY ExpansionAssumption DEF Panic
  <2> QED BY <2>1, <2>2, <2>3, <2>4, <2>5, <2>6 DEF TypeOK, Panic, RxPCs, Cons
<1>2. Watched'
  BY DEF Panic, Watched, HandshakeAtInitialBaud, HandshakeIsWatched, SwitchIsWatched, Reading
<1> QED BY <1>1, <1>2 DEF Watched

\* process_frame() on a good frame: it sends, waits to switch the rate, or returns.
LEMMA RxFrameKeeps ==
  ASSUME TaskInv, RxFrame
  PROVE  TaskInv'
<1> USE DEF TaskInv
<1> DEFINE f == Head(in)
<1>1. /\ con.pc \notin {"boot", "pulse"} /\ rx.pc = "read" /\ in # <<>>
      /\ in' = Tail(in) /\ kept' = TRUE
      /\ Process(f)
      /\ UNCHANGED <<baud, con, tcp, fl>>
  BY DEF RxFrame, Running
<1>2. in' \in Seq(Replies) /\ Len(in') <= MaxIn
  BY <1>1, TailType, ExpansionAssumption DEF TypeOK
<1>3. TxOK
  BY DEF TypeOK, TxOK
<1>4. ASSUME NEW s \in States, NEW g \in Requests, Send(s, g)
      PROVE  /\ state' = s /\ TxOK' /\ rx'.pc = "process"
             /\ rx' \in [pc : RxPCs, send : Requests]
  BY <1>3, <1>4, WriteFrameType DEF Send, RxPCs, Tasks
<1>5. ASSUME NEW s \in States, Become(s)
      PROVE  /\ state' \in {s, "ERROR"} /\ TxOK' /\ rx'.pc \in {"read", "due"}
             /\ rx' \in [pc : RxPCs, send : Requests] /\ silent' \in 0..(Silence + 1)
  <2>1. TxOK'
    BY <1>3, <1>5 DEF Become, txVars, TxOK
  <2> QED BY <2>1, <1>5, RoundEndsType DEF Become
<1>6. state \in States /\ 0 \in 0..(Silence + 1)
  BY ExpansionAssumption DEF TypeOK
<1>7. ASSUME state' \in States, silent' \in 0..(Silence + 1), TxOK',
             rx' \in [pc : RxPCs, send : Requests]
      PROVE  TypeOK'
  BY <1>1, <1>2, <1>7 DEF TypeOK, TxOK, RxPCs
<1>8. CASE state = "AWAITING_HEARTBEAT" /\ f = "heartbeat"
  <2>1. Send("BAUD_NEGOTIATION", "baud") /\ silent' = 0
    BY <1>1, <1>8 DEF Process
  <2>2. state' = "BAUD_NEGOTIATION" /\ TxOK' /\ rx'.pc = "process"
        /\ rx' \in [pc : RxPCs, send : Requests]
    BY <2>1, <1>4 DEF States, Requests
  <2>3. TypeOK'
    BY <2>1, <2>2, <1>6, <1>7 DEF States
  <2>4. Watched'
    BY <1>1, <1>8, <2>2 DEF Watched, HandshakeAtInitialBaud, HandshakeIsWatched, SwitchIsWatched
  <2> QED BY <2>3, <2>4 DEF Watched
<1>9. CASE state = "BAUD_NEGOTIATION" /\ f = "ok"
  <2>1. rx' = [rx EXCEPT !.pc = "delay"] /\ silent' = 0 /\ UNCHANGED <<state, txVars>>
    BY <1>1, <1>9 DEF Process
  <2>2. rx' \in [pc : RxPCs, send : Requests] /\ rx'.pc = "delay"
    BY <2>1 DEF TypeOK, RxPCs
  <2>3. TypeOK'
    BY <2>1, <2>2, <1>3, <1>6, <1>7 DEF txVars, TxOK
  <2>4. Watched'
    BY <1>1, <1>9, <2>1, <2>2 DEF Watched, HandshakeAtInitialBaud, HandshakeIsWatched, SwitchIsWatched
  <2> QED BY <2>3, <2>4 DEF Watched
<1>10. ASSUME state' \notin {"AWAITING_HEARTBEAT", "BAUD_NEGOTIATION"} \/ state' = state,
              rx'.pc \notin {"delay", "switched"}
       PROVE  Watched'
  BY <1>1, <1>10, WatchedKept DEF Watched
<1>11. ASSUME NEW s \in States, NEW g \in Requests, Send(s, g), silent' = 0,
              s \notin {"AWAITING_HEARTBEAT", "BAUD_NEGOTIATION"}
       PROVE  TaskInv'
  BY <1>4, <1>6, <1>7, <1>10, <1>11 DEF Watched
<1>12. ASSUME NEW s \in States, Become(s),
              s \notin {"AWAITING_HEARTBEAT", "BAUD_NEGOTIATION"} \/ s = state
       PROVE  TaskInv'
  <2>1. state' \in {s, "ERROR"} /\ TxOK' /\ rx'.pc \in {"read", "due"}
        /\ rx' \in [pc : RxPCs, send : Requests] /\ silent' \in 0..(Silence + 1)
    BY <1>5, <1>12
  <2>2. state' \in States
    BY <2>1 DEF States
  <2> QED BY <2>1, <2>2, <1>7, <1>10, <1>12 DEF Watched
<1>13. \/ Send("RPC_STARTING", "start") /\ silent' = 0
       \/ Become("RPC_ACTIVE") \/ Become("ERROR") \/ Become(state)
       \/ state = "RPC_ACTIVE" /\ Send(state, "ok") /\ silent' = 0
       \/ Forward /\ silent' = 0
       \/ state = "RPC_ACTIVE" /\ Send(state, "heartbeat") /\ silent' = 0
       \/ state = "AWAITING_HEARTBEAT" /\ f = "heartbeat"
       \/ state = "BAUD_NEGOTIATION" /\ f = "ok"
  BY <1>1 DEF Process
<1>14. {"RPC_STARTING", "RPC_ACTIVE", "ERROR"} \subseteq States /\ {"start", "ok", "heartbeat"} \subseteq Requests
  BY DEF States, Requests
<1>15. CASE Forward /\ silent' = 0
  <2>1. rx' \in [pc : RxPCs, send : Requests] /\ rx'.pc = "callback" /\ state' = state /\ TxOK'
    BY <1>3, <1>15 DEF Forward, TypeOK, RxPCs, txVars, TxOK
  <2> QED BY <1>6, <1>7, <1>10, <1>15, <2>1 DEF Watched
<1> QED BY <1>6, <1>8, <1>9, <1>11, <1>12, <1>13, <1>14, <1>15

\* The callback has returned, and the frame is acknowledged.
LEMMA RxForwardedKeeps ==
  ASSUME TaskInv, RxForwarded
  PROVE  TaskInv'
<1> USE DEF TaskInv
<1>1. /\ rx.pc = "callback" /\ Send(state, "ok") /\ silent' \in {silent, Silence + 1}
      /\ UNCHANGED <<baud, kept, con, tcp, in, fl>>
  BY DEF RxForwarded
<1>2. /\ state' = state /\ rx'.pc = "process" /\ rx' \in [pc : RxPCs, send : Requests]
  BY <1>1 DEF Send, RxPCs, Requests
<1>3. TxOK'
  BY <1>1, WriteFrameType DEF TypeOK, TxOK, Send, Tasks
<1>4. silent' \in 0..(Silence + 1)
  BY <1>1, ExpansionAssumption DEF TypeOK
<1>5. TypeOK'
  BY <1>1, <1>2, <1>3, <1>4 DEF TypeOK, TxOK, RxPCs
<1>6. Watched'
  BY <1>1, <1>2, WatchedKept DEF Watched
<1> QED BY <1>5, <1>6 DEF Watched

\* The other steps of uart_rx_task that end a round: noise, silence, a frame sent.
LEMMA RxRoundKeeps ==
  ASSUME TaskInv, RxNoise \/ RxIdle \/ RxSent
  PROVE  TaskInv'
<1> USE DEF TaskInv
<1>1. UNCHANGED <<baud, kept, con, tcp, fl>> /\ rx.pc \in {"read", "process"}
  BY DEF RxNoise, RxIdle, RxSent
<1>2. PICK s \in {"ERROR", state} : \E n \in Nat : RoundEnds(s, n)
  <2>1. silent \in Nat /\ silent + 1 \in Nat
    BY ExpansionAssumption DEF TypeOK
  <2> QED BY <2>1 DEF RxNoise, RxIdle, RxSent
<1>3. s \in States
  BY DEF TypeOK, States
<1>4. /\ state' \in {s, "ERROR"} /\ silent' \in 0..(Silence + 1)
      /\ rx' \in [pc : RxPCs, send : Requests] /\ rx'.pc \in {"read", "due"}
  BY <1>2, <1>3, RoundEndsType
<1>5. state' \in States
  BY <1>3, <1>4 DEF States
<1>6. in' \in Seq(Replies) /\ Len(in') <= MaxIn
  <2>1. CASE RxNoise
    BY <2>1, TailType, ExpansionAssumption DEF TypeOK, RxNoise
  <2>2. CASE RxIdle \/ RxSent
    BY <2>2 DEF TypeOK, RxIdle, RxSent
  <2> QED BY <2>1, <2>2
<1>7. TxOK'
  <2>1. TxOK /\ rx.send \in Requests
    BY DEF TypeOK, TxOK
  <2>2. CASE RxNoise \/ RxIdle
    BY <2>1, <2>2 DEF RxNoise, RxIdle, txVars, TxOK
  <2>3. CASE RxSent
    BY <2>1, <2>3, WriteChecksumType DEF RxSent, Tasks
  <2> QED BY <2>2, <2>3
<1>8. TypeOK'
  BY <1>1, <1>4, <1>5, <1>6, <1>7 DEF TypeOK, TxOK, RxPCs
<1>9. Watched'
  BY <1>1, <1>2, <1>4, WatchedKept DEF Watched
<1> QED BY <1>8, <1>9 DEF Watched

\* The two halves of the baud switch.
LEMMA RxSwitchKeeps ==
  ASSUME TaskInv, RxSwitch \/ RxStart
  PROVE  TaskInv'
<1> USE DEF TaskInv
<1>1. CASE RxSwitch
  <2>1. rx' \in [pc : RxPCs, send : Requests] /\ rx'.pc = "switched" /\ baud' \in Bauds
    BY <1>1 DEF RxSwitch, TypeOK, RxPCs, Bauds
  <2>2. TypeOK'
    BY <1>1, <2>1 DEF TypeOK, RxSwitch, txVars, RxPCs
  <2>3. Watched'
    BY <1>1, <2>1 DEF RxSwitch, Watched, HandshakeAtInitialBaud, HandshakeIsWatched, SwitchIsWatched
  <2> QED BY <2>2, <2>3 DEF Watched
<1>2. CASE RxStart
  <2>1. rx' \in [pc : RxPCs, send : Requests] /\ rx'.pc = "process" /\ state' = "RPC_STARTING"
    BY <1>2 DEF RxStart, Send, RxPCs, Requests
  <2>2. TxOK'
    BY <1>2, WriteFrameType DEF TypeOK, TxOK, RxStart, Send, Tasks
  <2>3. TypeOK'
    BY <1>2, <2>1, <2>2 DEF TypeOK, TxOK, RxStart, RxPCs, States
  <2>4. Watched'
    BY <1>2, <2>1 DEF RxStart, Watched, HandshakeAtInitialBaud, HandshakeIsWatched, SwitchIsWatched
  <2> QED BY <2>3, <2>4 DEF Watched
<1> QED BY <1>1, <1>2

\* The heartbeats of a session.
LEMMA RxBeatKeeps ==
  ASSUME TaskInv, RxBeat \/ RxBeaten
  PROVE  TaskInv'
<1> USE DEF TaskInv
<1>1. UNCHANGED <<state, baud, silent, kept, con, tcp, in, fl>> /\ rx.pc # "switched"
  BY DEF RxBeat, RxBeaten, Due
<1>2. rx' \in [pc : RxPCs, send : Requests] /\ rx'.pc \in {"read", "beat"}
  BY DEF RxBeat, RxBeaten, Due, Reading, RxPCs, Requests
<1>3. TxOK /\ rx.send \in Requests
  BY DEF TypeOK, TxOK
<1>4. TxOK'
  BY <1>3, WriteFrameType, WriteChecksumType DEF RxBeat, RxBeaten, Tasks
<1>5. TypeOK'
  BY <1>1, <1>2, <1>4 DEF TypeOK, TxOK, RxPCs
<1>6. Watched'
  BY <1>1, <1>2, WatchedKept DEF Watched
<1> QED BY <1>5, <1>6 DEF Watched

\* A step of uart_rx_task.
LEMMA RxKeeps ==
  ASSUME TaskInv, RxStep
  PROVE  TaskInv'
<1>1. CASE RxWraps
  BY <1>1, PanicKeeps DEF RxWraps
<1> QED BY <1>1, RxFrameKeeps, RxRoundKeeps, RxSwitchKeeps, RxBeatKeeps DEF RxStep

\* expansion_init() after the wait for WiFi.
LEMMA WifiUpKeeps ==
  ASSUME TaskInv, WifiUp
  PROVE  TaskInv'
<1> USE DEF TaskInv
<1>1. con' \in Cons /\ con'.pc = "rest"
  BY ExpansionAssumption DEF WifiUp, Resting, Cons
<1>2. in' \in Seq(Replies) /\ Len(in') <= MaxIn
  BY ExpansionAssumption DEF WifiUp
<1>3. TypeOK'
  BY <1>1, <1>2 DEF TypeOK, WifiUp, Cons, txVars
<1>4. Watched'
  BY <1>1 DEF WifiUp, Watched, HandshakeAtInitialBaud, HandshakeIsWatched, SwitchIsWatched
<1> QED BY <1>3, <1>4 DEF Watched

\* uart_rx_task is suspended.
LEMMA SuspendKeeps ==
  ASSUME TaskInv, Suspend
  PROVE  TaskInv'
<1> USE DEF TaskInv
<1>1. con' \in Cons /\ con'.pc = "pulse"
  BY DEF Suspend, TypeOK, Cons
<1>2. TypeOK'
  BY <1>1 DEF TypeOK, Suspend, Cons, txVars
<1>3. Watched'
  BY <1>1 DEF Suspend, Watched, HandshakeAtInitialBaud, HandshakeIsWatched, SwitchIsWatched
<1> QED BY <1>2, <1>3 DEF Watched

\* expansion_connect() calls the Flipper at the initial rate; no baud switch is under
\* way, since the task has rested.
LEMMA ConnectKeeps ==
  ASSUME TaskInv, Connect
  PROVE  TaskInv'
<1> USE DEF TaskInv
<1>1. con' \in Cons /\ con'.pc = "called"
  BY DEF Connect, TypeOK, Cons
<1>2. /\ state' \in States /\ baud' \in Bauds /\ silent' \in 0..(Silence + 1) /\ kept' \in BOOLEAN
      /\ UNCHANGED <<rx, tcp, mid, torn, out, in, fl>>
  <2>1. kept' \in BOOLEAN
    BY DEF Connect
  <2>2. state' \in States /\ baud' \in Bauds /\ silent' \in 0..(Silence + 1)
    BY ExpansionAssumption DEF Connect, States, Bauds
  <2> QED BY <2>1, <2>2 DEF Connect, txVars
<1>3. TypeOK'
  BY <1>1, <1>2 DEF TypeOK, Cons
<1>4. Watched'
  BY <1>1 DEF Connect, Watched, HandshakeAtInitialBaud, HandshakeIsWatched, SwitchIsWatched
<1> QED BY <1>3, <1>4

\* The presence pulse.
LEMMA PulseKeeps ==
  ASSUME TaskInv, Pulse
  PROVE  TaskInv'
<1> USE DEF TaskInv
<1>1. con' \in Cons /\ con'.pc = "poll"
  BY ExpansionAssumption DEF Pulse, Cons
<1>2. in' \in Seq(Replies) /\ Len(in') <= MaxIn
  <2>1. CASE in' = <<>>
    BY <2>1, ExpansionAssumption
  <2>2. CASE in' = <<Heard("heartbeat", fl.baud)>>
    <3>1. in' \in Seq(Replies) /\ Len(in') = 1
      BY <2>2 DEF Heard, Replies
    <3> QED BY <3>1, ExpansionAssumption
  <2> QED BY <2>1, <2>2 DEF Pulse
<1>3. out' \in Seq(Requests) /\ Len(out') <= MaxOut
  <2>1. out \in Seq(Requests) /\ Len(out) <= MaxOut /\ MaxOut \in Nat /\ "noise" \in Requests
    BY ExpansionAssumption DEF TypeOK, Requests
  <2>2. out' = <<>> \/ out' = out \/ out' = Arrive(out, "noise", MaxOut)
    BY DEF Pulse
  <2>3. CASE out' = <<>>
    BY <2>3, ExpansionAssumption
  <2> QED BY <2>1, <2>2, <2>3, ArriveType
<1>4. fl' \in [pc : {"off", "idle", "baud", "start", "rpc", "unacked"}, baud : Bauds]
  BY DEF Pulse, TypeOK
<1>5. TypeOK'
  BY <1>1, <1>2, <1>3, <1>4 DEF TypeOK, Pulse, Cons
<1>6. Watched'
  BY <1>1 DEF Pulse, Watched, HandshakeAtInitialBaud, HandshakeIsWatched, SwitchIsWatched
<1> QED BY <1>5, <1>6 DEF Watched

\* A look at the attempt, which ends the watch only when the session is there.
LEMMA PollKeeps ==
  ASSUME TaskInv, Poll
  PROVE  TaskInv'
<1> USE DEF TaskInv
<1>1. /\ con' \in Cons /\ con'.pc \in {"check", "give_up", "poll"}
      /\ con'.pc = "check" => state = "RPC_ACTIVE"
  <2>1. con \in Cons /\ con.pc = "poll" /\ MaxPolls \in Nat \ {0}
    BY ExpansionAssumption DEF TypeOK, Poll, Cons
  <2>2. CASE state = "RPC_ACTIVE"
    BY <2>1, <2>2 DEF Poll, Cons
  <2>3. CASE state # "RPC_ACTIVE" /\ (state = "ERROR" \/ con.polls + 1 = MaxPolls)
    BY <2>1, <2>3 DEF Poll, Cons
  <2>4. CASE state # "RPC_ACTIVE" /\ ~(state = "ERROR" \/ con.polls + 1 = MaxPolls)
    BY <2>1, <2>4 DEF Poll, Cons
  <2> QED BY <2>2, <2>3, <2>4
<1>2. TypeOK'
  BY <1>1 DEF TypeOK, Poll, Cons, txVars
<1>3. Watched'
  BY <1>1 DEF Poll, Watched, HandshakeAtInitialBaud, HandshakeIsWatched, SwitchIsWatched
<1> QED BY <1>2, <1>3 DEF Watched

\* expansion_disconnect(), with or without a session to stop.
LEMMA DisconnectKeeps ==
  ASSUME TaskInv, GiveUp \/ Stopped
  PROVE  TaskInv'
<1> USE DEF TaskInv
<1>1. Disconnect /\ UNCHANGED <<silent, rx, tcp, in, fl>> /\ con.pc \in {"give_up", "stop"}
  BY DEF GiveUp, Stopped
<1>2. con' \in Cons /\ con'.pc = "rest"
  BY <1>1, ExpansionAssumption DEF Disconnect, Resting, Cons
<1>3. TxOK'
  <2>1. TxOK
    BY DEF TypeOK, TxOK
  <2>2. CASE GiveUp
    BY <2>1, <2>2 DEF GiveUp, txVars, TxOK
  <2>3. CASE Stopped
    BY <2>1, <2>3, WriteChecksumType DEF Stopped, Tasks, Requests
  <2> QED BY <2>2, <2>3
<1>4. TypeOK'
  BY <1>1, <1>2, <1>3 DEF TypeOK, TxOK, Disconnect, Cons, States, Bauds
<1>5. Watched'
  BY <1>1, <1>2 DEF Disconnect, Watched, HandshakeAtInitialBaud, HandshakeIsWatched, SwitchIsWatched
<1> QED BY <1>4, <1>5 DEF Watched

\* The stop request of an attempt that became a session after the last look.
LEMMA StopKeeps ==
  ASSUME TaskInv, Stop
  PROVE  TaskInv'
<1> USE DEF TaskInv
<1>1. con' \in Cons /\ con'.pc = "stop"
  BY DEF Stop, TypeOK, Cons
<1>2. TxOK'
  BY WriteFrameType DEF TypeOK, TxOK, Stop, Tasks
<1>3. TypeOK'
  BY <1>1, <1>2 DEF TypeOK, TxOK, Stop, Cons
<1>4. Watched'
  BY <1>1 DEF Stop, Watched, HandshakeAtInitialBaud, HandshakeIsWatched, SwitchIsWatched
<1> QED BY <1>3, <1>4 DEF Watched

\* The end of a rest.
LEMMA RestEndsKeeps ==
  ASSUME TaskInv, RestEnds
  PROVE  TaskInv'
<1> USE DEF TaskInv
<1>1. con' \in Cons /\ con'.pc = "check"
  BY DEF RestEnds, TypeOK, Cons
<1>2. TypeOK'
  BY <1>1 DEF TypeOK, RestEnds, Cons, txVars
<1>3. Watched'
  BY <1>1 DEF RestEnds, Watched, HandshakeAtInitialBaud, HandshakeIsWatched, SwitchIsWatched
<1> QED BY <1>2, <1>3 DEF Watched

\* A step of flipper_connect_task.
LEMMA ConKeeps ==
  ASSUME TaskInv, ConStep
  PROVE  TaskInv'
<1>1. CASE PulsePanics
  BY <1>1, PanicKeeps DEF PulsePanics
<1> QED BY <1>1, ConnectKeeps, SuspendKeeps, PulseKeeps, PollKeeps, DisconnectKeeps, StopKeeps, RestEndsKeeps
        DEF ConStep

\* A step of expansion_send_rpc().
LEMMA TcpKeeps ==
  ASSUME TaskInv, ChunkLeft, TcpBegin \/ TcpStep
  PROVE  TaskInv'
<1> USE DEF TaskInv
<1>1. UNCHANGED <<state, baud, silent, rx, kept, con, in, fl>>
  BY DEF TcpBegin, TcpStep, TcpSent, TcpNext, TcpFails
<1>2. TxOK
  BY DEF TypeOK, TxOK
<1>3. TxOK'
  <2>1. CASE TcpBegin \/ TcpNext
    BY <1>2, <2>1, WriteFrameType DEF TcpBegin, TcpNext, Tasks
  <2>2. CASE TcpSent
    BY <1>2, <2>2, WriteChecksumType DEF TcpSent, Tasks, Requests
  <2>3. CASE TcpFails
    BY <1>2, <2>3 DEF TcpFails, TxOK
  <2> QED BY <2>1, <2>2, <2>3 DEF TcpStep
<1>4. tcp' \in [pc : {"idle", "frame", "gap"}, left : 0..(MaxChunks - 1)]
  <2>1. tcp \in [pc : {"idle", "frame", "gap"}, left : 0..(MaxChunks - 1)]
    BY DEF TypeOK
  <2>2. NotSending \in [pc : {"idle", "frame", "gap"}, left : 0..(MaxChunks - 1)]
    BY ExpansionAssumption DEF NotSending
  <2>3. CASE TcpBegin
    BY <2>3, ExpansionAssumption DEF TcpBegin
  <2>4. CASE TcpSent
    BY <2>1, <2>2, <2>4 DEF TcpSent
  <2>5. CASE TcpNext
    <3>1. tcp.left - 1 \in 0..(MaxChunks - 1)
      BY <2>1, <2>5, ExpansionAssumption DEF TcpNext, ChunkLeft
    <3> QED BY <2>5, <3>1 DEF TcpNext
  <2>6. CASE TcpFails
    BY <2>2, <2>6 DEF TcpFails
  <2> QED BY <2>3, <2>4, <2>5, <2>6 DEF TcpStep
<1>5. TypeOK'
  BY <1>1, <1>3, <1>4 DEF TypeOK, TxOK
<1>6. Watched'
  BY <1>1 DEF Watched, HandshakeAtInitialBaud, HandshakeIsWatched, SwitchIsWatched
<1> QED BY <1>5, <1>6 DEF Watched

\* The Flipper's answers leave it somewhere in its protocol; a reply is a frame.
LEMMA AnswersType ==
  ASSUME NEW f, fl \in [pc : {"off", "idle", "baud", "start", "rpc", "unacked"}, baud : Bauds],
         NEW a \in Answers(f)
  PROVE  /\ a[1] \in Replies \cup {"none"}
         /\ a[2] \in [pc : {"off", "idle", "baud", "start", "rpc", "unacked"}, baud : Bauds]
<1> DEFINE L == [pc |-> "idle", baud |-> "initial"]
<1>1. \/ a = <<"ok", [pc |-> "start", baud |-> "target"]>>
      \/ a = <<"rejected", [fl EXCEPT !.pc = "start"]>>
      \/ a = <<"ok", [fl EXCEPT !.pc = "rpc"]>>
      \/ a = <<"none", [fl EXCEPT !.pc = "rpc"]>>
      \/ \E r \in {"ok", "error", "none"} : a = <<r, L>>
      \/ \E r \in {"ok", "heartbeat", "none"} : a = <<r, fl>>
  BY DEF Answers
<1> QED BY <1>1 DEF Replies, Bauds

\* A step of the Flipper touches nothing of the bridge's but the queues.
LEMMA FlKeeps ==
  ASSUME TaskInv, FlStep
  PROVE  TaskInv'
<1> USE DEF TaskInv
<1>1. UNCHANGED <<state, baud, silent, rx, kept, con, tcp, mid, torn>>
  BY DEF FlStep, FlAnswers, FlData, FlLeaves, FlOff, txVars
<1>2. /\ in \in Seq(Replies) /\ Len(in) <= MaxIn /\ MaxIn \in Nat
      /\ out \in Seq(Requests) /\ Len(out) <= MaxOut /\ MaxOut \in Nat
      /\ fl \in [pc : {"off", "idle", "baud", "start", "rpc", "unacked"}, baud : Bauds]
  BY ExpansionAssumption DEF TypeOK
<1>3. ASSUME NEW r \in Replies, NEW b
      PROVE  Heard(r, b) \in Replies
  BY DEF Heard, Replies
<1>4. /\ in' \in Seq(Replies) /\ Len(in') <= MaxIn
      /\ out' \in Seq(Requests) /\ Len(out') <= MaxOut
      /\ fl' \in [pc : {"off", "idle", "baud", "start", "rpc", "unacked"}, baud : Bauds]
  <2>1. CASE FlAnswers
    <3>1. out' \in Seq(Requests) /\ Len(out') <= MaxOut
      BY <1>2, <2>1, TailType DEF FlAnswers
    <3>2. PICK a \in Answers(Head(out)) :
            /\ fl' = a[2]
            /\ in' = IF a[1] = "none" THEN in ELSE Arrive(in, Heard(a[1], fl.baud), MaxIn)
      BY <2>1 DEF FlAnswers
    <3>3. /\ a[1] \in Replies \cup {"none"}
          /\ a[2] \in [pc : {"off", "idle", "baud", "start", "rpc", "unacked"}, baud : Bauds]
      BY <1>2, AnswersType
    <3>4. CASE a[1] = "none"
      BY <1>2, <3>1, <3>2, <3>3, <3>4
    <3>5. CASE a[1] # "none"
      <4>1. in' = Arrive(in, Heard(a[1], fl.baud), MaxIn) /\ Heard(a[1], fl.baud) \in Replies
        BY <1>3, <3>2, <3>3, <3>5
      <4> QED BY <1>2, <3>1, <3>2, <3>3, <4>1, ArriveType
    <3> QED BY <3>4, <3>5
  <2>2. CASE FlData
    <3>1. in' = Arrive(in, Heard("data", fl.baud), MaxIn) /\ Heard("data", fl.baud) \in Replies
      BY <1>3, <2>2 DEF FlData, Replies
    <3>2. in' \in Seq(Replies) /\ Len(in') <= MaxIn
      BY <1>2, <3>1, ArriveType
    <3> QED BY <1>2, <2>2, <3>2 DEF FlData, txVars
  <2>3. CASE FlLeaves \/ FlOff
    BY <1>2, <2>3 DEF FlLeaves, FlOff, txVars, Bauds
  <2> QED BY <2>1, <2>2, <2>3 DEF FlStep
<1>5. TypeOK'
  BY <1>1, <1>4 DEF TypeOK
<1>6. Watched'
  BY <1>1 DEF Watched, HandshakeAtInitialBaud, HandshakeIsWatched, SwitchIsWatched
<1> QED BY <1>5, <1>6

\* Only expansion_send_rpc() and a panic touch the frames it has left.
LEMMA ChunkKept ==
  ASSUME TypeOK, ChunkLeft, Next
  PROVE  ChunkLeft'
<1>1. CASE tcp' = tcp \/ tcp' = NotSending \/ tcp'.pc = "frame"
  BY <1>1 DEF ChunkLeft, NotSending
<1>2. CASE TcpSent
  BY <1>2 DEF TcpSent, ChunkLeft, NotSending, TypeOK
<1>3. CASE RxStep \/ RxForwarded \/ WifiUp \/ ConStep \/ FlStep
  <2>1. tcp' = tcp \/ tcp' = NotSending
    BY <1>3 DEF RxStep, RxFrame, RxNoise, RxSwitch, RxStart, RxSent, RxWraps, RxIdle, RxBeat,
       RxBeaten, ConStep, Connect, Pulse, PulsePanics, Poll, GiveUp, Stop, Stopped, RestEnds,
       Suspend, FlStep, FlAnswers, FlData, FlLeaves, FlOff, Panic, RxForwarded, WifiUp
  <2> QED BY <1>1, <2>1
<1>4. CASE TcpBegin \/ TcpNext \/ TcpFails
  BY <1>1, <1>4 DEF TcpBegin, TcpNext, TcpFails
<1> QED BY <1>2, <1>3, <1>4 DEF Next, TcpStep

-----------------------------------------------------------------------------
(* The theorems. *)

\* The bridge starts in step.
LEMMA InitExpansion == Init => ExpansionInv
<1> SUFFICES ASSUME Init PROVE ExpansionInv
  OBVIOUS
<1>1. /\ state \in States /\ baud \in Bauds /\ silent \in 0..(Silence + 1)
      /\ rx \in [pc : RxPCs, send : Requests] /\ kept \in BOOLEAN
  BY ExpansionAssumption DEF Init, States, Bauds, Reading, RxPCs, Requests
<1>2. con \in Cons
  BY ExpansionAssumption DEF Init, Booting, Cons
<1>3. tcp \in [pc : {"idle", "frame", "gap"}, left : 0..(MaxChunks - 1)]
  BY ExpansionAssumption DEF Init, NotSending
<1>4. /\ mid \subseteq Tasks /\ torn \in BOOLEAN
      /\ in \in Seq(Replies) /\ Len(in) <= MaxIn
      /\ out \in Seq(Requests) /\ Len(out) <= MaxOut
  <2>1. mid \subseteq Tasks /\ torn \in BOOLEAN
    BY DEF Init
  <2>2. in \in Seq(Replies) /\ Len(in) <= MaxIn /\ out \in Seq(Requests) /\ Len(out) <= MaxOut
    BY ExpansionAssumption DEF Init
  <2> QED BY <2>1, <2>2
<1>5. fl \in [pc : {"off", "idle", "baud", "start", "rpc", "unacked"}, baud : Bauds]
  BY DEF Init, Bauds
<1>6. TypeOK
  BY <1>1, <1>2, <1>3, <1>4, <1>5 DEF TypeOK, RxPCs, Cons
<1>7. ChunkLeft /\ HandshakeAtInitialBaud /\ HandshakeIsWatched /\ SwitchIsWatched
  BY DEF Init, ChunkLeft, HandshakeAtInitialBaud, HandshakeIsWatched, SwitchIsWatched, Reading,
     NotSending
<1> QED BY <1>6, <1>7 DEF ExpansionInv

\* Every step of every task keeps ExpansionInv.
LEMMA NextExpansion == ExpansionInv /\ [Next]_vars => ExpansionInv'
<1> SUFFICES ASSUME ExpansionInv, [Next]_vars PROVE ExpansionInv'
  OBVIOUS
<1>1. TaskInv /\ ChunkLeft /\ TypeOK
  BY DEF ExpansionInv, TaskInv, Watched
<1>2. CASE Next
  <2>1. TaskInv'
    BY <1>1, <1>2, RxKeeps, RxForwardedKeeps, WifiUpKeeps, ConKeeps, TcpKeeps, FlKeeps DEF Next
  <2>2. ChunkLeft'
    BY <1>1, <1>2, ChunkKept
  <2> QED BY <2>1, <2>2 DEF ExpansionInv, TaskInv, Watched
<1>3. CASE UNCHANGED vars
  <2>1. TypeOK'
    BY <1>1, <1>3 DEF vars, txVars, TypeOK
  <2>2. ChunkLeft' /\ Watched'
    BY <1>1, <1>3 DEF vars, TaskInv, Watched, ChunkLeft, HandshakeAtInitialBaud,
       HandshakeIsWatched, SwitchIsWatched
  <2> QED BY <2>1, <2>2 DEF ExpansionInv, Watched
<1> QED BY <1>2, <1>3

\* The inductive invariant holds in every reachable state.
THEOREM ExpansionInvariant == Spec => []ExpansionInv
<1>1. Init => ExpansionInv
  BY InitExpansion
<1>2. ExpansionInv /\ [Next]_vars => ExpansionInv'
  BY NextExpansion
<1> QED BY <1>1, <1>2, PTL DEF Spec

\* Every variable keeps its type: no queue outgrows its UART, and the count of chunks
\* left never wraps below zero.
THEOREM ExpansionTypes == Spec => []TypeOK
<1>1. ExpansionInv => TypeOK
  BY DEF ExpansionInv
<1> QED BY <1>1, ExpansionInvariant, PTL

\* A handshake runs at the initial rate: the baud switch of an attempt that was given
\* up is over before the next attempt has set the rate, however s_state changes hands.
THEOREM HandshakesAtInitialBaud == Spec => []HandshakeAtInitialBaud
<1>1. ExpansionInv => HandshakeAtInitialBaud
  BY DEF ExpansionInv
<1> QED BY <1>1, ExpansionInvariant, PTL
=============================================================================
