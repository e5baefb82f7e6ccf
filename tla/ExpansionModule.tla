--------------------------- MODULE ExpansionModule ---------------------------
(***************************************************************************)
(* The WiFi bridge's end of the Flipper's expansion protocol: uart_rx_task *)
(* (handshake, heartbeats, watchdog), flipper_connect_task of main.c and   *)
(* expansion_send_rpc in the TCP client's task.  They share s_state,       *)
(* s_rx_len, the baud rate and the UART without a lock.                    *)
(*                                                                         *)
(* A step is what a task does between two places where it can lose the     *)
(* processor to another.  send_frame() is two: the frame is written, then  *)
(* its checksum.  The callback that forwards a frame to the TCP client     *)
(* returns when that client has read or gone, if ever.  Frames arrive whole; "noise" is a frame cut or mixed     *)
(* with another, or sent at a rate the receiver does not listen at, and    *)
(* its checksum is taken to be wrong.                                      *)
(***************************************************************************)
EXTENDS Integers, Sequences, FiniteSets

CONSTANTS
    Silence,    \* rounds of uart_rx_task without a frame that make 1500 ms
    MaxPolls,   \* looks flipper_connect_task takes at an attempt (20)
    MaxChunks,  \* bound: frames of one expansion_send_rpc()
    MaxIn,      \* bound: frames under way to the bridge; a UART drops more
    MaxOut      \* bound: frames under way to the Flipper

ASSUME ExpansionAssumption ==
    /\ Silence \in Nat \ {0} /\ MaxPolls \in Nat \ {0}
    /\ MaxChunks \in Nat \ {0} /\ MaxIn \in Nat \ {0} /\ MaxOut \in Nat \ {0}

States == {"DISCONNECTED", "AWAITING_HEARTBEAT", "BAUD_NEGOTIATION", "RPC_STARTING",
           "RPC_ACTIVE", "ERROR"}
Bauds == {"initial", "target"}
Replies == {"heartbeat", "ok", "rejected", "error", "data", "noise"}
Requests == {"baud", "start", "stop", "heartbeat", "ok", "data", "noise"}
Tasks == {"rx", "con", "tcp"}

VARIABLES
    state,   \* s_state
    baud,    \* s_current_baud and the UART's rate
    silent,  \* rounds since s_last_rx_tick, when uart_rx_task last looked
    rx,      \* uart_rx_task: where it is, and the frame it is sending
    kept,    \* s_rx_len still counts the frame that process_frame() is working on
    con,     \* app_main, then flipper_connect_task: where it is, and polls made
    tcp,     \* expansion_send_rpc(): where it is, and frames left
    mid,     \* tasks between the two writes of send_frame()
    torn,    \* two of them have been there at once
    in,      \* frames from the Flipper
    out,     \* frames to the Flipper
    fl       \* the Flipper: how far it is in the protocol, and its rate

txVars == <<mid, torn, out>>
vars == <<state, baud, silent, rx, kept, con, tcp, txVars, in, fl>>

Reading == [pc |-> "read", send |-> "ok"]
Due == [pc |-> "due", send |-> "heartbeat"]
Booting == [pc |-> "boot", polls |-> 0]
Resting == [pc |-> "rest", polls |-> 0]
NotSending == [pc |-> "idle", left |-> 0]

Init ==
    /\ state = "DISCONNECTED" /\ baud = "initial" /\ silent = 0
    /\ rx = Reading /\ kept = TRUE
    /\ con = Booting
    /\ tcp = NotSending
    /\ mid = {} /\ torn = FALSE
    /\ in = <<>> /\ out = <<>>
    /\ fl \in [pc : {"off", "idle"}, baud : {"initial"}]

Least(m, n) == IF m < n THEN m ELSE n

\* External.  A UART that has no room drops what arrives.
Arrive(queue, f, max) == IF Len(queue) < max THEN Append(queue, f) ELSE queue

\* External.  What the bridge makes of a reply sent at rate b.
Heard(reply, b) == IF b = baud THEN reply ELSE "noise"

\* send_frame(), the first write.
WriteFrame(t) ==
    /\ mid' = mid \cup {t}
    /\ torn' = (torn \/ mid # {})
    /\ UNCHANGED out

\* The second: the frame is complete.
WriteChecksum(t, f) ==
    /\ mid' = mid \ {t}
    /\ torn' = (torn /\ mid # {t})
    /\ out' = Arrive(out, IF torn \/ baud # fl.baud THEN "noise" ELSE f, MaxOut)

\* External.  A panic restarts the bridge.
Panic ==
    /\ state' = "DISCONNECTED" /\ baud' = "initial" /\ silent' = 0
    /\ rx' = Reading /\ kept' = TRUE
    /\ con' = Booting
    /\ tcp' = NotSending
    /\ mid' = {} /\ torn' = FALSE
    /\ in' = <<>>
    /\ UNCHANGED <<out, fl>>

-----------------------------------------------------------------------------
(***************************************************************************)
(* uart_rx_task.  expansion_init() creates it, signal_presence() suspends  *)
(* it.                                                                     *)
(***************************************************************************)

Running == con.pc \notin {"boot", "pulse"}

\* Mutant: the watchdog watches the handshake only.
RoundEndsActive(s, n) ==
    /\ state' = IF n > Silence /\ s \notin {"DISCONNECTED", "RPC_ACTIVE"} THEN "ERROR" ELSE s
    /\ silent' = Least(n, Silence)
    /\ rx' \in {Reading} \cup IF state' = "RPC_ACTIVE" THEN {Due} ELSE {}

\* The end of a round in state s, n rounds after the last frame: the watchdog, and in
\* an active session the heartbeat, if 200 ms have passed since the last one.
RoundEnds(s, n) ==
    LET fires == n > Silence /\ s # "DISCONNECTED"
    IN  /\ state' = IF fires THEN "ERROR" ELSE s
        /\ silent' = IF fires THEN 0 ELSE Least(n, Silence)
        /\ rx' \in {Reading} \cup IF state' = "RPC_ACTIVE" THEN {Due} ELSE {}

\* process_frame() goes to state s and sends f before it returns.
Send(s, f) ==
    /\ state' = s
    /\ rx' = [pc |-> "process", send |-> f]
    /\ WriteFrame("rx")

\* process_frame() goes to state s and returns.
Become(s) == RoundEnds(s, 0) /\ UNCHANGED txVars

\* process_frame() has a payload for the TCP client, and on_rpc_rx() sends it there.
Forward == rx' = [rx EXCEPT !.pc = "callback"] /\ UNCHANGED <<state, txVars>>

\* process_frame() on a frame whose checksum is right.  Data is acknowledged at once
\* when it is empty or there is no client.
Process(f) ==
    CASE state = "AWAITING_HEARTBEAT" /\ f = "heartbeat" ->
           Send("BAUD_NEGOTIATION", "baud") /\ silent' = 0
      [] state = "BAUD_NEGOTIATION" /\ f = "ok" ->
           rx' = [rx EXCEPT !.pc = "delay"] /\ silent' = 0 /\ UNCHANGED <<state, txVars>>
      [] state = "BAUD_NEGOTIATION" /\ f = "rejected" ->
           Send("RPC_STARTING", "start") /\ silent' = 0
      [] state = "RPC_STARTING" /\ f = "ok" -> Become("RPC_ACTIVE")
      [] \/ state = "BAUD_NEGOTIATION" /\ f = "error"
         \/ state = "RPC_STARTING" /\ f \in {"rejected", "error"} -> Become("ERROR")
      [] state = "RPC_ACTIVE" /\ f = "data" ->
           /\ silent' = 0
           /\ Send(state, "ok") \/ Forward
      [] state = "RPC_ACTIVE" /\ f = "heartbeat" -> Send(state, "heartbeat") /\ silent' = 0
      [] OTHER -> Become(state)

RxFrame ==
    /\ Running
    /\ rx.pc = "read" /\ in # <<>> /\ Head(in) # "noise"
    /\ in' = Tail(in)
    /\ kept' = TRUE
    /\ Process(Head(in))
    /\ UNCHANGED <<baud, con, tcp, fl>>

\* send() returns to on_rpc_rx(), after any time: the client has read, or is gone.  The
\* frame is then acknowledged, whatever became of the session meanwhile.
RxForwarded ==
    /\ Running
    /\ rx.pc = "callback"
    /\ Send(state, "ok")
    /\ silent' \in {silent, Silence + 1}
    /\ UNCHANGED <<baud, kept, con, tcp, in, fl>>

\* Bytes that are no frame are skipped, or make a frame with a wrong checksum, which
\* counts as one received.
RxNoise ==
    /\ Running
    /\ rx.pc = "read" /\ in # <<>> /\ Head(in) = "noise"
    /\ in' = Tail(in)
    /\ RoundEnds("ERROR", 0) \/ RoundEnds(state, silent + 1)
    /\ UNCHANGED <<baud, kept, con, tcp, txVars, fl>>

\* A round without a byte.
RxIdle ==
    /\ Running
    /\ rx.pc = "read" /\ in = <<>>
    /\ RoundEnds(state, silent + 1)
    /\ UNCHANGED <<baud, kept, con, tcp, txVars, in, fl>>

\* The baud rate was accepted; the rate is changed after the first dead time.
RxSwitch ==
    /\ Running
    /\ rx.pc = "delay"
    /\ baud' = "target"
    /\ rx' = [rx EXCEPT !.pc = "switched"]
    /\ UNCHANGED <<state, silent, kept, con, tcp, txVars, in, fl>>

\* After the second, whatever became of the attempt meanwhile.
RxStart ==
    /\ Running
    /\ rx.pc = "switched"
    /\ Send("RPC_STARTING", "start")
    /\ UNCHANGED <<baud, silent, kept, con, tcp, in, fl>>

\* The frame is out, and process_frame() returns.
RxSent ==
    /\ Running
    /\ rx.pc = "process" /\ kept
    /\ WriteChecksum("rx", rx.send)
    /\ RoundEnds(state, silent)
    /\ UNCHANGED <<baud, kept, con, tcp, in, fl>>

\* It returns to an s_rx_len that another task has set to 0: s_rx_len - frame_size
\* wraps around and memmove() runs out of the memory.
RxWraps ==
    /\ Running
    /\ rx.pc = "process" /\ ~kept
    /\ Panic

\* expansion_send_heartbeat().
RxBeat ==
    /\ Running
    /\ rx = Due
    /\ rx' = [Due EXCEPT !.pc = "beat"]
    /\ WriteFrame("rx")
    /\ UNCHANGED <<state, baud, silent, kept, con, tcp, in, fl>>

RxBeaten ==
    /\ Running
    /\ rx.pc = "beat"
    /\ WriteChecksum("rx", rx.send)
    /\ rx' = Reading
    /\ UNCHANGED <<state, baud, silent, kept, con, tcp, in, fl>>

-----------------------------------------------------------------------------
(***************************************************************************)
(* app_main and flipper_connect_task.                                      *)
(***************************************************************************)

\* app_main has its WiFi connection, if ever, and calls expansion_init(): from now on
\* bytes are received.
WifiUp ==
    /\ con.pc = "boot"
    /\ con' = Resting
    /\ in' = <<>>
    /\ UNCHANGED <<state, baud, silent, rx, kept, tcp, txVars, fl>>

\* Mutant: the rate of the last session stays.
ConnectAtLastRate ==
    /\ con.pc = "check" /\ state \in {"DISCONNECTED", "ERROR"}
    /\ kept' = FALSE
    /\ silent' = 0
    /\ state' = "AWAITING_HEARTBEAT"
    /\ con' = [con EXCEPT !.pc = "called"]
    /\ UNCHANGED <<baud, rx, tcp, txVars, in, fl>>

\* Mutant: a failed session is not called again.
ConnectAfterDisconnect ==
    /\ con.pc = "check" /\ state = "DISCONNECTED"
    /\ baud' = "initial"
    /\ kept' = FALSE
    /\ silent' = 0
    /\ state' = "AWAITING_HEARTBEAT"
    /\ con' = [con EXCEPT !.pc = "called"]
    /\ UNCHANGED <<rx, tcp, txVars, in, fl>>

\* expansion_connect(), up to signal_presence().
Connect ==
    /\ con.pc = "check" /\ state \in {"DISCONNECTED", "ERROR"}
    /\ baud' = "initial"
    /\ kept' = FALSE
    /\ silent' = 0
    /\ state' = "AWAITING_HEARTBEAT"
    /\ con' = [con EXCEPT !.pc = "called"]
    /\ UNCHANGED <<rx, tcp, txVars, in, fl>>

\* signal_presence() suspends uart_rx_task, which may have read on until now, and
\* deletes the driver.
Suspend ==
    /\ con.pc = "called"
    /\ con' = [con EXCEPT !.pc = "pulse"]
    /\ UNCHANGED <<state, baud, silent, rx, kept, tcp, txVars, in, fl>>

\* The rest of signal_presence(): TX goes low and high, the driver is installed anew,
\* without what it had received, and uart_rx_task goes on.  An idle Flipper answers;
\* to one that is not the pulse may be a broken byte.
Pulse ==
    /\ con.pc = "pulse"
    /\ con' = [pc |-> "poll", polls |-> 0]
    /\ torn' = (torn \/ mid # {})
    /\ IF fl.pc = "idle"
         THEN /\ fl' = [fl EXCEPT !.pc = "baud"]
              /\ in' = <<Heard("heartbeat", fl.baud)>>
              /\ out' = <<>>
         ELSE /\ in' = <<>>
              /\ out' \in {out, Arrive(out, "noise", MaxOut)}
              /\ UNCHANGED fl
    /\ UNCHANGED <<state, baud, silent, rx, kept, tcp, mid>>

\* uart_rx_task was inside a call of the driver that has been deleted, which may have
\* any effect: it goes on as above, or the bridge panics.
PulsePanics ==
    /\ con.pc = "pulse" /\ rx.pc \in {"read", "process", "beat"}
    /\ Panic

\* Mutant: one look too many.
PollOnceMore ==
    /\ con.pc = "poll"
    /\ con' = CASE state = "RPC_ACTIVE" -> [pc |-> "check", polls |-> 0]
                [] state = "ERROR" \/ (state # "RPC_ACTIVE" /\ con.polls = MaxPolls) ->
                     [pc |-> "give_up", polls |-> 0]
                [] OTHER -> [con EXCEPT !.polls = @ + 1]
    /\ UNCHANGED <<state, baud, silent, rx, kept, tcp, txVars, in, fl>>

\* One look at the attempt, every 100 ms.
Poll ==
    /\ con.pc = "poll"
    /\ con' = CASE state = "RPC_ACTIVE" -> [pc |-> "check", polls |-> 0]
                [] state = "ERROR" \/ (state # "RPC_ACTIVE" /\ con.polls + 1 = MaxPolls) ->
                     [pc |-> "give_up", polls |-> 0]
                [] OTHER -> [con EXCEPT !.polls = @ + 1]
    /\ UNCHANGED <<state, baud, silent, rx, kept, tcp, txVars, in, fl>>

\* expansion_disconnect() after a session that it may have to stop.
Disconnect ==
    /\ state' = "DISCONNECTED"
    /\ kept' = FALSE
    /\ baud' = "initial"
    /\ con' = Resting

GiveUp ==
    /\ con.pc = "give_up" /\ state # "RPC_ACTIVE"
    /\ Disconnect
    /\ UNCHANGED <<silent, rx, tcp, txVars, in, fl>>

\* The session became active after the last look.
Stop ==
    /\ con.pc = "give_up" /\ state = "RPC_ACTIVE"
    /\ WriteFrame("con")
    /\ con' = [con EXCEPT !.pc = "stop"]
    /\ UNCHANGED <<state, baud, silent, rx, kept, tcp, in, fl>>

Stopped ==
    /\ con.pc = "stop"
    /\ WriteChecksum("con", "stop")
    /\ Disconnect
    /\ UNCHANGED <<silent, rx, tcp, in, fl>>

\* The 3 s before the next attempt, and the 1 s before the first; they outlast the
\* dead times of a baud switch (50 ms).
RestEnds ==
    /\ con.pc = "rest" /\ rx.pc \notin {"delay", "switched"}
    /\ con' = [con EXCEPT !.pc = "check"]
    /\ UNCHANGED <<state, baud, silent, rx, kept, tcp, txVars, in, fl>>

-----------------------------------------------------------------------------
(***************************************************************************)
(* expansion_send_rpc(), called by on_tcp_rx.  The state is looked at      *)
(* once, before the first frame.                                           *)
(***************************************************************************)

TcpBegin ==
    /\ tcp.pc = "idle" /\ state = "RPC_ACTIVE"
    /\ \E n \in 1..MaxChunks : tcp' = [pc |-> "frame", left |-> n - 1]
    /\ WriteFrame("tcp")
    /\ UNCHANGED <<state, baud, silent, rx, kept, con, in, fl>>

TcpSent ==
    /\ Running
    /\ tcp.pc = "frame"
    /\ WriteChecksum("tcp", "data")
    /\ tcp' = IF tcp.left = 0 THEN NotSending ELSE [tcp EXCEPT !.pc = "gap"]
    /\ UNCHANGED <<state, baud, silent, rx, kept, con, in, fl>>

TcpNext ==
    /\ Running
    /\ tcp.pc = "gap"
    /\ WriteFrame("tcp")
    /\ tcp' = [pc |-> "frame", left |-> tcp.left - 1]
    /\ UNCHANGED <<state, baud, silent, rx, kept, con, in, fl>>

\* The driver is not there: uart_write_bytes() fails and the rest is not sent.
TcpFails ==
    /\ ~Running
    /\ tcp.pc \in {"frame", "gap"}
    /\ tcp' = NotSending
    /\ mid' = mid \ {"tcp"}
    /\ torn' = (torn /\ mid # {"tcp"})
    /\ UNCHANGED <<state, baud, silent, rx, kept, con, out, in, fl>>

-----------------------------------------------------------------------------
(***************************************************************************)
(* The Flipper (external), as its protocol has it.  It never speaks        *)
(* unasked, except for the data of a session, each frame of which must be  *)
(* acknowledged.                                                           *)
(***************************************************************************)

\* Its answers to a request: the reply ("none" for no reply), and what it is then.
Answers(f) ==
    CASE fl.pc = "baud" /\ f = "baud" ->
           {<<"ok", [pc |-> "start", baud |-> "target"]>>,
            <<"rejected", [fl EXCEPT !.pc = "start"]>>,
            <<"error", [pc |-> "idle", baud |-> "initial"]>>}
      [] fl.pc = "start" /\ f = "start" ->
           {<<"ok", [fl EXCEPT !.pc = "rpc"]>>,
            <<"error", [pc |-> "idle", baud |-> "initial"]>>}
      [] fl.pc \in {"rpc", "unacked"} /\ f = "data" -> {<<"ok", fl>>}
      [] fl.pc \in {"rpc", "unacked"} /\ f = "heartbeat" -> {<<"heartbeat", fl>>}
      [] fl.pc \in {"rpc", "unacked"} /\ f = "ok" -> {<<"none", [fl EXCEPT !.pc = "rpc"]>>}
      [] fl.pc \in {"rpc", "unacked"} /\ f = "stop" ->
           {<<"ok", [pc |-> "idle", baud |-> "initial"]>>}
      [] fl.pc \in {"idle", "off"} -> {<<"none", fl>>}
      [] OTHER -> {<<"none", [pc |-> "idle", baud |-> "initial"]>>}

FlAnswers ==
    /\ out # <<>>
    /\ out' = Tail(out)
    /\ \E a \in Answers(Head(out)) :
         /\ fl' = a[2]
         /\ in' = IF a[1] = "none" THEN in ELSE Arrive(in, Heard(a[1], fl.baud), MaxIn)
    /\ UNCHANGED <<state, baud, silent, rx, kept, con, tcp, mid, torn>>

FlData ==
    /\ fl.pc = "rpc"
    /\ fl' = [fl EXCEPT !.pc = "unacked"]
    /\ in' = Arrive(in, Heard("data", fl.baud), MaxIn)
    /\ UNCHANGED <<state, baud, silent, rx, kept, con, tcp, txVars>>

\* It gives the module up after its time-out, is unplugged, or comes back.
FlLeaves ==
    /\ fl.pc # "idle"
    /\ fl' = [pc |-> "idle", baud |-> "initial"]
    /\ UNCHANGED <<state, baud, silent, rx, kept, con, tcp, txVars, in>>

FlOff ==
    /\ fl.pc # "off"
    /\ fl' = [pc |-> "off", baud |-> "initial"]
    /\ UNCHANGED <<state, baud, silent, rx, kept, con, tcp, txVars, in>>

-----------------------------------------------------------------------------
RxStep == RxFrame \/ RxNoise \/ RxSwitch \/ RxStart \/ RxSent \/ RxWraps \/ RxIdle
          \/ RxBeat \/ RxBeaten
ConStep == Connect \/ Suspend \/ Pulse \/ PulsePanics \/ Poll \/ GiveUp \/ Stop \/ Stopped \/ RestEnds
TcpStep == TcpSent \/ TcpNext \/ TcpFails
FlStep == FlAnswers \/ FlData \/ FlLeaves \/ FlOff

Next == RxStep \/ RxForwarded \/ WifiUp \/ ConStep \/ TcpBegin \/ TcpStep \/ FlStep

Spec == Init /\ [][Next]_vars

\* The bridge's tasks run; nothing is assumed of the Flipper, of the TCP client, which
\* may never read what RxForwarded waits to send, or of the WiFi network.
FairSpec == Spec /\ WF_vars(RxStep) /\ WF_vars(ConStep) /\ WF_vars(TcpStep)

-----------------------------------------------------------------------------
(***************************************************************************)
(* Properties.                                                             *)
(***************************************************************************)

\* Every variable stays in its domain.
TypeOK ==
    /\ state \in States /\ baud \in Bauds
    /\ silent \in 0..(Silence + 1)
    /\ rx \in [pc : {"read", "callback", "process", "delay", "switched", "due", "beat"}, send : Requests]
    /\ kept \in BOOLEAN
    /\ con \in [pc : {"boot", "check", "called", "pulse", "poll", "give_up", "stop", "rest"},
                polls : 0..(MaxPolls - 1)]
    /\ tcp \in [pc : {"idle", "frame", "gap"}, left : 0..(MaxChunks - 1)]
    /\ mid \subseteq Tasks /\ torn \in BOOLEAN
    /\ in \in Seq(Replies) /\ Len(in) <= MaxIn
    /\ out \in Seq(Requests) /\ Len(out) <= MaxOut
    /\ fl \in [pc : {"off", "idle", "baud", "start", "rpc", "unacked"}, baud : Bauds]

\* The handshake begins at the rate an idle Flipper listens at, whatever an earlier
\* attempt's baud switch does after that attempt was given up: uart_rx_task changes
\* the rate 25 ms after it decided to, when expansion_disconnect() may have been there.
HandshakeAtInitialBaud ==
    \/ state = "AWAITING_HEARTBEAT"
    \/ state = "BAUD_NEGOTIATION" /\ rx.pc # "switched"
    => baud = "initial"

\* A handshake is flipper_connect_task's, which has called the Flipper and not yet
\* given it up.
HandshakeIsWatched ==
    state \in {"AWAITING_HEARTBEAT", "BAUD_NEGOTIATION"} =>
      con.pc \in {"called", "pulse", "poll", "give_up"}

\* uart_rx_task is inside a baud switch only while the attempt it belongs to is being
\* watched, or was given up and the next has not begun.
SwitchIsWatched ==
    rx.pc \in {"delay", "switched"} =>
      /\ con.pc \in {"called", "pulse", "poll", "give_up", "rest"}
      /\ state \in {"BAUD_NEGOTIATION", "DISCONNECTED"}

\* Between two frames expansion_send_rpc() has another to send.
ChunkLeft == tcp.pc = "gap" => tcp.left # 0

\* The inductive invariant behind HandshakeAtInitialBaud.
ExpansionInv ==
    TypeOK /\ ChunkLeft /\ HandshakeAtInitialBaud /\ HandshakeIsWatched /\ SwitchIsWatched

\* The bridge never stays without a session and without trying: whatever frames are
\* lost or mixed, whichever task overwrites s_state and however long a TCP client
\* blocks uart_rx_task, there is a session, the Flipper is called again, or a panic
\* has restarted the bridge, which then waits for its WiFi.
SessionsAreRetried ==
    state # "RPC_ACTIVE" ~> (state = "RPC_ACTIVE" \/ con.pc \in {"pulse", "boot"})

InSession == fl.pc \in {"rpc", "unacked"}

\* A session that the Flipper has left is noticed: uart_rx_task's watchdog, "if we stop
\* receiving frames for too long, force a reconnect".
StaleSessionIsNoticed ==
    (state = "RPC_ACTIVE" /\ ~InSession) ~> (state # "RPC_ACTIVE" \/ InSession)

\* It is, although uart_rx_task goes on sending heartbeats and the TCP client goes on
\* sending frames, as long as the client does not stop reading: the watchdog runs in
\* the task that blocks in send() to it.
ReaderNotices == []<>(rx.pc # "callback") => StaleSessionIsNoticed
=============================================================================
