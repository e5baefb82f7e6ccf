---------------------------- MODULE FlipperLink ----------------------------
(***************************************************************************)
(* The single link between the MCP server and the Flipper: FlipperClient,  *)
(* the ProtobufRPC objects it creates, the transport below them, and the   *)
(* concurrent tool calls that share them.                                  *)
(*                                                                         *)
(* One physical link carries a text shell ("CLI") and the nanopb RPC       *)
(* protocol.  Tool calls are asyncio tasks; a step of this specification   *)
(* is what a task does between two suspension points.  Round trips are     *)
(* serialized by one asyncio.Lock, but connect() and disconnect() do not   *)
(* take it.  An answer carries a command_id that the host never compares   *)
(* with its request: the oldest frame is taken for the answer.             *)
(*                                                                         *)
(* Data is abstracted to what tells two frames apart: which round trip     *)
(* they belong to (a ghost id), which family of response they carry,       *)
(* whether the status is OK and whether has_next is set.                   *)
(***************************************************************************)
EXTENDS Naturals, Sequences, FiniteSets

CONSTANTS
    Tasks,       \* concurrent tool calls
    NoTask,      \* "nobody holds _io_lock"
    Jobs,        \* the tool calls the tasks make, a subset of AllJobs
    Media,       \* what transport.connect() can open: "usb", "wifi" or both (auto)
    Faults,      \* a subset of {"cancel", "reset", "absent"}
    ForceStart,  \* FLIPPER_FORCE_START_RPC_SESSION
    Attempts,    \* start_session_attempt() calls before giving up (3 in the code)
    StreamCap,   \* continuation frames accepted in one stream (100 in the code)
    MaxFrag,     \* bound: has_next fragments of one storage_write
    MaxRpc,      \* bound: ProtobufRPC objects created
    MaxReq,      \* bound: round trips
    MaxRx        \* bound: frames waiting for the host

\* "ack": write, mkdir, delete, rename, app_start.  "typed": ping, md5sum, stat, ...
\* "read": storage_read.  "list": storage_list.  "info": device_info.  "power":
\* power_info.
Families == {"ack", "typed", "read", "list", "info", "power"}
AllJobs == Families \cup {"gpio", "locked", "reboot", "cli", "reconnect", "enter_rpc", "enter_cli"}
\* gpio2 is the second round trip of gpio_read, prop the property.get fallback of
\* get_device_info.
JobStates == AllJobs \cup {"none", "gpio2", "prop"}

ASSUME LinkAssumption ==
    /\ NoTask \notin Tasks
    /\ Jobs \subseteq AllJobs
    /\ Media \subseteq {"usb", "wifi"}
    /\ Faults \subseteq {"cancel", "reset", "absent"}
    /\ ForceStart \in BOOLEAN
    /\ Attempts \in Nat /\ StreamCap \in Nat /\ MaxFrag \in Nat
    /\ MaxRpc \in Nat /\ MaxReq \in Nat /\ MaxRx \in Nat

VARIABLES
    call,     \* the tool calls: where each is, and its locals
    out,      \* how the call that ended last ended
    lock,     \* FlipperClient._io_lock
    rpc,      \* FlipperClient.rpc (0 is None)
    mode,     \* FlipperClient._mode
    nRpc,     \* ProtobufRPC objects created so far
    started,  \* ProtobufRPC._rpc_session_started, per object
    cool,     \* _last_negotiation_failure is younger than the cooldown
    medium,   \* what the transport last opened
    port,     \* the handle (serial port, socket) is open
    conn,     \* the transport's connected flag
    orphan,   \* a cancelled call has left a serial read running
    tx, rx,   \* bytes on their way to the device, and to the host
    dmode,    \* the device reads its input as shell text or as RPC frames
    nReq,     \* history: round trips begun (their ids)
    dirty,    \* history: an exchange was given up and may have left frames
    stray     \* history: a CLI command was read inside an RPC session

clientVars == <<lock, rpc, mode>>
rpcVars == <<nRpc, started, cool>>
portVars == <<medium, port, conn, orphan>>
wireVars == <<tx, rx>>
vars == <<call, out, clientVars, rpcVars, portVars, wireVars, dmode, nReq, dirty, stray>>

Rpcs == 0..MaxRpc

\* Inside "async with self._io_lock".
Locked == {"session", "probe", "attempt", "reprobe", "send", "recv",
           "stop", "stopped", "prompt", "output"}
PCs == {"idle", "opening", "settling", "waiting"} \cup Locked

\* mine: the ProtobufRPC the call has captured.  req: its round trip.  n: attempts
\* or frames counted.  own: every frame it took on a link in step answers a request of
\* its own.  seen: a stream has yielded something.  torn: the port or the device went away under it.
Call == [pc : PCs, job : JobStates, mine : Rpcs, req : Nat, n : Nat,
         own : BOOLEAN, seen : BOOLEAN, torn : BOOLEAN]
Idle == [pc |-> "idle", job |-> "none", mine |-> 0, req |-> 0, n |-> 0,
         own |-> TRUE, seen |-> FALSE, torn |-> FALSE]
Outcome == [job : JobStates, res : {"none", "ok", "error"}, own : BOOLEAN, sure : BOOLEAN]

TxItem == [k : {"req", "frag", "reboot", "probe", "stop", "ctrlc", "start", "cmd", "torn_cmd"},
           id : Nat, ask : Families \cup {"none"}]
Frame == [k : {"ans", "probe", "err", "text"}, id : Nat,
          ask : Families \cup {"none"}, ok : BOOLEAN, more : BOOLEAN]

Bytes(kind, id) == [k |-> kind, id |-> id, ask |-> "none"]
Prefixes(s) == {SubSeq(s, 1, i) : i \in 0..Len(s)}
Suffixes(s) == {SubSeq(s, i, Len(s)) : i \in 1..(Len(s) + 1)}

\* transport.is_connected(): the flag and the open handle, not the device.
Connected == conn /\ port
\* AutoTransport inherits the default True whatever it has connected to.
SupportsCli == Media # {"wifi"}
\* WiFiTransport.connect() sets the connected flag before its last await;
\* USBTransport and AutoTransport set it after theirs.
FlagsEarly == Media = {"wifi"}
\* AutoTransport's name is that of the transport it has opened, and "Auto" when it has none.
NamedWifi == medium = "wifi" /\ (port \/ Media = {"wifi"})

Opening == {t \in Tasks : call[t].pc \in {"opening", "settling"}}
Active == {t \in Tasks : call[t].pc # "idle"}

Init ==
    /\ call = [t \in Tasks |-> Idle]
    /\ out = [job |-> "none", res |-> "none", own |-> TRUE, sure |-> FALSE]
    /\ lock = NoTask
    /\ rpc = 0
    /\ mode = "UNKNOWN"
    /\ nRpc = 0
    /\ started = [r \in Rpcs |-> FALSE]
    /\ cool = [r \in Rpcs |-> FALSE]
    /\ medium \in Media
    /\ port = FALSE /\ conn = FALSE /\ orphan = FALSE
    /\ tx = <<>> /\ rx = <<>>
    /\ dmode = "CLI"
    /\ nReq = 0 /\ dirty = FALSE /\ stray = FALSE

-----------------------------------------------------------------------------
(***************************************************************************)
(* Ends of a call.                                                         *)
(***************************************************************************)

\* The call returns or raises without holding the lock.
Leave(t, res, isOwn) ==
    /\ call' = [call EXCEPT ![t] = Idle]
    /\ out' = [job |-> call[t].job, res |-> res, own |-> isOwn, sure |-> ~dirty]

\* The call returns or raises, and so leaves "async with self._io_lock".
Finish(t, res, isOwn) == Leave(t, res, isOwn) /\ lock' = NoTask

\* The call goes on, at another suspension point.
Goto(t, label) ==
    /\ call' = [call EXCEPT ![t].pc = label]
    /\ UNCHANGED <<out, lock>>

\* The port or the device goes away under whoever is in an exchange; what is on
\* the wire then is no longer whole.
Tear(calls) == [t \in Tasks |-> IF lock = t THEN [calls[t] EXCEPT !.torn = TRUE] ELSE calls[t]]
WireInUse == tx # <<>> \/ rx # <<>>

-----------------------------------------------------------------------------
(***************************************************************************)
(* Connecting: ensure_connected, flipperzero_connection_reconnect.         *)
(***************************************************************************)

\* The bounds leave room for the round trips (at most two) of every call.
MayStart(t, j) ==
    /\ call[t].pc = "idle"
    /\ j \in Jobs
    /\ nReq + 2 * Cardinality(Active) + 2 <= MaxReq
    /\ j = "cli" => SupportsCli

\* ensure_connected() finds the transport up; get_rpc() captures client.rpc.
\* enter_rpc and enter_cli only look at client.rpc.
BeginLive(t, j) ==
    /\ MayStart(t, j)
    /\ rpc # 0
    /\ j \in {"enter_rpc", "enter_cli"} \/ (j # "reconnect" /\ Connected)
    /\ call' = [call EXCEPT ![t].pc = "waiting", ![t].job = j, ![t].mine = rpc]
    /\ UNCHANGED <<out, clientVars, rpcVars, portVars, wireVars, dmode, nReq, dirty, stray>>

\* get_rpc() finds the transport up and no RPC layer above it: the tool raises.
GetRpcFails(t, j) ==
    /\ MayStart(t, j)
    /\ j \notin {"enter_rpc", "enter_cli", "reconnect"}
    /\ Connected /\ rpc = 0
    /\ out' = [job |-> j, res |-> "error", own |-> TRUE, sure |-> ~dirty]
    /\ UNCHANGED <<call, clientVars, rpcVars, portVars, wireVars, dmode, nReq, dirty, stray>>

\* Mutant: the RPC layer is dropped and the transport left open.
DisconnectKeepsPort ==
    /\ UNCHANGED <<port, conn>>
    /\ rpc' = 0
    /\ mode' = "UNKNOWN"
    /\ tx' \in Prefixes(tx)
    /\ rx' \in Prefixes(rx)
    /\ dirty' = (dirty \/ WireInUse)

\* client.disconnect(): no lock is taken.  Bytes not yet delivered may be lost;
\* what the host had buffered (a prefix of rx) survives a USB reconnect.
Disconnect ==
    /\ port' = FALSE /\ conn' = FALSE
    /\ rpc' = 0
    /\ mode' = "UNKNOWN"
    /\ tx' \in Prefixes(tx)
    /\ rx' \in Prefixes(rx)
    /\ dirty' = (dirty \/ WireInUse)

BeginDisconnected(t, j) ==
    /\ MayStart(t, j)
    /\ j \notin {"enter_rpc", "enter_cli"}
    /\ j = "reconnect" \/ ~Connected
    /\ nRpc + Cardinality(Opening) < MaxRpc
    /\ Disconnect
    /\ call' = Tear([call EXCEPT ![t].pc = "opening", ![t].job = j])
    /\ UNCHANGED <<out, lock, rpcVars, medium, orphan, dmode, nReq, stray>>

\* transport.connect() opens the port (at once on USB, after a TCP handshake on
\* WiFi), then waits for it to settle.  A USB port may come up with its shell, or
\* with the session it had; the bridge behind the TCP port speaks RPC only.
\* WiFiTransport sets its flag before it settles, the others after.
OpenPort(t) ==
    /\ call[t].pc = "opening"
    /\ port' = TRUE
    /\ conn' = (conn \/ FlagsEarly)
    /\ medium' \in Media
    /\ tx' = IF medium' = medium THEN tx ELSE <<>>
    /\ rx' = IF medium' = "usb" THEN rx ELSE <<>>
    /\ dmode' \in IF medium' = "usb" THEN {dmode, "CLI"} ELSE {"RPC"}
    /\ dirty' = (dirty \/ WireInUse)
    /\ call' = Tear([call EXCEPT ![t].pc = "settling"])
    /\ UNCHANGED <<out, clientVars, rpcVars, orphan, nReq, stray>>

\* The device is not there: connect() returns False, the tool raises.
OpenFail(t) ==
    /\ call[t].pc = "opening"
    /\ "absent" \in Faults
    /\ conn' = FALSE
    /\ Leave(t, "error", TRUE)
    /\ UNCHANGED <<clientVars, rpcVars, medium, port, orphan, wireVars, dmode, nReq,
                   dirty, stray>>

\* Mutant: the client refers to an object that was never created.
SettleOffByOne(t) ==
    /\ call[t].pc = "settling"
    /\ nRpc < MaxRpc
    /\ conn' = (conn \/ ~FlagsEarly)
    /\ nRpc' = nRpc + 1
    /\ rpc' = nRpc + 2
    /\ mode' = "UNKNOWN"
    /\ call' = [call EXCEPT ![t].pc = "waiting", ![t].mine = nRpc + 1]
    /\ UNCHANGED <<out, lock, started, cool, medium, port, orphan, wireVars, dmode,
                   nReq, dirty, stray>>

\* The rest of FlipperClient.connect(): a new ProtobufRPC on the shared lock.
Settle(t) ==
    /\ call[t].pc = "settling"
    /\ nRpc < MaxRpc
    /\ conn' = (conn \/ ~FlagsEarly)
    /\ nRpc' = nRpc + 1
    /\ rpc' = nRpc + 1
    /\ mode' = "UNKNOWN"
    /\ call' = [call EXCEPT ![t].pc = "waiting", ![t].mine = nRpc + 1]
    /\ UNCHANGED <<out, lock, started, cool, medium, port, orphan, wireVars, dmode,
                   nReq, dirty, stray>>

-----------------------------------------------------------------------------
(***************************************************************************)
(* The shared lock.                                                        *)
(***************************************************************************)

\* Mutant: the round trip does not wait for the lock.
AcquireBusy(t) ==
    /\ call[t].pc = "waiting"
    /\ call[t].job \notin {"enter_rpc", "enter_cli"}
    /\ lock' = t
    /\ nReq' = nReq + 1
    /\ call' = [call EXCEPT ![t].pc = IF call[t].job = "cli" THEN "stop" ELSE "session",
                            ![t].req = nReq + 1]
    /\ UNCHANGED <<out, rpc, mode, rpcVars, portVars, wireVars, dmode, dirty, stray>>

\* "async with self._io_lock" of an RPC method or of cli_exec, which work on
\* the ProtobufRPC captured before the wait.
Acquire(t) ==
    /\ call[t].pc = "waiting"
    /\ call[t].job \notin {"enter_rpc", "enter_cli"}
    /\ lock = NoTask
    /\ lock' = t
    /\ nReq' = nReq + 1
    /\ call' = [call EXCEPT ![t].pc = IF call[t].job = "cli" THEN "stop" ELSE "session",
                            ![t].req = nReq + 1]
    /\ UNCHANGED <<out, rpc, mode, rpcVars, portVars, wireVars, dmode, dirty, stray>>

\* enter_rpc and enter_cli read self.rpc again once they hold the lock.
AcquireEnter(t) ==
    /\ call[t].pc = "waiting"
    /\ call[t].job \in {"enter_rpc", "enter_cli"}
    /\ lock = NoTask
    /\ IF rpc = 0
         THEN Leave(t, "error", TRUE) /\ UNCHANGED <<lock, nReq>>
         ELSE /\ lock' = t
              /\ nReq' = nReq + 1
              /\ call' = [call EXCEPT
                            ![t].pc = IF call[t].job = "enter_cli" THEN "stop" ELSE "session",
                            ![t].mine = rpc, ![t].req = nReq + 1]
              /\ UNCHANGED out
    /\ UNCHANGED <<rpc, mode, rpcVars, portVars, wireVars, dmode, dirty, stray>>

\* Mutant: a cancelled call keeps the lock.
CancelKeepsLock(t) ==
    /\ "cancel" \in Faults
    /\ call[t].pc \in Locked
    /\ Leave(t, "error", TRUE)
    /\ dirty' = TRUE
    /\ UNCHANGED <<clientVars, rpcVars, portVars, wireVars, dmode, nReq, stray>>

\* The MCP client cancels the call, or asyncio.wait_for expires around its body.
\* A read running in the executor, also one of a drain, goes on and swallows what
\* arrives.
Cancel(t) ==
    /\ "cancel" \in Faults
    /\ call[t].pc \in Locked
    /\ Finish(t, "error", TRUE)
    /\ dirty' = TRUE
    /\ orphan' = (orphan \/ (medium = "usb" /\ call[t].pc \notin {"stop", "send"}))
    /\ UNCHANGED <<rpc, mode, rpcVars, medium, port, conn, wireVars, dmode, nReq, stray>>

\* The call is cancelled while it connects or waits for the lock.
CancelWaiting(t) ==
    /\ "cancel" \in Faults
    /\ call[t].pc \in {"opening", "settling", "waiting"}
    /\ Leave(t, "error", TRUE)
    /\ UNCHANGED <<clientVars, rpcVars, portVars, wireVars, dmode, nReq, dirty, stray>>

-----------------------------------------------------------------------------
(***************************************************************************)
(* _ensure_rpc_session_started.                                            *)
(***************************************************************************)

Flagged(t) == started[call[t].mine]
Cooling(t) == cool[call[t].mine]
SetFlag(t, value) == started' = [started EXCEPT ![call[t].mine] = value]

\* What follows negotiation, whether or not it succeeded: enter_rpc records the
\* mode, an RPC method goes on to send its request.
AfterSession(t) ==
    IF call[t].job = "enter_rpc"
      THEN Finish(t, "ok", TRUE) /\ mode' = "RPC"
      ELSE /\ call' = [call EXCEPT ![t].pc = "send", ![t].n = 0]
           /\ UNCHANGED <<out, lock, mode>>

\* Early returns: the flag is set, or the last failure is younger than 5 s.
SessionReady(t) ==
    /\ call[t].pc = "session"
    /\ Flagged(t) \/ Cooling(t)
    /\ AfterSession(t)
    /\ UNCHANGED <<rpc, rpcVars, portVars, wireVars, dmode, nReq, dirty, stray>>

\* The WiFi bridge has no CLI mode: the session is taken as started, once what had
\* been received is dropped.
SessionWifi(t) ==
    /\ call[t].pc = "session"
    /\ ~Flagged(t) /\ ~Cooling(t)
    /\ NamedWifi
    /\ rx' \in Suffixes(rx)
    /\ SetFlag(t, TRUE)
    /\ AfterSession(t)
    /\ UNCHANGED <<rpc, nRpc, cool, portVars, tx, dmode, nReq, dirty, stray>>

\* probe_rpc: drop what is buffered, drain what arrives, send a ping.
SendProbe(t) ==
    /\ tx' = IF port THEN Append(tx, Bytes("probe", 0)) ELSE tx
    /\ rx' = <<>>
    /\ dirty' = TRUE
    /\ Goto(t, "probe")

\* First probe on a USB port, unless FLIPPER_FORCE_START_RPC_SESSION skips it.
SessionProbe(t) ==
    /\ call[t].pc = "session"
    /\ ~Flagged(t) /\ ~Cooling(t)
    /\ ~NamedWifi
    /\ IF ForceStart THEN /\ rx' \in Suffixes(rx) /\ UNCHANGED tx
                          /\ dirty' = TRUE
                          /\ Goto(t, "attempt")
                     ELSE SendProbe(t)
    /\ UNCHANGED <<rpc, mode, rpcVars, portVars, dmode, nReq, stray>>

\* The frame read is a ping answer with the probe's data.  With nothing else on
\* the wire the link is known to be in step again.
ProbeOk(t) ==
    /\ call[t].pc = "probe"
    /\ rx # <<>>
    /\ Head(rx).k = "probe"
    /\ rx' = Tail(rx)
    /\ SetFlag(t, TRUE)
    /\ dirty' = (tx # <<>> \/ Tail(rx) # <<>> \/ orphan)
    /\ AfterSession(t)
    /\ UNCHANGED <<rpc, nRpc, cool, portVars, tx, dmode, nReq, stray>>

\* Nothing arrived in time, the port is closed, or text was read as a varint
\* length, which swallows some of what follows it.
Misread ==
    \/ (rx = <<>> \/ ~port) /\ rx' = rx
    \/ rx # <<>> /\ Head(rx).k = "text" /\ rx' \in Suffixes(Tail(rx))

\* The probe was not answered: another attempt, or give up for the cooldown.
ProbeFail(t) ==
    /\ call[t].pc = "probe"
    /\ \/ Misread
       \/ rx # <<>> /\ Head(rx).k \in {"ans", "err"} /\ rx' = Tail(rx)
    /\ dirty' = TRUE
    /\ IF call[t].n < Attempts
         THEN Goto(t, "attempt") /\ UNCHANGED <<mode, started, cool>>
         ELSE /\ SetFlag(t, FALSE)
              /\ cool' = [cool EXCEPT ![call[t].mine] = TRUE]
              /\ AfterSession(t)
    /\ UNCHANGED <<rpc, nRpc, portVars, tx, dmode, nReq, stray>>

\* start_session_attempt: cancel a half-typed line, then start_rpc_session.
Attempt(t) ==
    /\ call[t].pc = "attempt"
    /\ tx' = IF port THEN tx \o <<Bytes("ctrlc", 0), Bytes("start", 0)>> ELSE tx
    /\ call' = [call EXCEPT ![t].pc = "reprobe", ![t].n = call[t].n + 1]
    /\ UNCHANGED <<out, clientVars, rpcVars, portVars, rx, dmode, nReq, dirty, stray>>

Reprobe(t) ==
    /\ call[t].pc = "reprobe"
    /\ SendProbe(t)
    /\ UNCHANGED <<rpc, mode, rpcVars, portVars, dmode, nReq, stray>>

\* Five seconds pass since the last failed negotiation.
CooldownEnds(r) ==
    /\ cool[r]
    /\ cool' = [cool EXCEPT ![r] = FALSE]
    /\ UNCHANGED <<call, out, clientVars, nRpc, started, portVars, wireVars, dmode,
                   nReq, dirty, stray>>

-----------------------------------------------------------------------------
(***************************************************************************)
(* One round trip of an RPC method.                                        *)
(***************************************************************************)

\* The family of response that a job's request asks for.  desktop_is_locked is
\* answered by a status alone.
Ask(j) == CASE j \in Families -> j
            [] j = "locked" -> "ack"
            [] OTHER -> "typed"

\* storage_write sends its has_next fragments; only the last one is answered.
SendFragment(t) ==
    /\ call[t].pc = "send"
    /\ call[t].job = "ack"
    /\ port
    /\ call[t].n < MaxFrag
    /\ tx' = Append(tx, Bytes("frag", call[t].req))
    /\ call' = [call EXCEPT ![t].n = call[t].n + 1]
    /\ UNCHANGED <<out, clientVars, rpcVars, portVars, rx, dmode, nReq, dirty, stray>>

Request(t) == [k |-> "req", id |-> call[t].req, ask |-> Ask(call[t].job)]

\* Mutant: a write is reported done once sent, its answer is not awaited.
SendWithoutWaiting(t) ==
    /\ call[t].pc = "send"
    /\ call[t].job # "reboot"
    /\ port
    /\ tx' = Append(tx, Request(t))
    /\ IF call[t].job = "ack"
         THEN Finish(t, "ok", TRUE)
         ELSE /\ call' = [call EXCEPT ![t].pc = "recv", ![t].n = 0]
              /\ UNCHANGED <<out, lock>>
    /\ UNCHANGED <<rpc, mode, rpcVars, portVars, rx, dmode, nReq, dirty, stray>>

\* The request goes out; the call waits for one frame.
SendRequest(t) ==
    /\ call[t].pc = "send"
    /\ call[t].job # "reboot"
    /\ port
    /\ tx' = Append(tx, Request(t))
    /\ call' = [call EXCEPT ![t].pc = "recv", ![t].n = 0]
    /\ UNCHANGED <<out, clientVars, rpcVars, portVars, rx, dmode, nReq, dirty, stray>>

\* system_reboot_update: fire and forget.
SendReboot(t) ==
    /\ call[t].pc = "send"
    /\ call[t].job = "reboot"
    /\ port
    /\ tx' = Append(tx, Bytes("reboot", call[t].req))
    /\ Finish(t, "ok", TRUE)
    /\ dirty' = TRUE
    /\ UNCHANGED <<rpc, mode, rpcVars, portVars, rx, dmode, nReq, stray>>

\* get_device_info tries property.get when it has collected nothing (one of its
\* six keys here: the others repeat the same round trip); gpio_read reads the
\* pin's value after its mode.  What the first trip took still counts.
SecondTrip(t, j, isOwn) ==
    /\ nReq' = nReq + 1
    /\ call' = [call EXCEPT ![t] = [@ EXCEPT !.pc = "session", !.job = j, !.req = nReq + 1,
                                            !.n = 0, !.own = dirty \/ isOwn, !.seen = FALSE]]
    /\ UNCHANGED <<out, lock>>

\* The port was closed under the call: send() raises, the call fails or falls back.
SendFails(t) ==
    /\ call[t].pc = "send"
    /\ ~port
    /\ IF call[t].job = "info" THEN SecondTrip(t, "prop", call[t].own)
                              ELSE Finish(t, "error", TRUE) /\ UNCHANGED nReq
    /\ dirty' = (dirty \/ WireInUse)
    /\ UNCHANGED <<rpc, mode, rpcVars, portVars, wireVars, dmode, stray>>

\* No frame in time or an undecodable one.  A stream that has begun is returned
\* as far as it got by device_info and power_info, and raises in storage_list.
RecvNone(t) ==
    /\ call[t].pc = "recv"
    /\ Misread
    /\ dirty' = TRUE
    /\ IF call[t].job = "info" /\ ~call[t].seen
         THEN SecondTrip(t, "prop", call[t].own)
         ELSE Finish(t, IF \/ call[t].job = "info"
                           \/ call[t].job = "power" /\ call[t].n > 0
                          THEN "ok" ELSE "error", call[t].own) /\ UNCHANGED nReq
    /\ UNCHANGED <<rpc, mode, rpcVars, portVars, tx, dmode, stray>>

\* Whether this frame, like those before it, answers the call's own request.
TookOwn(t) == call[t].own /\ Head(rx).id = call[t].req /\ Head(rx).k = "ans"

\* _receive_main_message: the oldest frame, whatever its command_id.  A call that
\* stops in the middle of a stream leaves the rest of it behind.
Take(t, jobs) ==
    /\ call[t].pc = "recv"
    /\ call[t].job \in jobs
    /\ rx # <<>>
    /\ Head(rx).k # "text"
    /\ rx' = Tail(rx)
    /\ UNCHANGED <<rpc, mode, rpcVars, portVars, tx, dmode, stray>>

EndTrip == dirty' = (dirty \/ Head(rx).more)

\* The call ends with this frame.
Return(t, okay) ==
    /\ Finish(t, IF okay THEN "ok" ELSE "error", TookOwn(t))
    /\ UNCHANGED nReq

\* The next frame of a stream is awaited.
Continue(t, some) ==
    /\ call' = [call EXCEPT ![t].n = call[t].n + 1, ![t].own = TookOwn(t), ![t].seen = some]
    /\ UNCHANGED <<out, lock, nReq, dirty>>

MoreToCome(t) == Head(rx).ok /\ Head(rx).more /\ call[t].n < StreamCap

\* Write, mkdir, delete, rename, app_start: any frame with status OK.
RecvAck(t) ==
    /\ Take(t, {"ack"})
    /\ Return(t, Head(rx).ok)
    /\ EndTrip

\* Methods that also check HasField for their response.  storage_read takes the
\* first frame, of as many as the device needs for the file.
RecvTyped(t) ==
    /\ Take(t, {"typed", "read", "reconnect", "prop"})
    /\ Return(t, Head(rx).ok /\ Head(rx).ask = Ask(call[t].job))
    /\ EndTrip

\* desktop_is_locked: status OK means locked and ERROR unlocked, in whatever frame; any
\* other status is a failure.
RecvLocked(t) ==
    /\ Take(t, {"locked"})
    /\ \/ Return(t, TRUE)
       \/ ~Head(rx).ok /\ Return(t, FALSE)
    /\ EndTrip

\* gpio_read, first the pin's mode: an error status may mean "not configured",
\* which goes on to the value as well.
RecvGpio(t) ==
    /\ Take(t, {"gpio"})
    /\ \/ /\ Head(rx).ok => Head(rx).ask = "typed"
          /\ SecondTrip(t, "gpio2", TookOwn(t))
       \/ /\ Head(rx).ok => Head(rx).ask # "typed"
          /\ Return(t, FALSE)
    /\ EndTrip

\* gpio_read, the value: any frame will do, a bad one reads as value None.
RecvGpioValue(t) ==
    /\ Take(t, {"gpio2"})
    /\ Return(t, TRUE)
    /\ EndTrip

\* _storage_list_frames: no HasField check; raises on a bad status and when the
\* stream exceeds the cap.
RecvList(t) ==
    /\ Take(t, {"list"})
    /\ IF MoreToCome(t)
         THEN Continue(t, TRUE)
         ELSE /\ Return(t, Head(rx).ok /\ ~Head(rx).more)
              /\ EndTrip

\* device_info, power_info: collect until has_next is clear, the cap or a bad
\* status.  power_info fails on a bad first status, device_info falls back.
RecvInfo(t) ==
    /\ Take(t, {"info", "power"})
    /\ LET some == \/ call[t].seen
                   \/ Head(rx).ask = call[t].job /\ (Head(rx).ok \/ call[t].n > 0)
       IN IF MoreToCome(t)
            THEN Continue(t, some)
            ELSE /\ IF call[t].job = "info" /\ ~some
                      THEN SecondTrip(t, "prop", TookOwn(t))
                      ELSE Return(t, Head(rx).ok \/ call[t].n > 0)
                 /\ EndTrip

-----------------------------------------------------------------------------
(***************************************************************************)
(* cli_exec and enter_cli: StopSession, then the text shell.               *)
(***************************************************************************)

\* send_stop_session: the StopSession frame; a closed port raises.
CliStop(t) ==
    /\ call[t].pc = "stop"
    /\ IF port THEN tx' = Append(tx, Bytes("stop", 0)) /\ Goto(t, "stopped")
               ELSE Finish(t, "error", TRUE) /\ UNCHANGED tx
    /\ dirty' = (dirty \/ port)
    /\ UNCHANGED <<rpc, mode, rpcVars, portVars, rx, dmode, nReq, stray>>

\* The rest of send_stop_session (drain, flag), the mode, and Ctrl-C CR.
CliReset(t) ==
    /\ call[t].pc = "stopped"
    /\ rx' = <<>>
    /\ SetFlag(t, FALSE)
    /\ mode' = "CLI"
    /\ IF call[t].job = "cli" /\ port
         THEN tx' = Append(tx, Bytes("ctrlc", 0)) /\ Goto(t, "prompt")
         ELSE /\ Finish(t, IF call[t].job = "cli" THEN "error" ELSE "ok", TRUE)
              /\ UNCHANGED tx
    /\ UNCHANGED <<rpc, nRpc, cool, portVars, dmode, nReq, dirty, stray>>

\* The prompt came or 2 s passed; the buffer is cleared and the command sent.
CliCommand(t) ==
    /\ call[t].pc = "prompt"
    /\ IF port
         THEN /\ tx' = Append(tx, Bytes(IF call[t].torn THEN "torn_cmd" ELSE "cmd", 0))
              /\ rx' = <<>>
              /\ Goto(t, "output")
         ELSE Finish(t, "error", TRUE) /\ UNCHANGED wireVars
    /\ UNCHANGED <<rpc, mode, rpcVars, portVars, dmode, nReq, dirty, stray>>

\* Output up to the prompt, or the time-out with completed=False.
CliOutput(t) ==
    /\ call[t].pc = "output"
    /\ rx' = <<>>
    /\ Finish(t, IF port THEN "ok" ELSE "error", TRUE)
    /\ UNCHANGED <<rpc, mode, rpcVars, portVars, tx, dmode, nReq, dirty, stray>>

-----------------------------------------------------------------------------
(***************************************************************************)
(* The device and the serial driver (external): the device reads its bytes *)
(* in order and may be arbitrarily slow.                                   *)
(***************************************************************************)

\* The device reads one item.
Read(kinds, in) ==
    /\ tx # <<>>
    /\ Head(tx).k \in kinds
    /\ dmode = in
    /\ UNCHANGED <<call, out, clientVars, rpcVars, portVars, nReq, dirty>>

\* Output written while the host has the port closed may be lost.
Emit(frame) ==
    /\ Len(rx) < MaxRx
    /\ \/ rx' = Append(rx, frame)
       \/ ~port /\ rx' = rx

Signal(kind, okay) == [k |-> kind, id |-> Head(tx).id, ask |-> "none", ok |-> okay, more |-> FALSE]

\* A request in an RPC session: one answer, or a stream of them.
DevAnswer ==
    /\ Read({"req"}, "RPC")
    /\ \E ok \in BOOLEAN :
       \E more \in IF ok /\ Head(tx).ask \in {"read", "list", "info", "power"} THEN BOOLEAN ELSE {FALSE} :
         /\ Emit([k |-> "ans", id |-> Head(tx).id, ask |-> Head(tx).ask, ok |-> ok, more |-> more])
         /\ tx' = IF more THEN tx ELSE Tail(tx)
    /\ UNCHANGED <<dmode, stray>>

DevProbe ==
    /\ Read({"probe"}, "RPC")
    /\ Emit(Signal("probe", TRUE))
    /\ tx' = Tail(tx)
    /\ UNCHANGED <<dmode, stray>>

DevFragment ==
    /\ Read({"frag"}, "RPC")
    /\ tx' = Tail(tx)
    /\ UNCHANGED <<rx, dmode, stray>>

\* StopSession and Reboot leave the session; behind the bridge no shell follows.
DevLeave ==
    /\ Read({"stop", "reboot"}, "RPC")
    /\ dmode' = "CLI"
    /\ IF medium = "usb" THEN Emit(Signal("text", FALSE)) ELSE UNCHANGED rx
    /\ tx' = Tail(tx)
    /\ UNCHANGED stray

\* Text inside a session: ERROR_DECODE and the session closes.
DevDecodeError ==
    /\ Read({"ctrlc", "start", "cmd", "torn_cmd"}, "RPC")
    /\ dmode' = "CLI"
    /\ Emit(Signal("err", FALSE))
    /\ tx' = Tail(tx)
    /\ stray' = (stray \/ (Head(tx).k = "cmd" /\ medium = "usb"))

\* The shell echoes what it is sent; start_rpc_session switches to RPC.  Behind
\* the WiFi bridge there is no shell: the bytes go nowhere.
DevShell ==
    /\ Read({Head(tx).k}, "CLI")
    /\ IF medium = "usb" THEN Emit(Signal("text", FALSE)) ELSE UNCHANGED rx
    /\ dmode' = IF Head(tx).k = "start" /\ medium = "usb" THEN "RPC" ELSE "CLI"
    /\ tx' = Tail(tx)
    /\ UNCHANGED stray

\* Reset or unplug: is_connected() does not notice.
DevReset ==
    /\ "reset" \in Faults
    /\ dmode' = "CLI"
    /\ tx' = <<>>
    /\ rx' \in Prefixes(rx)
    /\ dirty' = (dirty \/ WireInUse)
    /\ call' = Tear(call)
    /\ UNCHANGED <<out, clientVars, rpcVars, portVars, nReq, stray>>

\* A read left running by a cancelled call takes what arrives, then ends.
OrphanRead ==
    /\ orphan
    /\ rx' \in Suffixes(rx)
    /\ orphan' = FALSE
    /\ UNCHANGED <<call, out, clientVars, rpcVars, medium, port, conn, tx, dmode, nReq,
                   dirty, stray>>

-----------------------------------------------------------------------------
Negotiate(t) ==
    \/ SessionReady(t) \/ SessionWifi(t) \/ SessionProbe(t)
    \/ ProbeOk(t) \/ ProbeFail(t) \/ Attempt(t) \/ Reprobe(t)

RoundTrip(t) ==
    \/ SendFragment(t) \/ SendRequest(t) \/ SendReboot(t) \/ SendFails(t)
    \/ RecvNone(t) \/ RecvAck(t) \/ RecvTyped(t) \/ RecvLocked(t) \/ RecvGpio(t)
    \/ RecvGpioValue(t) \/ RecvList(t) \/ RecvInfo(t)

Shell(t) == CliStop(t) \/ CliReset(t) \/ CliCommand(t) \/ CliOutput(t)

TaskStep(t) ==
    \/ OpenPort(t) \/ OpenFail(t) \/ Settle(t)
    \/ Negotiate(t) \/ RoundTrip(t) \/ Shell(t)

Device ==
    \/ DevAnswer \/ DevProbe \/ DevFragment \/ DevLeave \/ DevDecodeError
    \/ DevShell \/ DevReset \/ OrphanRead

Next ==
    \/ \E t \in Tasks :
         \/ \E j \in Jobs : BeginLive(t, j) \/ GetRpcFails(t, j) \/ BeginDisconnected(t, j)
         \/ Acquire(t) \/ AcquireEnter(t) \/ TaskStep(t) \/ Cancel(t) \/ CancelWaiting(t)
    \/ \E r \in Rpcs : CooldownEnds(r)
    \/ Device

Spec == Init /\ [][Next]_vars

\* A runnable task runs; asyncio.Lock wakes its waiters in FIFO order.
FairSpec ==
    /\ Spec
    /\ \A t \in Tasks : WF_vars(TaskStep(t)) /\ SF_vars(Acquire(t) \/ AcquireEnter(t))

-----------------------------------------------------------------------------
(***************************************************************************)
(* Properties.                                                             *)
(***************************************************************************)

CallsOK ==
    /\ call \in [Tasks -> Call]
    /\ out \in Outcome
    /\ lock \in Tasks \cup {NoTask}

ClientOK ==
    /\ rpc \in Rpcs
    /\ mode \in {"UNKNOWN", "RPC", "CLI"}
    /\ nRpc \in Rpcs
    /\ started \in [Rpcs -> BOOLEAN]
    /\ cool \in [Rpcs -> BOOLEAN]

PortOK ==
    /\ medium \in Media
    /\ port \in BOOLEAN /\ conn \in BOOLEAN /\ orphan \in BOOLEAN
    /\ dmode \in {"CLI", "RPC"}

WireOK == tx \in Seq(TxItem) /\ rx \in Seq(Frame)

HistoryOK == nReq \in Nat /\ dirty \in BOOLEAN /\ stray \in BOOLEAN

\* Every variable stays in its domain: the calls, the client and its RPC objects,
\* the port, the wire and the history.
TypeOK == CallsOK /\ ClientOK /\ PortOK /\ WireOK /\ HistoryOK

\* Only the holder of _io_lock is inside an exchange, and it is inside one:
\* "Every CLI and RPC round-trip acquires it so frames never interleave on the
\* one link" (rpc/client.py).
Serialized == \A t \in Tasks : call[t].pc \in Locked <=> lock = t

\* Answers are not matched by command_id, yet a call that succeeds on a link no
\* exchange was given up on (since the last negotiation probe that was answered
\* with nothing else outstanding) has taken only answers to its own requests.
Correlated == out.res = "ok" /\ out.sure => out.own

InStep(c) ==
    /\ c.own
    /\ c.pc \in {"session", "stop", "send", "recv"}
    /\ c.pc \in {"session", "stop"} => tx = <<>> /\ rx = <<>>
    /\ \A i \in 1..Len(tx) :
         /\ tx[i].id = c.req /\ tx[i].k \in {"frag", "req"}
         /\ tx[i].k = "req" => i = Len(tx) /\ c.pc = "recv"
    /\ \A i \in 1..Len(rx) :
         /\ rx[i].id = c.req /\ rx[i].k \in {"ans", "text"}
         /\ rx[i].k = "ans" => c.pc = "recv"
         /\ rx[i].k = "ans" /\ ~rx[i].more => i = Len(rx) /\ tx = <<>>

OrphanIsDirty == orphan => dirty
OwnUntilRecv == \A t \in Tasks : call[t].pc # "recv" => call[t].own
QuietLink == ~dirty /\ lock = NoTask => tx = <<>> /\ rx = <<>>
HeldLink == \A t \in Tasks : ~dirty /\ lock = t => InStep(call[t])

\* While no exchange has been given up, the link is empty between round trips, and
\* within one it carries only that round trip's bytes, the final frame last.
LinkInStep == OrphanIsDirty /\ OwnUntilRecv /\ QuietLink /\ HeldLink

\* The device, in mode d, is in its shell once it has read the first n items of s:
\* it is there already or a StopSession or Ctrl-C among them puts it there, and such
\* an item follows every start_rpc_session.
ShellAfter(s, d, n) ==
    /\ \/ d = "CLI"
       \/ \E j \in 1..n : s[j].k \in {"stop", "ctrlc"}
    /\ \A i \in 1..n : s[i].k = "start" =>
         \E j \in i+1..n : s[j].k \in {"stop", "ctrlc"}

CommandsFollowStop == medium = "usb" =>
    \A i \in 1..Len(tx) : tx[i].k = "cmd" => ShellAfter(tx, dmode, i - 1)
StopComesFirst == medium = "usb" =>
    \A t \in Tasks : lock = t /\ call[t].pc \in {"stopped", "prompt"} /\ ~call[t].torn =>
        ShellAfter(tx, dmode, Len(tx))

\* On a USB port every command on the wire, and the one the lock holder is about to
\* send, comes after something that leaves the device in its shell.
ShellInStep == CommandsFollowStop /\ StopComesFirst

\* A CLI command is never read by the device inside an RPC session, unless the
\* port was closed or the device reset under that very exchange.
CommandInShell == ~stray

\* A transport that reports itself connected has an RPC layer above it, whatever
\* reconnects race; over WiFi it may lack one only while a connect() is settling.
ConnectedHasRpc ==
    Connected /\ rpc = 0 => FlagsEarly /\ \E t \in Tasks : call[t].pc = "settling"

\* The flag alone, where it is set last: it never outlives the RPC layer.
FlagHasRpc == conn /\ ~FlagsEarly => rpc # 0

\* Every tool call ends, so the lock is never held for good.
CallsEnd == \A t \in Tasks : call[t].pc # "idle" ~> call[t].pc = "idle"

=============================================================================
