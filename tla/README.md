# A TLA+ model of flipperzero-mcp

flipperzero-mcp lets an MCP client drive a Flipper Zero: Python tools talk to
the device over USB, or over WiFi through an ESP32 bridge whose C firmware is in
the same repository. This directory holds the TLA+ modules that model its core,
the TLC configurations that check them on small instances, and TLAPS proofs of
the properties that matter most for every instance.

Paths below are relative to the repository; `rpc/`, `tools/`, `transport/` and
`firmware/` are under `src/flipperzero_mcp/`, the bridge is
`firmware/tcp_uart_bridge/main/`.

## The system

| part | state | operations | what is hard |
|---|---|---|---|
| `FlipperClient` (`rpc/client.py`) | `_io_lock`, `rpc`, `_mode` | `connect`, `disconnect`, `enter_rpc`, `enter_cli`, `cli_exec` | one link shared by concurrent tool calls; `connect` and `disconnect` take no lock |
| `ProtobufRPC` (`rpc/protobuf_rpc.py`) | session flag, cooldown, receive buffer | negotiation, about 25 request methods, `send_stop_session` | answers are never matched by `command_id`; late answers, streams, time-outs |
| transports (`transport/`) | connected flag, handle, active medium | `connect`, `disconnect`, `send`, `receive` | reads that outlive a cancelled call; flags that outlive the device |
| tools (`tools/`) | none of their own | gates, `ensure_connected`, `get_rpc`, one or more round trips | cancellation at any await |
| storage tools (`tools/storage.py`) | files of the device and of the host | push, pull, list, queries, mkdir, delete, rename | a transfer is two round trips, each with the lock to itself |
| firmware installer (`firmware/installer.py`, `tools/firmware.py`) | loop counters and the status of the file under way | push, verify, resync, update, reboot, poll | lost acknowledgements, a wedged session, retries of what was already done |
| bundles, flavor, codes (`firmware/`) | none | download, unpack, classify | I/O and text |
| server, config, errors, prompts, resources | environment | start-up, registration | none |
| bridge TCP server (`tcp_server.c`) | `s_client_sock`, `s_client_generation`, descriptors | `accept_task`, `rx_task`, `tcp_server_send` | tasks that share descriptors by number |
| bridge expansion protocol (`expansion_module.c`) | `s_state`, `s_rx_len`, the baud rate, the UART | handshake, heartbeat, watchdog, RPC frames | all of it written by three tasks without a mutex |
| bridge `main.c` and WiFi manager | retry counter, event bits | Flipper connection loop, `on_tcp_rx`; station, captive portal | racing the RX task; giving up after five retries |
| HTTP API, statistics, `uart_bridge.c` | counters | reporting | nothing; `uart_bridge.c` is not in the build |

A tool call runs `ensure_connected` (which may disconnect and connect), takes
the client's current `ProtobufRPC`, waits for the shared lock, negotiates an RPC
session when the flag says there is none, sends a frame and takes the oldest
frame that arrives. `cli_exec` leaves the session with a StopSession frame and
uses the shell instead. Over WiFi the bytes pass through the bridge's TCP server
and expansion protocol. The installer is a client of the same calls.

What would make these parts correct: exchanges do not interleave; an answer
reaches the call that asked for it; a shell command is never read as an RPC
frame; a connected transport is usable; every call ends and releases the lock;
the device is rebooted into its updater only with a verified bundle; an install
ends and reports truthfully; what a storage tool reports was true of the device;
frames come out of the byte stream whole and in order; the bridge neither leaks
descriptors nor keeps a dead client, and always gets back into a session.
`PROJECT.json` lists the hazards line by line with the properties that answer
them.

## Modules

| module | models |
|---|---|
| `FlipperLink` | tool calls, client, RPC layer, transport, and the device as the other end of the link |
| `FirmwareInstall` | the firmware tool and the installer, one step per round trip, with the device's card and updater |
| `Flash` | what a flash promises, without files, retries and sessions; `FirmwareInstall` implements it |
| `StorageTools` | the storage tools as concurrent calls, with the files of device and host |
| `FrameChannel` | what the framed link promises: a queue of whole frames |
| `Framing` | varint lengths, chunks, `receive_exact` and its buffer; it implements `FrameChannel` |
| `TcpServer` | the bridge's TCP server and the socket layer's descriptor table |
| `ExpansionModule` | the bridge's expansion protocol and connection loop, and the Flipper at the other end of the UART |
| `FlipperLinkProofs`, `FlipperShellProofs` | theorems about `FlipperLink` |
| `FirmwareInstallProofs`, `FlashProofs` | theorems about `FirmwareInstall`, and that it implements `Flash` |
| `StorageToolsProofs`, `TcpServerProofs`, `ExpansionModuleProofs` | theorems about those modules |
| `FramingProofs` | theorems about `Framing`, and that it implements `FrameChannel` |
| `MC...` | instances for TLC |

### FlipperLink

A step is what an asyncio task does between two suspension points. `call[t]`
holds where tool call `t` is and its locals, `lock` is `_io_lock`, `rpc` the
index of the client's current `ProtobufRPC` (0 is `None`), `started` and `cool`
its session flag and negotiation cooldown, `port`/`conn`/`medium` the transport,
`tx` and `rx` the bytes under way, `dmode` what the device takes its input for.
`dirty`, `stray`, `nReq`, and the fields `own` and `torn` of a call are history:
no guard of a code action reads `dirty` or `stray`, and `torn` only labels the
command that is sent.

| actions | code |
|---|---|
| `BeginLive`, `GetRpcFails`, `BeginDisconnected` | `ensure_connected`, `get_rpc`, the first lines of the tools |
| `Disconnect`, `OpenPort`, `OpenFail`, `Settle` | `disconnect`, `connect` of client and transports |
| `Acquire`, `AcquireEnter`, `Cancel`, `CancelWaiting` | `async with self._io_lock`; `CancelledError` and `wait_for` |
| `SessionReady` ... `Reprobe`, `CooldownEnds` | `_ensure_rpc_session_started` |
| `SendFragment`, `SendRequest`, `SendReboot`, `SendFails`, `Recv...` | the RPC methods, grouped by what they do with the frame they take |
| `CliStop` ... `CliOutput` | `send_stop_session`, `_cli_exchange`, `_read_until_prompt` |
| `OrphanRead` | the blocking read a cancelled call leaves in the executor, in a drain as in a receive |
| `Dev...` | the device, external: it reads in order and may be arbitrarily slow, answer with an error, or reset |

A call of two round trips (`gpio_read`, the fallback of `get_device_info`) keeps
`own` from the first to the second, so `Correlated` speaks of both.
`desktop_is_locked` has an action of its own, `RecvLocked`: it looks at the status
only, and an ERROR status is a result. A session over WiFi starts by clearing the
receive buffer, which drops what the host had received of `rx`.

Abstractions. A frame is its round trip, its family of response, its status and
`has_next`. A file may be streamed (family `"read"`): `storage_read` takes the first
frame and leaves the others, which makes the link dirty. Text taken for a frame is
`Misread`: a varint length read from it swallows any amount of what follows, which
`Framing` has in detail. The six property keys of `get_device_info`'s fallback are
one round trip. With both media the transport is `AutoTransport`; the model keeps
the receive buffer that `AutoTransport` clears on `connect`, and the medium already
opened while it settles, so it has more behaviours there than the code. On USB
`disconnect` and the following open run without a suspension in between; the model
splits them for all media. On WiFi `disconnect` waits in `wait_closed()` with the
socket already closing, so `is_connected()` is already False and later disconnects
wait behind it: the model takes the whole of it at its start. A send on a closing
socket is an error at once. A socket's `drain()` returns. A `serial.write` that a
cancelled call leaves in the executor is taken to complete at once or not at all;
one delayed past the bytes of a later call is not modelled. The environment gates,
the risk table and the refusal of shell chaining come before a call touches any
state: a refused call is one that does not start.

### FirmwareInstall

`job[i]` is one call of `flipperzero_firmware_install` with the locals of
`_push_file` and of the poll; `disk` is the update folder shared by all installs;
`wedged`, `phase` and `image` are the device. `BeginInstall` makes the tool's checks
in the code's order, `CheckTarget` resolves the bundle and compares its target with
a second reading of the device. `Write`, `CheckMd5`, `CheckSize`, `Resync`,
`ResyncFails` and `EndPass` are `_push_file` and its helpers; `TriggerUpdate`,
`ResyncUpdate`, `RebootUpdate` and `RebootEscapes` the rest of `install_bundle`;
`PollMisses`, `PollReads`, `PollEnds` are `_reconnect_and_classify`. `Cancel` ends a
call at any await: a write under way may still reach the card, a reconnect may have
cleared the wedge, a reboot request may have left. `RebootEscapes` is `send()`
raising, which no handler catches: the request may have left by then (`WiFiTransport`
writes before it drains, `USBTransport` writes in an executor), so the device may
reboot all the same.

`WriteMay`, `DigestMay`, `SizeMay`, `CodeMay` say what the device may answer: an
acknowledged write may be damaged, or not have happened at all when the
acknowledgement was an earlier command's OK frame; an unacknowledged one may be
complete; a size says nothing of the bytes. Digests, sizes and update codes, in
contrast, answer the request they are taken for: a late one of another request is
what `Correlated` is about in `FlipperLink`. `verified`, `accepted` and `sent` are
history. The tool always passes a resync callback, so the branch without one is not
modelled; nothing deletes a file of the update folder; `mkdir` results are ignored
by the code, and an exception of `get_device_info` or `mkdir` ends the call like
`Cancel`.

`Flash` is the abstract specification: files are checked in one by one, a bundle with
all of them in may be accepted, an accepted one asks for the reboot once, and only a
device that was asked goes into its updater. A flash that fails has not asked. One
whose call ended without knowing (`send()` raised, the call was cancelled, the device
never came back) is `"unknown"`, not failed. `AbstractFlash` maps a flash's stage from
where the install is and its files from `verified`.

### StorageTools

`job[t]` is one storage tool with its locals, `todo` and `rx` are the requests and
the frames under way, `card` and `host` the files, `chain` the `has_next` chain of
a write whose last fragment never came. `Begin` and `Refuse` are the gate, the
read of the local file and `get_rpc`; `Ask` takes the lock and sends; `Receive`
and `TimeOut` give the frame, or none, to `SecondTrip`, `VerifyPush`,
`VerifyPull`, `ListFrame` or `OnlyTrip`, the code after the `await`. `Taken` says
which frames the RPC method of the call accepts. The device (`Serve`, `Fragment`)
is external: it takes requests in order and late, may refuse any of them, damage
what it writes, and streams a file in `Frames[c]` parts.

A content is a name and a cut: cut 0 is the whole, any other a different part of
it. A digest is the data it was made of, so two data have the same digest only if
they are equal. There is one connection; sessions and reconnects are
`FlipperLink`'s. `info`, `stat` and `timestamp` differ in nothing but the kind of
their response, so the run has `stat`. `held`, `dirty`, `was` and `last` are
history.

### Framing

`wire` holds the bytes that have arrived, `buf` is `_rx_buffer`; `value`, `count`,
`weight` (the power of the base that `shift` stands for) and `need` are the locals
of `_read_varint` and `_receive_main_message`. `Chunk`,
`TimeOut` and `Cancel` are `receive_exact`; `LengthByte` and `Payload` the two
readers; `Drain` is what negotiation throws away; `OrphanRead` the read that a
cancelled call leaves running. A byte is a digit of base `Base` and a
continuation bit, and `Encode` is `_encode_varint`. `pending` and `skewed` are
history: the frames still to be received, and whether the reader may stand inside
one. Out of step a payload may or may not decode.

`FrameChannel` is the abstract queue: a receive is outside, waiting for a frame, or
inside one (`at`). In step it returns the oldest frame, or nothing and loses nothing.
It comes out of step (`Slip`) only inside a frame, or while waiting when the oldest
frame is one the reader refuses; otherwise only an orphan read (`Steal`) and a drain
that meets frames under way (`Flush`, outside a receive) can cost step. `Channel` maps
`at` from the reader's locals (`At`) and the refused payloads from their lengths
(`Refused`), the rest by name.

### ExpansionModule

A step is what a FreeRTOS task does between two places where it can lose the
processor. `state`, `baud`, `silent` and `kept` are `s_state`, the UART's rate, the
age of `s_last_rx_tick` and whether `s_rx_len` still counts the frame being
processed; `rx`, `con` and `tcp` say where `uart_rx_task`, `flipper_connect_task`
and `expansion_send_rpc` are. `send_frame` is two steps, `WriteFrame` and
`WriteChecksum`: a frame during which another task has been between its two writes
reaches the Flipper as noise, as does one sent at another rate than it listens at.
`Connect`, `Suspend` and `Pulse` are `expansion_connect` up to `s_state`,
`signal_presence` up to `vTaskSuspend`, which stops the RX task wherever it is, and
the rest, which deletes the UART driver; if the task was inside the driver,
`PulsePanics` lets the bridge restart instead. `RxWraps` is `process_frame`
returning to an `s_rx_len` that was reset: `s_rx_len - frame_size` wraps around, and
the bridge restarts. A restart waits for the WiFi first (`Booting`, `WifiUp`). A
data frame is handed to the TCP client before it is acknowledged (`Forward`): the RX
task is then inside `send()`, which returns when the client reads or goes
(`RxForwarded`), if ever. The Flipper (external) follows its protocol, and may
refuse, leave or be unplugged.

Frames are whole; a partial one is noise. Noise never has a right checksum,
though an 8-bit XOR lets one in 256 through. The RX buffer never overflows (at
most 66 bytes are left in it and 128 are read), so its truncation is left out.
`RestEnds` relies on the code's times: the three seconds between attempts outlast
the 50 ms of a baud switch. What `send()` does to the sockets is `TcpServer`'s
`SendBegin` and `SendEnd`; the statistics are left out.

### TcpServer

A step is what a FreeRTOS task does between blocking calls, a critical section
of `s_client_mutex` being one step. `table` maps a descriptor number to the
connection it refers to, `acc` is `accept_task` and its `new_sock`, `rx[c]` the
`rx_task` of connection `c` with its `sock`, `snd` the descriptor
`tcp_server_send` has copied. Connection `c` is the one installed with
generation `c`. The socket layer gives out the lowest free number. The HTTP
server's sockets, which come from the same table, and `tcp_server_stop`, which
nobody calls, are left out.

## Runs

| run | checks | result |
|---|---|---|
| `link_safety` | `TypeOK`, `Serialized`, `Correlated`, `LinkInStep`, `CommandInShell` | pass |
| `link_reconnect` | `Correlated`, `LinkInStep`, `ConnectedHasRpc` | pass |
| `link_wifi` | `Correlated`, `ConnectedHasRpc` | pass |
| `link_liveness` | `CallsEnd` | pass |
| `install_single` | `TypeOK`, `PushedIsLanded`, `RewriteOnlyOnMismatch`, `UpdateIsEarned`, `InstallEnds`, `ImplementsFlash` | pass |
| `install_confirm` | `ConfirmedIsChanged` | violated |
| `tcp_clients` | `OpenIsHeld`, `RegisteredIsServed`, `GoneIsDropped` | pass |
| `tcp_reuse` | `ClosesOwn` | violated |
| `storage_calls` | `TypeOK`, `ResultHeld`, `PulledExisted` | pass |
| `storage_pull` | `VerifiedIsAsked` | violated |
| `framing_stream` | `TypeOK`, `InSync`, `ImplementsChannel` | pass |
| `bridge_expansion` | `TypeOK`, `HandshakeAtInitialBaud`, `SessionsAreRetried`, `ReaderNotices` | pass |

Run one with `tlc -config MCFlipperLink_safety.cfg MCFlipperLink`.

What the passing runs show:

- Tool calls never interleave on the link, whatever is cancelled
  (`Serialized`). Although nothing compares `command_id`, a call that succeeds on
  a link on which no exchange was given up took its own answers only
  (`Correlated`), because such a link carries exactly the current round trip
  (`LinkInStep`). "Given up" means a time-out, a cancellation, a close or a reset
  during an exchange, or a streamed file of which one frame was taken, until a
  negotiation probe is answered with nothing else outstanding. Outside that
  condition the code gives no such guarantee, which is what `storage_pull` shows.
- A shell command is read in the shell, unless the port was closed or the device
  reset under that very exchange (`CommandInShell`).
- Two calls that find the transport down and reconnect at once leave a transport
  with an RPC layer (`ConnectedHasRpc`); over WiFi it is missing while
  `WiFiTransport.connect` drains, since the flag is set before.
- Every call ends (`CallsEnd`), so the lock is not held for good.
- Whatever the device loses, damages, acknowledges wrongly or wedges on, an
  install goes on to the update only with its files on the card
  (`PushedIsLanded`), never writes again what was only unreadable
  (`RewriteOnlyOnMismatch`), and ends (`InstallEnds`). The device leaves for its
  updater only on the request of an install with every file verified and the update
  accepted, and an install that ends with a `FlashError` has not asked for it
  (`UpdateIsEarned`). Seen from outside it is a flash (`ImplementsFlash`).
- What a storage tool reports was true of the file at some moment of the call,
  although other calls push, delete or rename between its round trips, and the
  card damages data unseen (`ResultHeld`; the condition is that of `Correlated`).
  A local file whose pull was reported verified has been on the device whole, even
  on a link out of step (`PulledExisted`): the digest is compared with the file
  written, though only after it was overwritten.
- However a byte stream is cut into chunks, the reader takes whole frames in order
  (`InSync`, `ImplementsChannel`), and a time-out between two frames costs none. It
  comes out of step when a receive ends inside a frame, when a varint is too long or
  a length too large, or when an orphan read or a drain takes part of a frame, and
  then stays so until a drain: nothing resynchronises it. An empty frame is skipped
  in step.
- The bridge comes back into a session or calls the Flipper again, whatever its
  tasks do to the state they share and however long its TCP client blocks the RX
  task (`SessionsAreRetried`), notices a session that the Flipper has left as long as
  the client reads (`ReaderNotices`), and runs each handshake at the rate an idle
  Flipper listens at (`HandshakeAtInitialBaud`).
- The bridge leaks no descriptor and always has a task left to drop a registered
  client (`OpenIsHeld`, `RegisteredIsServed`); one that has gone is dropped
  (`GoneIsDropped`).

What the violated ones show (the quoted sources are in `PROJECT.json`):

- `install_confirm`: the poll classifies a dictionary without
  `firmware_version`, so any reading differs from the baseline and confirms.
- `tcp_reuse`: a replaced client's `rx_task` closes its descriptor number after
  it was given to a newer client.
- `storage_pull`: without any fault, `storage_read` takes the first of the frames
  a larger file is streamed in; the others answer the round trips that follow.
  Such a pull fails, but two pulls later one is reported verified with the
  content of a file it was not asked for, since data and digest are both an
  earlier call's.

Other disagreements met on the way. The first two have a configuration of their own,
whose property TLC refutes; the others no run states:

- `MCFirmwareInstall_rewrite.cfg`: `_push_file`'s docstring says that after a wedge,
  which may read back garbage, "the file is *not* rewritten" and "only a digest that
  keeps disagreeing after a clean reconnect is a real mismatch"
  (`firmware/installer.py:140-147`), and a test that "a single mismatch is not trusted
  - it is re-verified after a reconnect" (`tests/unit/test_firmware_installer.py:231`).
  The code clears `written` on the first mismatch (`:184-185`), so one garbage digest
  has an intact file written again before it is read on a clean session:
  `WedgeIsNotRewritten` is violated. `RewriteOnlyOnMismatch` is the part of the
  sentence that holds. No file is lost by it, only the time of a transfer.
- `MCExpansionModule_stale.cfg`: the watchdog, "if we stop receiving frames for too
  long, force a reconnect" (`expansion_module.c:343`), runs in `uart_rx_task`, which
  also sends every data frame to the TCP client (`expansion_module.c:283`,
  `main.c:48`) with a `send()` without a time-out (`tcp_server.c:256`). A client that
  stops reading blocks it, and a session that the Flipper has left meanwhile stays
  `RPC_ACTIVE`: `StaleSessionIsNoticed` is violated. `flipper_connect_task` sees a
  session and only monitors it.
- `_storage_list_frames` accepts any frame with status OK
  (`rpc/protobuf_rpc.py:926`), so the late answer to a timed-out call ends a
  listing, which is then empty, while `storage_list` says that never happens.
- `cli_exec` works on the `ProtobufRPC` it captured before it waited for the lock
  (`rpc/client.py:277`). After a reconnect in between, the current object believes
  in a session that the device has left.
- A call cancelled while `WiFiTransport.connect` drains (`transport/wifi.py:53`)
  leaves a connected transport below a client without an RPC layer: every tool
  fails until an explicit reconnect. `ConnectedHasRpc` excepts that window.
- A push whose rewrites all fail is reported as a mismatch "even after
  reconnecting" (`firmware/installer.py:190`), with the status of an earlier pass.
- `LinkMode` is said to track the device and is not updated by RPC calls that
  switch it. `AutoTransport` inherits the default `supports_cli_text_mode`, so
  `cli_exec` is accepted when it has connected over WiFi.
- `check_sd_card_available` caches a failed query as "no card" for the lifetime of
  the connection, and may write the cache after a reconnect has reset it.
- `signal_presence` deletes the UART driver with `uart_rx_task` suspended inside
  it, which its comment says must not be done; `expansion_connect` and
  `expansion_disconnect` reset `s_rx_len` under `process_frame`.
- The bridge's README promises automatic reconnection to WiFi, and the station
  gives up after five failures until it is restarted.

### Bounds

Two concurrent calls are enough for every interleaving of an exchange with
another, or with a reconnect; the theorems cover any number. `MaxReq` bounds the
round trips and `MaxRpc` the reconnects, so a bounded run stops: that is why
deadlock is not checked. `Attempts = 1` and `StreamCap = 1` stand for the code's
3 and 100: they bound loops whose passes are alike, and both exits of each loop
are taken. `MaxRx` bounds the frames that wait for the host, by delaying the
device. The jobs are divided over the link runs so that every family of request
occurs. `install_single` uses the code's `_RESYNC_ATTEMPTS` and `_MD5_ATTEMPTS`,
three files of which one is above the hashing limit, and three polls for the
code's budget of ten minutes. Four clients on three descriptors make the table
wrap round and reuse numbers. In `TcpServer` a full table makes `accept()` fail
and be retried, which changes nothing.

`storage_calls` has two calls on two paths and one local file. `MaxTrips` counts the
round trips of the calls that have begun, two for each: with four, a call of two
round trips meets any other call between them, and a two-frame file leaves one
behind. Calls and paths are interchangeable. `storage_pull` needs one call,
three-frame files and six round trips. `framing_stream` scales the code's 7-bit
digits, five bytes and 1,000,000 to 1-bit digits, two bytes and 2: its payloads are
empty, of one length byte, of two, too large, and with too long a length; three may
be under way at once. `bridge_expansion` scales 1500 ms to one silent round, 20
polls to two and a TCP chunk to at most two frames; one frame may be under way to
the bridge and two to the Flipper, and a UART that is full drops what comes, which
happens early. These constants bound loops whose passes are alike.

### Fairness

`FlipperLink!FairSpec`: weak fairness of a task's own steps (asyncio runs what is
ready, and every receive has a time-out, which is an alternative of the same step)
and strong fairness of taking the lock (asyncio wakes the lock's waiters in FIFO
order). Nothing is assumed of the device, which may never answer.
`FirmwareInstall!FairSpec`: weak fairness of each install, whose round trips all
time out; none of cancellations or of the device. `TcpServer!FairSpec`: weak
fairness of `accept_task` after `accept()` and of each `rx_task`, whose `recv` has a
one-second time-out; none of the clients, of arriving data or of `accept()`.
`ExpansionModule!FairSpec`: weak fairness of each of the bridge's tasks, which
FreeRTOS runs when they are ready and whose waits are bounded but for one: the RX
task's `send()` to the TCP client, which returns when the client reads or goes away.
So there is no fairness for `RxForwarded`, nor for `WifiUp` (the access point), the
Flipper and the TCP client's frames; `ReaderNotices` states as its premise that the
RX task does not stay in `send()` for good.

## Proofs

Every invariant, action property and refinement that a passing run checks is also
a theorem. The theorems hold for every value of the constants that satisfies the
module's named assumption (`LinkAssumption`, `InstallAssumption`,
`ServerAssumption`, `StorageAssumption`, `FramingAssumption`,
`ExpansionAssumption`): types of the bounds, that the distinguished values are
distinct, and for `StorageTools` that the lengths of streamed files are bounded.
One theorem has a hypothesis besides, `ConnectedClientsHaveRpc` below.

- `FlipperLinkProofs`: `TypeCorrect`; `MutualExclusion`, inductive with `TypeOK`;
  `CleanLink` and `AnswersAreOwn`. `Correlated` is not inductive: a frame taken
  must be known to be the caller's before it is taken. `LinkInStep` says so of
  every byte on the link while it is not dirty, and that an orphan read makes it
  dirty; with `TypeOK` and `Serialized` it is inductive and gives `Correlated`.
- `FlipperShellProofs`: `CommandsInShell` and `ConnectedClientsHaveRpc`.
  - `CommandInShell` says what the device has read; the invariant `ShellInStep`
    says what it is going to read: every command on the link, and the one that the
    lock's holder is about to send, comes after a StopSession or Ctrl-C, and so does
    every `start_rpc_session` on the way. It survives other calls because they
    need the lock to send, and time-outs because what was sent stays in order; it
    does not survive a close or a reset, which is what `torn` excepts.
  - `ConnectedHasRpc` is inductive in the form `RpcInv`, which adds that the flag
    itself never outlives the RPC object where it is set last (`FlagHasRpc`). The
    hypothesis is that calls are not cancelled, or that the medium does not set its
    flag early. Without it the theorem is false: over WiFi a call cancelled while
    the transport settles leaves the flag up and no RPC object (see above).
- `FirmwareInstallProofs`: `InstallTypes`, `PushesLand`, `RewritesHaveCause` and
  the action property `UpdatesAreEarned`, from `InstallInv`: files are verified in
  order, a verified file stays as it was found whatever other installs write, a
  rewrite has its cause, a reconnect is made only with a pass left, the reboot is
  asked for with the update accepted and no `FlashError` raised after it
  (`RebootIsEarned`), and the device leaves only on a request. It is this invariant,
  and not the shape of `UpdateIsEarned`, that covers the request which left before
  `send()` raised. The theorems cover concurrent installs on one folder; the run has
  one, two being beyond TLC's reach at the code's retry bounds.
- `FlashProofs`: `InstallImplementsFlash`. Every step of the installer is a stutter,
  a check-in, the acceptance, the request, the report or the end of an abstract
  flash, and the device's steps are the device's. An escaped or cancelled reboot
  request is the abstract request that ends `"unknown"`. Besides `InstallInv` it
  needs `CardIsPushed`: what lies on the card belongs to a flash that has begun, so
  that the firmware which comes up is one that the abstract device may run.
- `StorageToolsProofs`: `StorageTypes`, `ResultsHold` and `PullsExisted`, from
  `StorageInv`. For `PulledExisted` it is enough that a digest on the link, stale or
  not, was made of something the card has held (`AnswersAreHonest`,
  `CardIsKnown`), since the file written is compared with it. `ResultHeld` needs
  what is on the link: while no exchange was given up it is the request of the
  lock's holder or the rest of its answer, and the answer's data is among what
  the path held during that call (`LinkInStep` with `RoundTrip`).
- `FramingProofs`: `FramingTypes`, `StaysInSync` and `FramingImplementsChannel`.
  `InSync` says how much has been read; the inductive `Synced` says what has been
  decoded: the bytes read are the first of the frame's varint, and `value` plus
  `weight` times the number whose varint is still to come is the length. What
  `Encode` and the stream of frames compute is proved with the least
  counterexample in a set of naturals (`Least`), as induction principles over
  operators are beyond the prover; it needs the library's well-foundedness of `<`.
  For the refinement it also says where a receive stands in its frame (`At`), since
  `FrameChannel` lets it lose step only inside one or at a refused length.
- `TcpServerProofs`: `ServerSafe`, with `NoLeak` and `ClientsAreServed`, from
  `ServerInv`, which adds to the two properties what `accept_task` holds at each
  step and that an `rx_task` starts after its connection is registered. It does
  not need descriptors to be closed by their owner, which is false.
- `ExpansionModuleProofs`: `ExpansionTypes` and `HandshakesAtInitialBaud`, from
  `ExpansionInv`: a handshake is under the eyes of `flipper_connect_task`
  (`HandshakeIsWatched`), and `uart_rx_task` can be inside a baud switch only in the
  attempt it belongs to or in the rest that follows (`SwitchIsWatched`). So no
  switch that was begun in an earlier attempt changes the rate of a later one. This
  rests on the times that `RestEnds` states.

Only model-checked: the liveness properties `CallsEnd`, `InstallEnds`,
`GoneIsDropped`, `SessionsAreRetried` and `ReaderNotices`, since fairness is
beyond the prover. The properties of the runs that are violated are false.

## Not modelled

- The risk table of CLI commands, the output parsers and the messages of update
  codes: text in, text out, without state.
- Downloading and unpacking bundles: I/O; `FirmwareInstall` lets it fail.
- The SD-card cache and the health record of the client: only a report reads them.
- The bridge's WiFi station and captive portal, its HTTP API, statistics and LED,
  and `uart_bridge.c`, which is not in the build.
- TCP flow control on the host's side: `send()` on its socket returns or fails. On the
  bridge's side it is `RxForwarded`.
- A silently vanished TCP peer: `GoneIsDropped` speaks of clients whose end of stream
  or reset reaches the bridge.
- Start-up, configuration, prompts, resources and generated code.

## Plan

1. The safety part of the liveness properties: that no state is stuck, as a measure
   that every step of a call decreases (`CallsEnd`, `InstallEnds`).
2. Which states can be out of step, stated as an action property of `dirty` and
   `skewed`: only the steps named above under "given up" raise them.
3. The composition of `TcpServer` with `ExpansionModule`, and the WiFi manager's
   retries with the captive portal.
