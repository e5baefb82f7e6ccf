-------------------------- MODULE FirmwareInstall --------------------------
(***************************************************************************)
(* The firmware-flash tool: flipperzero_firmware_install and the installer *)
(* below it.  It checks the device, pushes and verifies the files of a     *)
(* bundle one by one, asks the device to validate the update, reboots it   *)
(* into the updater and polls for it to come back.                         *)
(*                                                                         *)
(* One step is one RPC round trip: every round trip runs inside _io_lock,  *)
(* and two installs interleave between them.  A call may be cancelled in   *)
(* any of them.  All installs push to the same folder,                     *)
(* /ext/update/mcp-update.  The device is external: it may lose, truncate  *)
(* or garble what it acknowledges, lose the acknowledgement of what it     *)
(* stored, and wedge the session after a write.                            *)
(***************************************************************************)
EXTENDS Integers, FiniteSets

CONSTANTS
    Installers,      \* concurrent calls of the tool, each with a bundle of its own
    NFiles,          \* files of a bundle, pushed in this order
    Large,           \* the files above _MD5_VERIFY_MAX_BYTES
    Versions,        \* firmware versions
    Flavors,         \* firmware flavors that classify() tells apart
    BundleImage,     \* the firmware in each installer's bundle
    ResyncAttempts,  \* _RESYNC_ATTEMPTS (2 in the code)
    Md5Attempts,     \* _MD5_ATTEMPTS (5 in the code)
    MaxPolls         \* polls in _RECONNECT_BUDGET_S (120 in the code)

Files == 1..NFiles
Images == [version : Versions, flavor : Flavors]
None == "None"
\* What classify() makes of a device_info dictionary.
Classified == [version : Versions \cup {None}, flavor : Flavors \cup {"unknown"}]

ASSUME InstallAssumption ==
    /\ NFiles \in Nat \ {0}
    /\ Large \subseteq Files
    /\ BundleImage \in [Installers -> Images]
    /\ None \notin Versions \cup Installers /\ "unknown" \notin Flavors
    /\ ResyncAttempts \in Nat
    /\ Md5Attempts \in Nat \ {0}
    /\ MaxPolls \in Nat

VARIABLES
    job,       \* the tool calls: where each is, and its locals
    disk,      \* what the update folder on the SD card holds
    wedged,    \* the device's RPC session has stopped answering
    phase,     \* the device is up, about to reboot, or in its updater
    image,     \* the firmware the device runs
    verified,  \* history: the files each installer has seen verified
    accepted,  \* history: the last update code it was given is OK
    sent       \* history: its reboot request has left the host

deviceVars == <<disk, wedged, phase, image>>
histVars == <<verified, accepted, sent>>
vars == <<job, deviceVars, histVars>>

Statuses == {"match", "mismatch", "unreadable"}
\* Raised by the tool before install_bundle(), or by its first lines.
Refusals == {"disabled", "offline", "identity", "token", "untargeted", "bundle", "target"}
PushErrors == {"mismatch", "rejected", "wedged"}
\* The messages of a FlashError.
FlashErrors == {"target", "resync", "link", "code"} \cup PushErrors
\* The call ends with the reboot asked for, perhaps: by an exception of send(), by a
\* device that never comes back, by a cancellation.
Unknowns == {"escaped", "lost", "interrupted"}
Errors == {"none", "cancelled"} \cup Refusals \cup FlashErrors \cup Unknowns

PCs == {"idle", "resolve", "write", "verify", "resync", "update", "reupdate", "reboot", "poll",
        "done", "failed"}
\* cur, att, tries: the file, the pass over it and the digest reads of the pass.
\* written, ever, status: _push_file()'s locals.  before: what ran when
\* the call began.  found, polls: _reconnect_and_classify()'s locals.
Job == [pc : PCs, cur : Files, att : 0..ResyncAttempts, tries : 0..Md5Attempts,
        written : BOOLEAN, ever : BOOLEAN, status : Statuses, error : Errors,
        before : Classified, found : BOOLEAN, polls : 0..MaxPolls, confirmed : BOOLEAN]

Blank == [version |-> None, flavor |-> "unknown"]
Fresh == [pc |-> "idle", cur |-> 1, att |-> 0, tries |-> 0, written |-> FALSE,
          ever |-> FALSE, status |-> "unreadable", error |-> "none",
          before |-> Blank, found |-> FALSE, polls |-> 0, confirmed |-> FALSE]

\* The call raises; its locals are gone.
Raise(error) == [Fresh EXCEPT !.pc = "failed", !.error = error]

Absent == [of |-> None, form |-> "absent"]
Content == [of : Installers, form : {"intact", "truncated", "garbled"}]

Init ==
    /\ job = [i \in Installers |-> Fresh]
    /\ disk = [f \in Files |-> Absent]
    /\ wedged = FALSE
    /\ phase = "up"
    /\ image \in Images
    /\ verified = [i \in Installers |-> {}]
    /\ accepted = [i \in Installers |-> FALSE]
    /\ sent = [i \in Installers |-> FALSE]

-----------------------------------------------------------------------------
(***************************************************************************)
(* Before the bundle is pushed.                                            *)
(***************************************************************************)

\* The first check that fails, in the order of the code.  keys: what the first
\* get_device_info() reported.
Refusal(enabled, live, keys, token) ==
    CASE ~enabled -> "disabled"
      [] enabled /\ ~live -> "offline"
      [] enabled /\ live /\ "name" \notin keys -> "identity"
      [] enabled /\ live /\ "name" \in keys /\ ~token -> "token"
      [] enabled /\ live /\ "name" \in keys /\ token /\ "target" \notin keys -> "untargeted"
      [] OTHER -> "none"

\* classify(rpc.get_device_info()): what the keys that arrived say.
Baseline(keys) ==
    [version |-> IF "version" \in keys THEN image.version ELSE None,
     flavor |-> IF "origin" \in keys THEN image.flavor ELSE "unknown"]

\* flipperzero_firmware_install() up to the bundle: the gate, the device's identity,
\* the confirm token, the baseline.
BeginInstall(i) ==
    /\ job[i].pc = "idle"
    /\ \E enabled, live, token \in BOOLEAN,
          keys \in SUBSET {"name", "target", "version", "origin"} :
         LET why == Refusal(enabled, live, keys, token)
         IN  job' = [job EXCEPT ![i] =
                 IF why = "none" THEN [@ EXCEPT !.pc = "resolve", !.before = Baseline(keys)]
                                 ELSE Raise(why)]
    /\ UNCHANGED <<deviceVars, histVars>>

\* _resolve() and install_bundle() up to the first file: _resolve() may raise, and
\* the target, which is read again, may be missing or not the bundle's.  The results
\* of the mkdir calls are ignored.
CheckTarget(i) ==
    /\ job[i].pc = "resolve"
    /\ \E why \in {"none", "bundle", "target"} :
         job' = [job EXCEPT ![i] =
             IF why = "none" THEN [@ EXCEPT !.pc = "write"] ELSE Raise(why)]
    /\ UNCHANGED <<deviceVars, histVars>>

-----------------------------------------------------------------------------
(***************************************************************************)
(* _push_file(): write, verify, reconnect, up to ResyncAttempts + 1 passes.*)
(***************************************************************************)

Answers == phase # "updating" /\ ~wedged

\* External.  What storage_write() may return and leave on the card.  An
\* acknowledged write may still be damaged, an unacknowledged one complete, and the
\* acknowledgement may be an earlier command's OK frame: then nothing is written.
WriteMay(i, f, ok, c) ==
    /\ ok => phase # "updating"
    /\ \/ c = disk[f]
       \/ /\ Answers
          /\ c \in Content /\ c.of = i
          /\ ~ok => c.form \in {"intact", "truncated"}

\* External.  The data goes out; a write may wedge the session.
Transfer(i, ok) ==
    /\ \E c \in Content \cup {Absent} :
         WriteMay(i, job[i].cur, ok, c) /\ disk' = [disk EXCEPT ![job[i].cur] = c]
    /\ wedged' \in {wedged, TRUE}

\* The message of the FlashError that _push_file() ends with.
PushError(j) ==
    CASE j.status = "mismatch" -> "mismatch"
      [] j.status # "mismatch" /\ ~j.ever -> "rejected"
      [] OTHER -> "wedged"

\* _push_file() returns, with the file at hand pushed: the next one, or the update.
NextFile(j) == [Fresh EXCEPT !.pc = "write", !.cur = j.cur + 1, !.before = j.before]
Stage(j) == [Fresh EXCEPT !.pc = "update", !.before = j.before]

\* Mutant: one pass too many.
EndPassLate(j) ==
    IF j.att > ResyncAttempts
    THEN Raise(PushError(j))
    ELSE [j EXCEPT !.pc = "resync"]

\* Mutant: the loop is left without raising.
EndPassSilently(j) ==
    IF j.att = ResyncAttempts
    THEN Stage(j)
    ELSE [j EXCEPT !.pc = "resync"]

\* The end of a pass: another one after a reconnect, or the final error.
EndPass(j) ==
    IF j.att = ResyncAttempts
    THEN Raise(PushError(j))
    ELSE [j EXCEPT !.pc = "resync"]

\* The write of a pass.
Write(i) ==
    /\ job[i].pc = "write"
    /\ \E ok \in BOOLEAN :
         /\ Transfer(i, ok)
         /\ LET j == [job[i] EXCEPT !.written = ok, !.ever = @ \/ ok, !.tries = 0]
            IN  job' = [job EXCEPT ![i] = IF ok THEN [j EXCEPT !.pc = "verify"]
                                               ELSE EndPass(j)]
    /\ UNCHANGED <<phase, image, histVars>>

\* What follows _verify_written() in the pass.
Conclude(i, s) ==
    LET j == [job[i] EXCEPT !.status = s, !.written = (s # "mismatch")]
    IN  /\ job' = [job EXCEPT ![i] =
              CASE s # "match" -> EndPass(j)
                [] s = "match" /\ j.cur = NFiles -> Stage(j)
                [] OTHER -> NextFile(j)]
        /\ verified' = IF s = "match"
                       THEN [verified EXCEPT ![i] = @ \cup {job[i].cur}] ELSE verified

\* The card holds the installer's own data under its current file.
Intact(i) == disk[job[i].cur] = [of |-> i, form |-> "intact"]

\* External.  storage_md5sum(): the digest of what is there, None while the card
\* is busy, None or garbage when the session is wedged.
DigestMay(i, d) ==
    \/ d = "none"
    \/ d = "mismatch" /\ phase # "updating" /\ (wedged \/ ~Intact(i))
    \/ d = "match" /\ Answers /\ Intact(i)

\* _check_md5(): None is retried, anything else is final.
CheckMd5(i) ==
    /\ job[i].pc = "verify"
    /\ job[i].cur \notin Large
    /\ \E d \in {"none", "match", "mismatch"} :
         /\ DigestMay(i, d)
         /\ IF d = "none" /\ job[i].tries + 1 < Md5Attempts
            THEN /\ job' = [job EXCEPT ![i].tries = @ + 1]
                 /\ UNCHANGED verified
            ELSE Conclude(i, IF d = "none" THEN "unreadable" ELSE d)
    /\ UNCHANGED <<deviceVars, accepted, sent>>

\* External.  storage_stat(): a size says nothing of the bytes, and another
\* bundle's file may have the same size.
SizeMay(i, s) ==
    LET c == disk[job[i].cur] IN
    \/ s = "unreadable"
    \/ s = "mismatch" /\ phase # "updating" /\ (wedged \/ c.of # i \/ c.form = "truncated")
    \/ s = "match" /\ Answers /\ c # Absent /\ (c.of = i => c.form # "truncated")

\* Mutant: every file is verified by its size.
CheckSizeOnly(i) ==
    /\ job[i].pc = "verify"
    /\ \E s \in Statuses : SizeMay(i, s) /\ Conclude(i, s)
    /\ UNCHANGED <<deviceVars, accepted, sent>>

\* _check_size(), for files too large to hash.
CheckSize(i) ==
    /\ job[i].pc = "verify"
    /\ job[i].cur \in Large
    /\ \E s \in Statuses : SizeMay(i, s) /\ Conclude(i, s)
    /\ UNCHANGED <<deviceVars, accepted, sent>>

\* _resync_session(): disconnect and connect.  A reconnect may clear the wedge.
Reconnects ==
    /\ phase # "updating"
    /\ wedged' \in {FALSE, wedged}

\* Mutant: the pass counter is not advanced.
ResyncForever(i) ==
    /\ job[i].pc = "resync"
    /\ Reconnects
    /\ job' = [job EXCEPT ![i] =
                 [@ EXCEPT !.pc = IF job[i].written THEN "verify" ELSE "write", !.tries = 0]]
    /\ UNCHANGED <<disk, phase, image, histVars>>

\* Mutant: a file that could not be verified is pushed again.
ResyncRewrites(i) ==
    /\ job[i].pc = "resync"
    /\ Reconnects
    /\ job' = [job EXCEPT ![i] = [@ EXCEPT !.pc = "write", !.att = job[i].att + 1, !.tries = 0]]
    /\ UNCHANGED <<disk, phase, image, histVars>>

\* The next pass, on a fresh session: verify what is written, else write.
Resync(i) ==
    /\ job[i].pc = "resync"
    /\ Reconnects
    /\ job' = [job EXCEPT ![i] =
                 [@ EXCEPT !.pc = IF job[i].written THEN "verify" ELSE "write",
                           !.att = job[i].att + 1, !.tries = 0]]
    /\ UNCHANGED <<disk, phase, image, histVars>>

\* The device cannot be reconnected: FlashError.
ResyncFails(i) ==
    /\ job[i].pc \in {"resync", "reupdate"}
    /\ job' = [job EXCEPT ![i] = Raise("resync")]
    /\ UNCHANGED <<deviceVars, histVars>>

-----------------------------------------------------------------------------
(***************************************************************************)
(* _trigger_update() and the reboot.                                       *)
(***************************************************************************)

\* External.  system_update(): the device's own verdict on the bundle, no answer,
\* or (Unspecified too) an answer that is not an update response.
CodeMay(code) == Answers \/ code \in {"timeout", "unspecified"}

\* Mutant: a code that asks for no retry is taken for OK.
TriggerAnyway(i) ==
    /\ job[i].pc = "update"
    /\ \E code \in {"ok", "unspecified", "specific", "timeout"} :
         /\ CodeMay(code)
         /\ accepted' = [accepted EXCEPT ![i] = (code = "ok")]
         /\ job' = [job EXCEPT ![i] =
               CASE code = "timeout" -> Raise("link")
                 [] code = "unspecified" /\ job[i].att < ResyncAttempts
                      -> [@ EXCEPT !.pc = "reupdate"]
                 [] OTHER -> [@ EXCEPT !.pc = "reboot"]]
    /\ UNCHANGED <<deviceVars, verified, sent>>

\* One system_update() of _trigger_update().
TriggerUpdate(i) ==
    /\ job[i].pc = "update"
    /\ \E code \in {"ok", "unspecified", "specific", "timeout"} :
         /\ CodeMay(code)
         /\ accepted' = [accepted EXCEPT ![i] = (code = "ok")]
         /\ job' = [job EXCEPT ![i] =
               CASE code = "ok" -> [@ EXCEPT !.pc = "reboot"]
                 [] code = "timeout" -> Raise("link")
                 [] code = "unspecified" /\ job[i].att < ResyncAttempts
                      -> [@ EXCEPT !.pc = "reupdate"]
                 [] OTHER -> Raise("code")]
    /\ UNCHANGED <<deviceVars, verified, sent>>

\* The reconnect before another system_update().
ResyncUpdate(i) ==
    /\ job[i].pc = "reupdate"
    /\ Reconnects
    /\ job' = [job EXCEPT ![i] = [@ EXCEPT !.pc = "update", !.att = job[i].att + 1]]
    /\ UNCHANGED <<disk, phase, image, histVars>>

\* The reboot request has left the host.  A wedged device does not read it.
Requested(i) ==
    /\ sent' = [sent EXCEPT ![i] = TRUE]
    /\ phase' \in IF phase = "up" /\ ~wedged THEN {"up", "leaving"} ELSE {phase}
    /\ UNCHANGED <<disk, wedged, image, verified, accepted>>

\* system_reboot_update(): fire and forget.
RebootUpdate(i) ==
    /\ job[i].pc = "reboot"
    /\ Requested(i)
    /\ job' = [job EXCEPT ![i] = [@ EXCEPT !.pc = "poll"]]

\* transport.send() raises, with or without the bytes gone (USB writes in an
\* executor, WiFi before drain()): no handler up to the tool's caller.
RebootEscapes(i) ==
    /\ job[i].pc = "reboot"
    /\ job' = [job EXCEPT ![i] = Raise("escaped")]
    /\ Requested(i) \/ UNCHANGED <<deviceVars, histVars>>

\* CancelledError in the round trip at hand: none of the handlers catches it, and
\* what was sent takes effect.
Cancel(i) ==
    /\ job[i].pc \notin {"idle", "done", "failed"}
    /\ job' = [job EXCEPT ![i] =
          Raise(IF job[i].pc \in {"reboot", "poll"} THEN "interrupted" ELSE "cancelled")]
    /\ \/ UNCHANGED <<deviceVars, histVars>>
       \/ /\ job[i].pc = "write" /\ Transfer(i, FALSE)
          /\ UNCHANGED <<phase, image, histVars>>
       \/ /\ job[i].pc \in {"resync", "reupdate", "poll"} /\ Reconnects
          /\ UNCHANGED <<disk, phase, image, histVars>>
       \/ job[i].pc = "reboot" /\ Requested(i)

-----------------------------------------------------------------------------
(***************************************************************************)
(* _reconnect_and_classify().                                              *)
(***************************************************************************)

\* classify(client.get_device_info()).  FlipperClient.get_device_info() renames
\* firmware_version to "firmware", so classify() finds no version; a device that
\* does not answer yields an empty dictionary.
Reading(answered) ==
    [version |-> None, flavor |-> IF answered THEN image.flavor ELSE "unknown"]

\* The tool returns its report.
Report(j, confirmed) ==
    [Fresh EXCEPT !.pc = "done", !.before = j.before, !.confirmed = confirmed]

\* A poll whose connect() fails.
PollMisses(i) ==
    /\ job[i].pc = "poll"
    /\ job[i].polls < MaxPolls
    /\ job' = [job EXCEPT ![i].polls = @ + 1]
    /\ UNCHANGED <<deviceVars, histVars>>

\* A poll that connects and classifies what it reads.
PollReads(i) ==
    /\ job[i].pc = "poll"
    /\ job[i].polls < MaxPolls
    /\ Reconnects
    /\ \E answered \in BOOLEAN :
         /\ answered => ~wedged'
         /\ LET r == Reading(answered)
                j == [job[i] EXCEPT !.found = TRUE, !.polls = @ + 1]
            IN  job' = [job EXCEPT ![i] =
                   IF j.before.version # None /\ r # j.before
                   THEN Report(j, TRUE) ELSE j]
    /\ UNCHANGED <<disk, phase, image, histVars>>

\* The budget is spent: the last reading, or a ToolError.
PollEnds(i) ==
    /\ job[i].pc = "poll"
    /\ job[i].polls = MaxPolls
    /\ job' = [job EXCEPT ![i] = IF job[i].found THEN Report(job[i], FALSE)
                                  ELSE Raise("lost")]
    /\ UNCHANGED <<deviceVars, histVars>>

-----------------------------------------------------------------------------
(***************************************************************************)
(* The device (external) and the specification.                            *)
(***************************************************************************)

\* The device goes off the bus, into its updater.
DevReboot ==
    /\ phase = "leaving"
    /\ phase' = "updating"
    /\ UNCHANGED <<job, disk, wedged, image, histVars>>

\* The updater applies a bundle it finds, or gives up, and boots.
DevApply ==
    /\ phase = "updating"
    /\ image' \in {image} \cup {BundleImage[i] : i \in {disk[f].of : f \in Files} \ {None}}
    /\ phase' = "up"
    /\ wedged' = FALSE
    /\ UNCHANGED <<job, disk, histVars>>

Step(i) ==
    \/ BeginInstall(i) \/ CheckTarget(i)
    \/ Write(i) \/ CheckMd5(i) \/ CheckSize(i) \/ Resync(i) \/ ResyncFails(i)
    \/ TriggerUpdate(i) \/ ResyncUpdate(i) \/ RebootUpdate(i) \/ RebootEscapes(i)
    \/ PollMisses(i) \/ PollReads(i) \/ PollEnds(i)

Next == (\E i \in Installers : Step(i) \/ Cancel(i)) \/ DevReboot \/ DevApply

Spec == Init /\ [][Next]_vars

\* A coroutine that can go on does.
FairSpec == Spec /\ \A i \in Installers : WF_vars(Step(i))

-----------------------------------------------------------------------------
(***************************************************************************)
(* Properties.                                                             *)
(***************************************************************************)

DeviceOK ==
    /\ disk \in [Files -> Content \cup {Absent}]
    /\ wedged \in BOOLEAN
    /\ phase \in {"up", "leaving", "updating"}
    /\ image \in Images

HistoryOK ==
    /\ verified \in [Installers -> SUBSET Files]
    /\ accepted \in [Installers -> BOOLEAN]
    /\ sent \in [Installers -> BOOLEAN]

\* The variables have their types and every counter stays within its budget.
TypeOK == job \in [Installers -> Job] /\ DeviceOK /\ HistoryOK

\* The file an installer has pushed is there, and damage to its own data is
\* what its size check cannot see.
Landed(i, f) ==
    /\ disk[f] # Absent
    /\ disk[f].of = i => disk[f].form \in IF f \in Large THEN {"intact", "garbled"}
                                                       ELSE {"intact"}

Pushing == {"write", "verify", "resync"}
Pushed == {"update", "reupdate", "reboot", "poll", "done"}

\* install_bundle() asks for the update, reboots and reports only when each file
\* is on the card undamaged: whatever the device lost, truncated, garbled or
\* falsely acknowledged on the way has been found and pushed again.  (Another
\* install may have replaced a file: both use one folder, and nothing tells.)
PushedIsLanded == \A i \in Installers : job[i].pc \in Pushed => \A f \in Files : Landed(i, f)

\* _push_file() never writes an acknowledged file again because it could not be read
\* back, over any number of reconnects: only a digest or a size that disagreed leads
\* back to the write.  One such answer is enough, a wedged session's garbage included
\* (installer.py:184-185).
RewriteOnlyOnMismatch ==
    \A i \in Installers : job[i].pc = "write" /\ job[i].ever => job[i].status = "mismatch"

\* "on a wedge the file is *not* rewritten", "only a digest that keeps disagreeing
\* after a clean reconnect is a real mismatch" (installer.py:142-147): a file that is
\* written again is not intact on the card.
WedgeIsNotRewritten ==
    \A i \in Installers : job[i].pc = "write" /\ job[i].ever => ~Intact(i)

\* An installer that has verified every file and had the update accepted.
Earned(i) == accepted[i] /\ verified[i] = Files

\* The device leaves for its updater only on the request of an installer that has
\* verified every file and whose last update code was OK, and the firmware changes
\* only after such a request; an install that ends with a FlashError has asked for no
\* reboot, whatever was retried before it ("The device is not rebooted when this is
\* raised", installer.py:260).
UpdateIsEarned ==
    [][/\ phase = "up" /\ phase' # "up" => \E i \in Installers : ~sent[i] /\ sent'[i] /\ Earned(i)
       /\ image' # image => \E i \in Installers : sent[i] /\ Earned(i)
       /\ \A i \in Installers : sent'[i] => job'[i].error \notin FlashErrors]_vars

\* The files are verified in order, and a verified file stays as it was found,
\* whatever the installers do afterwards.
VerifiedInOrder(i) ==
    /\ job[i].pc = "idle" => job[i] = Fresh
    /\ job[i].pc = "resolve" => job[i] = [Fresh EXCEPT !.pc = "resolve", !.before = job[i].before]
    /\ job[i].pc \in {"idle", "resolve"} => verified[i] = {}
    /\ job[i].pc \in Pushing => verified[i] = 1..(job[i].cur - 1)
    /\ job[i].pc \in Pushed => verified[i] = Files
VerifiedIsLanded(i) == \A f \in verified[i] : Landed(i, f)

\* A file is to be written again only because what was acknowledged disagreed.
RewriteHasCause(i) ==
    job[i].ever /\ (job[i].pc = "write" \/ (job[i].pc = "resync" /\ ~job[i].written))
      => job[i].status = "mismatch"

\* A reconnect is made only when another pass is left.
PassIsLeft(i) == job[i].pc \in {"resync", "reupdate"} => job[i].att # ResyncAttempts

\* The reboot is asked for with the update accepted, the request leaves after that,
\* and no FlashError is raised any more.  The device leaves only on a request.
RebootIsEarned(i) ==
    /\ job[i].pc = "reboot" => accepted[i]
    /\ sent[i] => /\ job[i].pc \in {"poll", "done", "failed"}
                  /\ Earned(i)
                  /\ job[i].error \notin FlashErrors
    /\ job[i].pc # "failed" => job[i].error = "none"
LeavesOnRequest == phase # "up" => \E i \in Installers : sent[i]

\* The inductive invariant behind the properties above.
InstallInv ==
    /\ TypeOK
    /\ \A i \in Installers :
         /\ VerifiedInOrder(i) /\ VerifiedIsLanded(i) /\ RewriteHasCause(i)
         /\ PassIsLeft(i) /\ RebootIsEarned(i)
    /\ LeavesOnRequest

\* A flash that begins ends, with a report or an error, whatever the device does.
InstallEnds ==
    \A i \in Installers : job[i].pc # "idle" ~> job[i].pc \in {"done", "failed"}

\* Where a call is in the abstract flash.
StageOf(j) ==
    CASE j.pc \in {"idle", "resolve"} -> "idle"
      [] j.pc \in Pushing -> "staging"
      [] j.pc \in {"update", "reupdate"} -> "staged"
      [] j.pc = "reboot" -> "accepted"
      [] j.pc = "poll" -> "requested"
      [] j.pc = "done" -> "done"
      [] j.pc = "failed" /\ j.error \in Refusals -> "refused"
      [] j.pc = "failed" /\ j.error \in Unknowns -> "unknown"
      [] OTHER -> "failed"

\* What lies on the card was put there by a flash that has begun.
CardIsPushed ==
    \A f \in Files : disk[f].of # None => StageOf(job[disk[f].of]) \notin {"idle", "refused"}

\* The installer implements the abstract flash: whatever is retried, lost, cancelled
\* or reconnected in between, files are checked in one by one, the update is accepted
\* with all of them in, the reboot is asked for once and only then, a flash that fails
\* has not asked for it, and the firmware that comes up is the old one or that of a
\* flash that was not refused.
AbstractFlash == INSTANCE Flash WITH
    stage <- [i \in Installers |-> StageOf(job[i])],
    good <- [i \in Installers |-> Cardinality(verified[i])]
ImplementsFlash == AbstractFlash!Spec

\* after_confirmed is "True only if a post-reboot (version, flavor) identity change
\* was observed against a known baseline" (firmware.py:128-131).
ConfirmedIsChanged ==
    \A i \in Installers : job[i].confirmed => image # job[i].before
=============================================================================
