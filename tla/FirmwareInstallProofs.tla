----------------------- MODULE FirmwareInstallProofs -----------------------
(***************************************************************************)
(* Proofs about FirmwareInstall, for any number of concurrent installs,    *)
(* files and retries: InstallInv is inductive, and the properties of the   *)
(* module follow from it.                                                  *)
(***************************************************************************)
EXTENDS FirmwareInstall, TLAPS

-----------------------------------------------------------------------------
(* The values a call's record takes. *)

\* The initial record is well typed.
LEMMA FreshType == Fresh \in Job
  BY InstallAssumption DEF Fresh, Job, Blank, Classified, Files, PCs, Statuses, Errors,
     None

\* A call that raises is over, and its record is well typed.
LEMMA RaiseType ==
  ASSUME NEW e \in Errors
  PROVE  Raise(e) \in Job /\ Raise(e).pc = "failed" /\ Raise(e).error = e
  BY FreshType DEF Raise, Fresh, Job, PCs

\* The end of a pass raises one of the three errors, or leads to a reconnect and
\* leaves the other locals alone.
LEMMA EndPassType ==
  ASSUME NEW j \in Job
  PROVE  /\ EndPass(j) \in Job
         /\ EndPass(j).pc \in {"failed", "resync"}
         /\ EndPass(j).pc = "resync" =>
              /\ EndPass(j).cur = j.cur
              /\ EndPass(j).att = j.att
              /\ j.att # ResyncAttempts
              /\ EndPass(j).ever = j.ever
              /\ EndPass(j).written = j.written
              /\ EndPass(j).status = j.status
              /\ EndPass(j).error = j.error
<1>1. PushError(j) \in Errors
  BY DEF PushError, Errors, FlashErrors, PushErrors
<1>2. CASE j.att = ResyncAttempts
  BY <1>1, <1>2, RaiseType DEF EndPass
<1>3. CASE j.att # ResyncAttempts
  BY <1>3 DEF EndPass, Job, PCs
<1>4. QED
  BY <1>2, <1>3

\* The record at the start of a file that is not the first.
LEMMA NextFileType ==
  ASSUME NEW j \in Job, j.cur # NFiles
  PROVE  /\ NextFile(j) \in Job
         /\ NextFile(j).pc = "write"
         /\ NextFile(j).cur = j.cur + 1
         /\ NextFile(j).ever = FALSE
         /\ NextFile(j).error = "none"
<1>1. j.cur + 1 \in Files
  BY InstallAssumption DEF Job, Files
<1>2. QED
  BY <1>1, FreshType DEF NextFile, Fresh, Job, PCs

\* The record once every file is pushed.
LEMMA StageType ==
  ASSUME NEW j \in Job
  PROVE  /\ Stage(j) \in Job /\ Stage(j).pc = "update" /\ Stage(j).ever = FALSE
         /\ Stage(j).error = "none"
  BY FreshType DEF Stage, Fresh, Job, PCs

\* The record of a call that has returned its report.
LEMMA ReportType ==
  ASSUME NEW j \in Job, NEW b \in BOOLEAN
  PROVE  /\ Report(j, b) \in Job /\ Report(j, b).pc = "done" /\ Report(j, b).ever = FALSE
         /\ Report(j, b).error = "none"
  BY FreshType DEF Report, Fresh, Job, PCs

\* A baseline is a classification.
LEMMA BaselineType ==
  ASSUME image \in Images, NEW keys
  PROVE  Baseline(keys) \in Classified
  BY DEF Baseline, Classified, Images

-----------------------------------------------------------------------------
(* What each step preserves. *)

\* The part of the invariant that is about one installer.
Own(i) ==
    /\ VerifiedInOrder(i) /\ VerifiedIsLanded(i) /\ RewriteHasCause(i)
    /\ PassIsLeft(i) /\ RebootIsEarned(i)

\* The histories of the other installers stay as they are.
OthersAlone(i) ==
    \A k \in Installers \ {i} :
      verified'[k] = verified[k] /\ accepted'[k] = accepted[k] /\ sent'[k] = sent[k]

\* A step of installer i that gives it record x preserves the invariant if it keeps
\* the types, establishes i's own part, leaves the others' histories alone and
\* damages none of the files they have verified.
LEMMA OneMoves ==
  ASSUME InstallInv,
         NEW i \in Installers, NEW x \in Job,
         job' = [job EXCEPT ![i] = x],
         DeviceOK' /\ HistoryOK',
         Own(i)',
         OthersAlone(i),
         \A k \in Installers \ {i} : \A f \in verified[k] : Landed(k, f)',
         sent[i] => sent'[i],
         phase' # "up" => phase # "up" \/ sent'[i]
  PROVE  InstallInv'
<1>1. TypeOK'
  <2>1. job \in [Installers -> Job]
    BY DEF InstallInv, TypeOK
  <2>2. job' \in [Installers -> Job]
    BY <2>1
  <2>3. QED
    BY <2>2 DEF TypeOK
<1>2. ASSUME NEW k \in Installers
      PROVE  Own(k)'
  <2>1. CASE k = i
    BY <2>1
  <2>2. CASE k # i
    <3>1. job'[k] = job[k]
      BY <2>2 DEF InstallInv, TypeOK
    <3>2. verified'[k] = verified[k] /\ accepted'[k] = accepted[k] /\ sent'[k] = sent[k]
      BY <2>2 DEF OthersAlone
    <3>3. VerifiedInOrder(k) /\ RewriteHasCause(k) /\ RebootIsEarned(k) /\ PassIsLeft(k)
      BY DEF InstallInv
    <3>4. VerifiedInOrder(k)'
      BY <3>1, <3>2, <3>3 DEF VerifiedInOrder
    <3>5. RewriteHasCause(k)'
      BY <3>1, <3>3 DEF RewriteHasCause
    <3>6a. PassIsLeft(k)'
      BY <3>1, <3>3 DEF PassIsLeft
    <3>6. RebootIsEarned(k)'
      BY <3>1, <3>2, <3>3 DEF RebootIsEarned, Earned
    <3>7. VerifiedIsLanded(k)'
      BY <2>2, <3>2 DEF VerifiedIsLanded
    <3>8. QED
      BY <3>4, <3>5, <3>6, <3>6a, <3>7 DEF Own
  <2>3. QED
    BY <2>1, <2>2
<1>3. LeavesOnRequest'
  <2>1. CASE phase = "up"
    BY <2>1 DEF LeavesOnRequest
  <2>2. CASE phase # "up"
    <3>1. PICK k \in Installers : sent[k]
      BY <2>2 DEF InstallInv, LeavesOnRequest
    <3>2. sent'[k]
      BY <3>1 DEF OthersAlone
    <3>3. QED
      BY <3>2 DEF LeavesOnRequest
  <2>3. QED
    BY <2>1, <2>2
<1>4. QED
  BY <1>1, <1>2, <1>3 DEF InstallInv, Own

\* What record x must satisfy for a step that leaves the card and the other histories
\* alone, given the last update code.
Fits(i, x, acc) ==
    /\ x.pc # "idle"
    /\ x.pc = "resolve" => /\ x = [Fresh EXCEPT !.pc = "resolve", !.before = x.before]
                           /\ verified[i] = {}
    /\ x.pc \in Pushing => verified[i] = 1..(x.cur - 1)
    /\ x.pc \in Pushed => verified[i] = Files
    /\ x.ever /\ (x.pc = "write" \/ (x.pc = "resync" /\ ~x.written)) => x.status = "mismatch"
    /\ x.pc \in {"resync", "reupdate"} => x.att # ResyncAttempts
    /\ x.pc = "reboot" => acc
    /\ sent[i] => x.pc \in {"poll", "done", "failed"} /\ acc /\ x.error \notin FlashErrors
    /\ x.pc # "failed" => x.error = "none"

\* A step that leaves the card, the phase and the firmware alone, and no history but
\* the last update code of its installer.
LEMMA OneIsAnswered ==
  ASSUME InstallInv,
         NEW i \in Installers, NEW x \in Job, NEW acc \in BOOLEAN,
         job' = [job EXCEPT ![i] = x],
         wedged' \in BOOLEAN,
         UNCHANGED <<disk, phase, image, verified, sent>>,
         accepted' = [accepted EXCEPT ![i] = acc],
         Fits(i, x, acc)
  PROVE  InstallInv'
<1>1. /\ disk' = disk /\ phase' = phase /\ image' = image
      /\ verified' = verified /\ sent' = sent /\ accepted'[i] = acc
  BY DEF InstallInv, TypeOK, HistoryOK
<1>2. DeviceOK' /\ HistoryOK'
  BY <1>1 DEF DeviceOK, HistoryOK, InstallInv, TypeOK
<1>3. job'[i] = x
  BY DEF InstallInv, TypeOK
<1>4. \A k \in Installers : \A f \in verified[k] : Landed(k, f)'
  BY <1>1 DEF InstallInv, VerifiedIsLanded, Landed
<1>5. VerifiedInOrder(i)'
  BY <1>1, <1>3 DEF VerifiedInOrder, Fits, Fresh
<1>6. RewriteHasCause(i)'
  BY <1>3 DEF RewriteHasCause, Fits
<1>7. RebootIsEarned(i)'
  BY <1>1, <1>3 DEF RebootIsEarned, Earned, InstallInv, Fits
<1>8. VerifiedIsLanded(i)'
  BY <1>1, <1>4 DEF VerifiedIsLanded
<1>8a. PassIsLeft(i)'
  BY <1>3 DEF PassIsLeft, Fits
<1>9. Own(i)'
  BY <1>5, <1>6, <1>7, <1>8, <1>8a DEF Own
<1>10. OthersAlone(i)
  BY <1>1 DEF InstallInv, TypeOK, HistoryOK, OthersAlone
<1>11. QED
  BY <1>1, <1>2, <1>4, <1>9, <1>10, OneMoves

\* The same for a step that leaves every history alone.
LEMMA OneMovesQuietly ==
  ASSUME InstallInv,
         NEW i \in Installers, NEW x \in Job,
         job' = [job EXCEPT ![i] = x],
         wedged' \in BOOLEAN,
         UNCHANGED <<disk, phase, image, histVars>>,
         Fits(i, x, accepted[i])
  PROVE  InstallInv'
<1>1. accepted[i] \in BOOLEAN /\ accepted' = [accepted EXCEPT ![i] = accepted[i]]
  BY DEF histVars, InstallInv, TypeOK, HistoryOK
<1>2. QED
  BY <1>1, OneIsAnswered DEF histVars

\* What the invariant says of the installer that moves.
LEMMA Facts ==
  ASSUME InstallInv, NEW i \in Installers
  PROVE  /\ job[i] \in Job
         /\ job[i].pc = "idle" => job[i] = Fresh
         /\ job[i].pc = "resolve" =>
              job[i] = [Fresh EXCEPT !.pc = "resolve", !.before = job[i].before]
         /\ job[i].pc \in {"idle", "resolve"} => verified[i] = {}
         /\ job[i].pc \in Pushing => verified[i] = 1..(job[i].cur - 1)
         /\ job[i].pc \in Pushed => verified[i] = Files
         /\ job[i].ever /\ (job[i].pc = "write" \/ (job[i].pc = "resync" /\ ~job[i].written))
              => job[i].status = "mismatch"
         /\ job[i].pc \in {"resync", "reupdate"} => job[i].att # ResyncAttempts
         /\ job[i].pc = "reboot" => accepted[i]
         /\ sent[i] => /\ job[i].pc \in {"poll", "done", "failed"}
                       /\ accepted[i] /\ job[i].error \notin FlashErrors
         /\ job[i].pc # "failed" => job[i].error = "none"
         /\ accepted[i] \in BOOLEAN
         /\ wedged \in BOOLEAN
         /\ image \in Images
  BY DEF InstallInv, TypeOK, DeviceOK, HistoryOK, VerifiedInOrder, RewriteHasCause,
     PassIsLeft, RebootIsEarned, Earned

\* BeginInstall preserves the invariant.
LEMMA BeginInstallInv ==
  ASSUME InstallInv, NEW i \in Installers, BeginInstall(i)
  PROVE  InstallInv'
<1>1. PICK enabled \in BOOLEAN, live \in BOOLEAN, token \in BOOLEAN,
           keys \in SUBSET {"name", "target", "version", "origin"} :
        job' = [job EXCEPT ![i] =
                  IF Refusal(enabled, live, keys, token) = "none"
                  THEN [job[i] EXCEPT !.pc = "resolve", !.before = Baseline(keys)]
                  ELSE Raise(Refusal(enabled, live, keys, token))]
  BY DEF BeginInstall
<1> DEFINE why == Refusal(enabled, live, keys, token)
<1>2. why \in Errors
  BY DEF Refusal, Errors, Refusals
<1>3. job[i] = Fresh /\ verified[i] = {} /\ ~sent[i]
  BY Facts DEF BeginInstall
<1>4. UNCHANGED <<disk, wedged, phase, image, histVars>> /\ wedged' \in BOOLEAN
  BY Facts DEF BeginInstall, deviceVars
<1> HIDE DEF why
<1>5. CASE why = "none"
  <2> DEFINE x == [Fresh EXCEPT !.pc = "resolve", !.before = Baseline(keys)]
  <2>1. x \in Job /\ x.before = Baseline(keys)
    BY Facts, BaselineType, FreshType DEF Fresh, Job, PCs
  <2>2. job' = [job EXCEPT ![i] = x]
    BY <1>1, <1>3, <1>5 DEF why
  <2>3. x.pc = "resolve" /\ x.ever = FALSE /\ x.error = "none"
    BY DEF Fresh
  <2>4. Fits(i, x, accepted[i])
    BY <1>3, <2>1, <2>3 DEF Fits, Pushing, Pushed
  <2> HIDE DEF x
  <2>5. QED
    BY <1>4, <2>1, <2>2, <2>4, OneMovesQuietly
<1>6. CASE why # "none"
  <2>1. job' = [job EXCEPT ![i] = Raise(why)]
    BY <1>1, <1>6 DEF why
  <2>2. Fits(i, Raise(why), accepted[i])
    BY <1>2, <1>3, RaiseType DEF Fits, Pushing, Pushed, Raise, Fresh
  <2>3. QED
    BY <1>2, <1>4, <2>1, <2>2, RaiseType, OneMovesQuietly
<1>7. QED
  BY <1>5, <1>6

\* CheckTarget preserves the invariant.
LEMMA CheckTargetInv ==
  ASSUME InstallInv, NEW i \in Installers, CheckTarget(i)
  PROVE  InstallInv'
<1>1. PICK why \in {"none", "bundle", "target"} :
        job' = [job EXCEPT ![i] =
                  IF why = "none" THEN [job[i] EXCEPT !.pc = "write"] ELSE Raise(why)]
  BY DEF CheckTarget
<1>2. /\ job[i] \in Job /\ verified[i] = {} /\ ~sent[i]
      /\ job[i] = [Fresh EXCEPT !.pc = "resolve", !.before = job[i].before]
  BY Facts DEF CheckTarget
<1>3. UNCHANGED <<disk, wedged, phase, image, histVars>> /\ wedged' \in BOOLEAN
  BY Facts DEF CheckTarget, deviceVars
<1>4. CASE why = "none"
  <2> DEFINE x == [job[i] EXCEPT !.pc = "write"]
  <2>1. x \in Job
    BY <1>2 DEF Job, PCs
  <2>2. x.pc = "write" /\ x.cur = 1 /\ x.ever = FALSE /\ x.error = "none"
    BY <1>2 DEF Fresh
  <2>3. job' = [job EXCEPT ![i] = x]
    BY <1>1, <1>4
  <2> HIDE DEF x
  <2>4. 1..(x.cur - 1) = {}
    BY <2>2
  <2>5. Fits(i, x, accepted[i])
    BY <1>2, <2>2, <2>4 DEF Fits, Pushed
  <2>6. QED
    BY <1>3, <2>1, <2>3, <2>5, OneMovesQuietly
<1>5. CASE why # "none"
  <2>1. why \in Errors
    BY <1>5 DEF Errors, Refusals
  <2>2. Fits(i, Raise(why), accepted[i])
    BY <1>2, <2>1, RaiseType DEF Fits, Pushing, Pushed, Raise, Fresh
  <2>3. QED
    BY <1>1, <1>3, <1>5, <2>1, <2>2, RaiseType, OneMovesQuietly
<1>6. QED
  BY <1>4, <1>5

\* What goes out with a write damages no verified file: the file written is not yet
\* verified by its installer, and what replaces another installer's file is not that
\* installer's.
LEMMA TransferKeeps ==
  ASSUME InstallInv, NEW i \in Installers, job[i].pc = "write", NEW ok \in BOOLEAN,
         Transfer(i, ok), verified' = verified
  PROVE  /\ disk' \in [Files -> Content \cup {Absent}]
         /\ wedged' \in BOOLEAN
         /\ \A k \in Installers : \A g \in verified[k] : Landed(k, g)'
<1> DEFINE f == job[i].cur
<1>1. f \in Files /\ f \notin verified[i]
  <2>1. job[i] \in Job /\ verified[i] = 1..(f - 1)
    BY Facts DEF Pushing
  <2>2. f \in Files
    BY <2>1 DEF Job
  <2>3. QED
    BY <2>1, <2>2, InstallAssumption DEF Files
<1>2. PICK c \in Content \cup {Absent} :
        WriteMay(i, f, ok, c) /\ disk' = [disk EXCEPT ![f] = c]
  BY DEF Transfer
<1>3. disk \in [Files -> Content \cup {Absent}] /\ wedged \in BOOLEAN
  BY DEF InstallInv, TypeOK, DeviceOK
<1>4. disk' \in [Files -> Content \cup {Absent}]
  BY <1>2, <1>3
<1>5. wedged' \in BOOLEAN
  BY <1>3 DEF Transfer
<1>6. ASSUME NEW k \in Installers, NEW g \in verified[k]
       PROVE  Landed(k, g)'
  <2>1. Landed(k, g) /\ g \in Files
    BY DEF InstallInv, VerifiedIsLanded, TypeOK, HistoryOK
  <2>2. CASE disk'[g] = disk[g]
    BY <2>1, <2>2 DEF Landed
  <2>3. CASE disk'[g] # disk[g]
    <3>1. g = f /\ k # i /\ disk'[g] = c /\ c # disk[f]
      BY <1>1, <1>2, <1>3, <2>1, <2>3
    <3>2. c \in Content /\ c.of = i
      BY <1>2, <3>1 DEF WriteMay
    <3>3. c # Absent
      BY <3>2, InstallAssumption DEF Absent
    <3>4. QED
      BY <3>1, <3>2, <3>3 DEF Landed
  <2>4. QED
    BY <2>2, <2>3
<1>7. QED
  BY <1>4, <1>5, <1>6

\* Write preserves the invariant.
LEMMA WriteInv ==
  ASSUME InstallInv, NEW i \in Installers, Write(i)
  PROVE  InstallInv'
<1> DEFINE f == job[i].cur
<1>1. /\ job[i] \in Job /\ job[i].pc = "write" /\ f \in Files
      /\ verified[i] = 1..(f - 1) /\ ~sent[i] /\ job[i].error = "none"
  <2>1. /\ job[i] \in Job /\ job[i].pc = "write" /\ verified[i] = 1..(job[i].cur - 1)
        /\ ~sent[i] /\ job[i].error = "none"
    BY Facts DEF Write, Pushing
  <2>2. job[i].cur \in Files
    BY <2>1 DEF Job
  <2>3. QED
    BY <2>1, <2>2, InstallAssumption DEF Files
<1>2. PICK ok \in BOOLEAN :
        /\ Transfer(i, ok)
        /\ job' = [job EXCEPT ![i] =
              IF ok THEN [[job[i] EXCEPT !.written = ok, !.ever = @ \/ ok, !.tries = 0]
                            EXCEPT !.pc = "verify"]
              ELSE EndPass([job[i] EXCEPT !.written = ok, !.ever = @ \/ ok, !.tries = 0])]
  BY DEF Write
<1> DEFINE j == [job[i] EXCEPT !.written = ok, !.ever = @ \/ ok, !.tries = 0]
           x == IF ok THEN [j EXCEPT !.pc = "verify"] ELSE EndPass(j)
<1>3. j \in Job /\ j.cur = f /\ j.status = job[i].status /\ (~ok => j.ever = job[i].ever)
      /\ j.error = "none"
  <2>1. 0 \in 0..Md5Attempts
    BY InstallAssumption
  <2>2. CASE ok
    <3>1. j = [job[i] EXCEPT !.written = TRUE, !.ever = TRUE, !.tries = 0]
      BY <1>1, <2>2 DEF Job
    <3>2. QED
      BY <1>1, <2>1, <2>2, <3>1 DEF Job
  <2>3. CASE ~ok
    <3>1. job[i].ever \in BOOLEAN
      BY <1>1 DEF Job
    <3>2. j = [job[i] EXCEPT !.written = FALSE, !.ever = job[i].ever, !.tries = 0]
      BY <1>1, <2>3, <3>1 DEF Job
    <3>3. QED
      BY <1>1, <2>1, <3>1, <3>2 DEF Job
  <2>4. QED
    BY <2>2, <2>3
<1>4. x \in Job /\ x.pc \in {"verify", "failed", "resync"}
  <2>1. CASE ok
    BY <1>3, <2>1 DEF Job, PCs
  <2>2. CASE ~ok
    BY <1>3, <2>2, EndPassType
  <2>3. QED
    BY <2>1, <2>2
<1>5. x.pc \in Pushing => x.cur = f
  <2>1. CASE ok
    BY <1>3, <2>1 DEF Job
  <2>2. CASE ~ok
    BY <1>3, <1>4, <2>2, EndPassType DEF Pushing
  <2>3. QED
    BY <2>1, <2>2
<1>6. x.ever /\ x.pc = "resync" => x.status = "mismatch"
  <2>1. CASE ok
    BY <1>3, <2>1 DEF Job
  <2>2. CASE ~ok
    <3>1. x.pc = "resync" => x.ever = job[i].ever /\ x.status = job[i].status
      BY <1>3, <2>2, EndPassType
    <3>2. QED
      BY <1>1, <3>1, Facts
  <2>3. QED
    BY <2>1, <2>2
<1>6a. x.pc \in {"resync", "verify"} =>
         (x.pc = "resync" => x.att # ResyncAttempts) /\ x.error = "none"
  <2>1. CASE ok
    BY <1>3, <2>1 DEF Job
  <2>2. CASE ~ok
    BY <1>3, <2>2, EndPassType
  <2>3. QED
    BY <2>1, <2>2
<1>7. job' = [job EXCEPT ![i] = x] /\ job'[i] = x
  BY <1>2 DEF InstallInv, TypeOK
<1>8. /\ phase' = phase /\ image' = image
      /\ verified' = verified /\ accepted' = accepted /\ sent' = sent
  BY DEF Write, histVars
<1>9. DeviceOK' /\ HistoryOK'
  <2>1. disk' \in [Files -> Content \cup {Absent}] /\ wedged' \in BOOLEAN
    BY <1>1, <1>2, <1>8, TransferKeeps
  <2>2. QED
    BY <1>8, <2>1 DEF DeviceOK, HistoryOK, InstallInv, TypeOK
<1> HIDE DEF x, j
<1>10. \A k \in Installers : \A g \in verified[k] : Landed(k, g)'
  BY <1>1, <1>2, <1>8, TransferKeeps
<1>11. Own(i)'
  <2>1. VerifiedInOrder(i)'
    BY <1>1, <1>4, <1>5, <1>7, <1>8 DEF VerifiedInOrder, Pushed
  <2>2. VerifiedIsLanded(i)'
    BY <1>8, <1>10 DEF VerifiedIsLanded
  <2>3. RewriteHasCause(i)'
    BY <1>4, <1>6, <1>7 DEF RewriteHasCause
  <2>4. RebootIsEarned(i)'
    BY <1>1, <1>4, <1>6a, <1>7, <1>8 DEF RebootIsEarned
  <2>5. PassIsLeft(i)'
    BY <1>4, <1>6a, <1>7 DEF PassIsLeft
  <2>6. QED
    BY <2>1, <2>2, <2>3, <2>4, <2>5 DEF Own
<1>12. OthersAlone(i)
  BY <1>8 DEF OthersAlone
<1>13. \A k \in Installers \ {i} : \A g \in verified[k] : Landed(k, g)'
  BY <1>10
<1>14. QED
  BY <1>4, <1>7, <1>8, <1>9, <1>11, <1>12, <1>13, OneMoves

\* The end of a verification preserves the invariant, provided that a match means
\* that the file has landed.
LEMMA ConcludeInv ==
  ASSUME InstallInv, NEW i \in Installers, NEW s \in Statuses,
         job[i].pc = "verify",
         Conclude(i, s),
         UNCHANGED <<deviceVars, accepted, sent>>,
         s = "match" => Landed(i, job[i].cur)
  PROVE  InstallInv'
<1> DEFINE f == job[i].cur
           j == [job[i] EXCEPT !.status = s, !.written = (s # "mismatch")]
           x == CASE s # "match" -> EndPass(j)
                  [] s = "match" /\ j.cur = NFiles -> Stage(j)
                  [] OTHER -> NextFile(j)
<1>1. /\ job[i] \in Job /\ f \in Files /\ verified[i] = 1..(f - 1) /\ ~sent[i]
      /\ job[i].error = "none"
  <2>1. /\ job[i] \in Job /\ verified[i] = 1..(job[i].cur - 1) /\ ~sent[i]
        /\ job[i].error = "none"
    BY Facts DEF Pushing
  <2>2. QED
    BY <2>1 DEF Job
<1>2. j \in Job /\ j.cur = f /\ j.status = s /\ j.att = job[i].att
      /\ j.error = "none"
      /\ (s = "unreadable" => j.written)
  <2>1. (s # "mismatch") \in BOOLEAN
    OBVIOUS
  <2>2. QED
    BY <1>1, <2>1 DEF Job, Statuses
<1>3. /\ disk' = disk /\ phase' = phase /\ image' = image /\ wedged' = wedged
      /\ accepted' = accepted /\ sent' = sent
      /\ job' = [job EXCEPT ![i] = x]
      /\ verified' = IF s = "match" THEN [verified EXCEPT ![i] = @ \cup {f}] ELSE verified
  BY DEF deviceVars, Conclude
<1>4. DeviceOK' /\ HistoryOK'
  <2>1. DeviceOK /\ HistoryOK
    BY DEF InstallInv, TypeOK
  <2>2. verified' \in [Installers -> SUBSET Files]
    BY <1>1, <1>3, <2>1 DEF HistoryOK
  <2>3. QED
    BY <1>3, <2>1, <2>2 DEF DeviceOK, HistoryOK
<1> HIDE DEF j
<1>5. /\ x \in Job
      /\ x.pc \in {"failed", "resync", "update", "write"}
      /\ x.pc # "failed" => x.error = "none"
      /\ x.pc \in Pushing => verified'[i] = 1..(x.cur - 1)
      /\ x.pc \in Pushed => verified'[i] = Files
      /\ x.ever /\ (x.pc = "write" \/ (x.pc = "resync" /\ ~x.written)) => x.status = "mismatch"
      /\ x.pc \in {"resync", "reupdate"} => x.att # ResyncAttempts
  <2>1. CASE s # "match"
    <3>1. x = EndPass(j) /\ verified'[i] = verified[i]
      BY <1>3, <2>1
    <3>2. x \in Job /\ x.pc \in {"failed", "resync"}
      BY <1>2, <3>1, EndPassType
    <3>3. x.pc = "resync" => /\ x.cur = f /\ x.status = s /\ x.written = j.written
                             /\ x.att # ResyncAttempts /\ x.error = "none"
      BY <1>2, <3>1, EndPassType
    <3>4. s \in {"mismatch", "unreadable"}
      BY <2>1 DEF Statuses
    <3>5. QED
      BY <1>1, <1>2, <3>1, <3>2, <3>3, <3>4 DEF Pushing, Pushed
  <2>2. CASE s = "match"
    <3>1. verified'[i] = 1..f
      <4>1. verified'[i] = verified[i] \cup {f}
        BY <1>3, <2>2 DEF InstallInv, TypeOK, HistoryOK
      <4>2. f \in Nat /\ f > 0
        BY <1>1, InstallAssumption DEF Files
      <4>3. QED
        BY <1>1, <4>1, <4>2
    <3>2. CASE f = NFiles
      <4>1. x = Stage(j)
        BY <1>2, <2>2, <3>2
      <4>2. QED
        BY <1>2, <3>1, <3>2, <4>1, StageType DEF Pushing, Pushed, Files
    <3>3. CASE f # NFiles
      <4>1. x = NextFile(j)
        BY <1>2, <2>2, <3>3
      <4>2. x \in Job /\ x.pc = "write" /\ x.cur = f + 1 /\ x.ever = FALSE /\ x.error = "none"
        BY <1>2, <3>3, <4>1, NextFileType
      <4>3. x.cur - 1 = f
        BY <1>1, <4>2, InstallAssumption DEF Files
      <4>4. QED
        BY <3>1, <4>2, <4>3 DEF Pushed
    <3>4. QED
      BY <3>2, <3>3
  <2>3. QED
    BY <2>1, <2>2
<1> HIDE DEF x
<1>6. job'[i] = x
  BY <1>3 DEF InstallInv, TypeOK
<1>7. ASSUME NEW k \in Installers, NEW g \in verified'[k]
      PROVE  Landed(k, g)'
  <2>1. g \in verified[k] \/ (k = i /\ g = f /\ s = "match")
    BY <1>3 DEF InstallInv, TypeOK, HistoryOK
  <2>2. Landed(k, g)
    BY <2>1 DEF InstallInv, VerifiedIsLanded
  <2>3. QED
    BY <1>3, <2>2 DEF Landed
<1>8. Own(i)'
  <2>1. VerifiedInOrder(i)'
    BY <1>5, <1>6 DEF VerifiedInOrder
  <2>2. VerifiedIsLanded(i)'
    BY <1>7 DEF VerifiedIsLanded
  <2>3. RewriteHasCause(i)'
    BY <1>5, <1>6 DEF RewriteHasCause
  <2>4. RebootIsEarned(i)'
    BY <1>1, <1>3, <1>5, <1>6 DEF RebootIsEarned
  <2>5. PassIsLeft(i)'
    BY <1>5, <1>6 DEF PassIsLeft
  <2>6. QED
    BY <2>1, <2>2, <2>3, <2>4, <2>5 DEF Own
<1>9. OthersAlone(i)
  BY <1>3 DEF InstallInv, TypeOK, HistoryOK, OthersAlone
<1>10. \A k \in Installers \ {i} : \A g \in verified[k] : Landed(k, g)'
  BY <1>7, <1>9 DEF OthersAlone
<1>11. QED
  BY <1>3, <1>4, <1>5, <1>8, <1>9, <1>10, OneMoves

\* CheckMd5 preserves the invariant: a digest matches only data that is intact.
LEMMA CheckMd5Inv ==
  ASSUME InstallInv, NEW i \in Installers, CheckMd5(i)
  PROVE  InstallInv'
<1>1. PICK d \in {"none", "match", "mismatch"} :
        /\ DigestMay(i, d)
        /\ IF d = "none" /\ job[i].tries + 1 < Md5Attempts
           THEN /\ job' = [job EXCEPT ![i].tries = @ + 1]
                /\ UNCHANGED verified
           ELSE Conclude(i, IF d = "none" THEN "unreadable" ELSE d)
  BY DEF CheckMd5
<1>2. job[i].pc = "verify" /\ UNCHANGED <<deviceVars, accepted, sent>>
  BY DEF CheckMd5
<1>3. CASE d = "none" /\ job[i].tries + 1 < Md5Attempts
  <2> DEFINE x == [job[i] EXCEPT !.tries = @ + 1]
  <2>1. job' = [job EXCEPT ![i] = x] /\ UNCHANGED <<disk, phase, image, histVars>> /\ wedged' = wedged
    BY <1>1, <1>2, <1>3 DEF deviceVars, histVars
  <2>2. job[i] \in Job
    BY Facts
  <2>3. x \in Job
    <3>1. job[i].tries + 1 \in 0..Md5Attempts
      BY <1>3, <2>2, InstallAssumption DEF Job
    <3>2. QED
      BY <2>2, <3>1 DEF Job
  <2>4. x.pc = "verify" /\ x.cur = job[i].cur /\ x.error = job[i].error
    BY <1>2, <2>2 DEF Job
  <2> HIDE DEF x
  <2>5. wedged' \in BOOLEAN
    BY <2>1, Facts
  <2>6. Fits(i, x, accepted[i])
    BY <1>2, <2>4, Facts DEF Fits, Pushing, Pushed
  <2>7. QED
    BY <2>1, <2>3, <2>5, <2>6, OneMovesQuietly
<1>4. CASE ~(d = "none" /\ job[i].tries + 1 < Md5Attempts)
  <2> DEFINE s == IF d = "none" THEN "unreadable" ELSE d
  <2>1. Conclude(i, s) /\ s \in Statuses
    BY <1>1, <1>4 DEF Statuses
  <2>2. s = "match" => Landed(i, job[i].cur)
    <3>1. SUFFICES ASSUME d = "match" PROVE Landed(i, job[i].cur)
      OBVIOUS
    <3>2. disk[job[i].cur] = [of |-> i, form |-> "intact"]
      BY <1>1, <3>1 DEF DigestMay, Intact
    <3>3. QED
      BY <3>2, InstallAssumption DEF Landed, Absent
  <2> HIDE DEF s
  <2>3. QED
    BY <1>2, <2>1, <2>2, ConcludeInv
<1>5. QED
  BY <1>3, <1>4

\* CheckSize preserves the invariant: a size matches only data that is complete.
LEMMA CheckSizeInv ==
  ASSUME InstallInv, NEW i \in Installers, CheckSize(i)
  PROVE  InstallInv'
<1>1. PICK s \in Statuses : SizeMay(i, s) /\ Conclude(i, s)
  BY DEF CheckSize
<1>2. job[i].pc = "verify" /\ job[i].cur \in Large /\ UNCHANGED <<deviceVars, accepted, sent>>
  BY DEF CheckSize
<1>3. s = "match" => Landed(i, job[i].cur)
  <2>1. SUFFICES ASSUME s = "match" PROVE Landed(i, job[i].cur)
    OBVIOUS
  <2>2. disk[job[i].cur] # Absent /\ (disk[job[i].cur].of = i => disk[job[i].cur].form # "truncated")
    BY <1>1, <2>1 DEF SizeMay
  <2>3. disk[job[i].cur] \in Content
    <3>1. job[i].cur \in Files
      BY Facts DEF Job
    <3>2. QED
      BY <2>2, <3>1 DEF InstallInv, TypeOK, DeviceOK
  <2>4. QED
    BY <1>2, <2>2, <2>3 DEF Landed, Content
<1>4. QED
  BY <1>1, <1>2, <1>3, ConcludeInv

\* The record of a call that raises fits, unless it raises a FlashError after its
\* request has left.
LEMMA RaiseFits ==
  ASSUME InstallInv, NEW i \in Installers, NEW e \in Errors, sent[i] => e \notin FlashErrors
  PROVE  Fits(i, Raise(e), accepted[i])
<1>1. /\ Raise(e).pc = "failed" /\ Raise(e).error = e
      /\ Raise(e).ever = FALSE
  BY RaiseType DEF Raise, Fresh
<1>2. QED
  BY <1>1, Facts DEF Fits, Pushing, Pushed

\* A call that raises, with no effect on the card, the phase or the histories,
\* preserves the invariant.
LEMMA RaiseInv ==
  ASSUME InstallInv, NEW i \in Installers, NEW e \in Errors, sent[i] => e \notin FlashErrors,
         job' = [job EXCEPT ![i] = Raise(e)],
         UNCHANGED <<disk, phase, image, histVars>>, wedged' \in BOOLEAN
  PROVE  InstallInv'
  BY RaiseType, RaiseFits, OneMovesQuietly

\* A reconnect touches nothing but the wedge.
LEMMA ReconnectsType ==
  ASSUME InstallInv, Reconnects
  PROVE  wedged' \in BOOLEAN
  BY DEF InstallInv, TypeOK, DeviceOK, Reconnects

\* Resync preserves the invariant: what is to be written again has disagreed.
LEMMA ResyncInv ==
  ASSUME InstallInv, NEW i \in Installers, Resync(i)
  PROVE  InstallInv'
<1> DEFINE x == [job[i] EXCEPT !.pc = IF job[i].written THEN "verify" ELSE "write",
                               !.att = job[i].att + 1, !.tries = 0]
<1>1. /\ job' = [job EXCEPT ![i] = x]
      /\ UNCHANGED <<disk, phase, image, histVars>>
      /\ wedged' \in BOOLEAN
      /\ job[i].pc = "resync" /\ job[i].att # ResyncAttempts
  <2>1. Reconnects /\ job[i].pc = "resync" /\ UNCHANGED <<disk, phase, image, histVars>>
    BY DEF Resync
  <2>2. job' = [job EXCEPT ![i] = x]
    BY DEF Resync
  <2>3. QED
    BY <2>1, <2>2, ReconnectsType, Facts
<1>2. job[i] \in Job
  BY Facts
<1>3. job[i].att + 1 \in 0..ResyncAttempts /\ 0 \in 0..Md5Attempts
  BY <1>1, <1>2, InstallAssumption DEF Job
<1>4. x \in Job
  BY <1>2, <1>3 DEF Job, PCs
<1>5. /\ x.pc = (IF job[i].written THEN "verify" ELSE "write")
      /\ x.cur = job[i].cur /\ x.ever = job[i].ever /\ x.status = job[i].status
      /\ x.error = job[i].error
  BY <1>2 DEF Job
<1> HIDE DEF x
<1>6. verified[i] = 1..(x.cur - 1) /\ ~sent[i] /\ x.error = "none"
  BY <1>1, <1>5, Facts DEF Pushing
<1>7. x.ever /\ x.pc = "write" => x.status = "mismatch"
  BY <1>1, <1>5, Facts
<1>8. x.pc \in {"verify", "write"}
  BY <1>5
<1>9. Fits(i, x, accepted[i])
  BY <1>6, <1>7, <1>8 DEF Fits, Pushed
<1>10. QED
  BY <1>1, <1>4, <1>9, OneMovesQuietly

\* TriggerUpdate preserves the invariant: only an OK leads to the reboot.
LEMMA TriggerUpdateInv ==
  ASSUME InstallInv, NEW i \in Installers, TriggerUpdate(i)
  PROVE  InstallInv'
<1>1. PICK code \in {"ok", "unspecified", "specific", "timeout"} :
        /\ accepted' = [accepted EXCEPT ![i] = (code = "ok")]
        /\ job' = [job EXCEPT ![i] =
               CASE code = "ok" -> [job[i] EXCEPT !.pc = "reboot"]
                 [] code = "timeout" -> Raise("link")
                 [] code = "unspecified" /\ job[i].att < ResyncAttempts
                      -> [job[i] EXCEPT !.pc = "reupdate"]
                 [] OTHER -> Raise("code")]
  BY DEF TriggerUpdate
<1>2. /\ UNCHANGED <<disk, phase, image, verified, sent>> /\ wedged' \in BOOLEAN
      /\ job[i] \in Job /\ verified[i] = Files /\ ~sent[i] /\ job[i].error = "none"
  BY Facts DEF TriggerUpdate, deviceVars, Pushed
<1>3. ASSUME NEW x \in Job, job' = [job EXCEPT ![i] = x], x.ever = job[i].ever \/ x.pc = "failed",
             \/ x.pc = "reboot" /\ code = "ok" /\ x.error = "none"
             \/ x.pc = "reupdate" /\ x.att # ResyncAttempts /\ x.error = "none"
             \/ x.pc = "failed"
      PROVE  InstallInv'
  <2>1. Fits(i, x, code = "ok")
    BY <1>2, <1>3 DEF Fits, Pushing, Pushed
  <2>2. (code = "ok") \in BOOLEAN
    OBVIOUS
  <2>3. QED
    BY <1>1, <1>2, <1>3, <2>1, <2>2, OneIsAnswered
<1>4. CASE code = "ok"
  <2> DEFINE x == [job[i] EXCEPT !.pc = "reboot"]
  <2>1. x \in Job /\ x.pc = "reboot" /\ x.error = "none" /\ x.ever = job[i].ever
    BY <1>2 DEF Job, PCs
  <2>2. job' = [job EXCEPT ![i] = x]
    BY <1>1, <1>4
  <2> HIDE DEF x
  <2>3. QED
    BY <1>3, <1>4, <2>1, <2>2
<1>5. CASE code = "unspecified" /\ job[i].att < ResyncAttempts
  <2> DEFINE x == [job[i] EXCEPT !.pc = "reupdate"]
  <2>1. /\ x \in Job /\ x.pc = "reupdate" /\ x.att # ResyncAttempts /\ x.error = "none"
        /\ x.ever = job[i].ever
    BY <1>2, <1>5, InstallAssumption DEF Job, PCs
  <2>2. job' = [job EXCEPT ![i] = x]
    BY <1>1, <1>5
  <2> HIDE DEF x
  <2>3. QED
    BY <1>3, <2>1, <2>2
<1>6. CASE code \in {"timeout", "specific"} \/ (code = "unspecified" /\ ~(job[i].att < ResyncAttempts))
  <2>1. job' = [job EXCEPT ![i] = Raise("link")] \/ job' = [job EXCEPT ![i] = Raise("code")]
    BY <1>1, <1>6
  <2>2. "link" \in Errors /\ "code" \in Errors
    BY DEF Errors, FlashErrors
  <2>3. QED
    BY <1>3, <2>1, <2>2, RaiseType
<1>7. QED
  BY <1>4, <1>5, <1>6

\* ResyncUpdate preserves the invariant.
LEMMA ResyncUpdateInv ==
  ASSUME InstallInv, NEW i \in Installers, ResyncUpdate(i)
  PROVE  InstallInv'
<1> DEFINE x == [job[i] EXCEPT !.pc = "update", !.att = job[i].att + 1]
<1>1. /\ Reconnects /\ job[i].pc = "reupdate" /\ UNCHANGED <<disk, phase, image, histVars>>
      /\ job' = [job EXCEPT ![i] = x]
  BY DEF ResyncUpdate
<1>2. /\ job[i] \in Job /\ job[i].att # ResyncAttempts /\ verified[i] = Files /\ ~sent[i]
      /\ wedged' \in BOOLEAN /\ job[i].error = "none"
  BY <1>1, ReconnectsType, Facts DEF Pushed
<1>3. job[i].att + 1 \in 0..ResyncAttempts
  BY <1>2, InstallAssumption DEF Job
<1>4. x \in Job /\ x.pc = "update" /\ x.error = "none"
  BY <1>2, <1>3 DEF Job, PCs
<1> HIDE DEF x
<1>5. Fits(i, x, accepted[i])
  BY <1>2, <1>4 DEF Fits, Pushing, Pushed
<1>6. QED
  BY <1>1, <1>2, <1>4, <1>5, OneMovesQuietly

\* The reboot request preserves the invariant: the files are all verified and the
\* update is accepted by now.
LEMMA RequestedInv ==
  ASSUME InstallInv, NEW i \in Installers, NEW x \in Job,
         job[i].pc = "reboot", Requested(i), job' = [job EXCEPT ![i] = x],
         \/ x.pc = "poll" /\ x.error = "none" /\ x.ever = job[i].ever
         \/ x.pc = "failed" /\ x.error \notin FlashErrors
  PROVE  InstallInv'
<1>1. /\ sent' = [sent EXCEPT ![i] = TRUE]
      /\ disk' = disk /\ wedged' = wedged /\ image' = image
      /\ verified' = verified /\ accepted' = accepted
      /\ phase' \in {"up", "leaving", phase}
  BY DEF Requested
<1>2. job[i] \in Job /\ verified[i] = Files /\ accepted[i]
  BY Facts DEF Pushed
<1>3. job'[i] = x /\ sent'[i] = TRUE
  BY <1>1 DEF InstallInv, TypeOK, HistoryOK
<1>4. DeviceOK' /\ HistoryOK'
  BY <1>1 DEF DeviceOK, HistoryOK, InstallInv, TypeOK
<1>5. \A k \in Installers : \A f \in verified[k] : Landed(k, f)'
  BY <1>1 DEF InstallInv, VerifiedIsLanded, Landed
<1>6. Own(i)'
  <2>1. VerifiedInOrder(i)' /\ PassIsLeft(i)' /\ RewriteHasCause(i)'
    BY <1>1, <1>2, <1>3 DEF VerifiedInOrder, PassIsLeft, RewriteHasCause, Pushing, Pushed
  <2>2. VerifiedIsLanded(i)'
    BY <1>1, <1>5 DEF VerifiedIsLanded
  <2>3. RebootIsEarned(i)'
    BY <1>1, <1>2, <1>3 DEF RebootIsEarned, Earned, FlashErrors, PushErrors
  <2>4. QED
    BY <2>1, <2>2, <2>3 DEF Own
<1>7. OthersAlone(i)
  BY <1>1 DEF InstallInv, TypeOK, HistoryOK, OthersAlone
<1>8. QED
  BY <1>1, <1>3, <1>4, <1>5, <1>6, <1>7, OneMoves

\* The end of install_bundle() preserves the invariant, whether send() returns or raises.
LEMMA RebootInv ==
  ASSUME InstallInv, NEW i \in Installers, RebootUpdate(i) \/ RebootEscapes(i)
  PROVE  InstallInv'
<1>1. CASE RebootUpdate(i)
  <2> DEFINE x == [job[i] EXCEPT !.pc = "poll"]
  <2>1. job[i] \in Job /\ job[i].pc = "reboot" /\ job[i].error = "none"
    BY <1>1, Facts DEF RebootUpdate
  <2>2. x \in Job /\ x.pc = "poll" /\ x.error = "none" /\ x.ever = job[i].ever
    BY <2>1 DEF Job, PCs
  <2>3. job' = [job EXCEPT ![i] = x] /\ Requested(i)
    BY <1>1 DEF RebootUpdate
  <2> HIDE DEF x
  <2>4. QED
    BY <2>1, <2>2, <2>3, RequestedInv
<1>2. CASE RebootEscapes(i)
  <2>1. "escaped" \in Errors /\ "escaped" \notin FlashErrors
    BY DEF Errors, Unknowns, FlashErrors, PushErrors
  <2>2. job[i].pc = "reboot" /\ job' = [job EXCEPT ![i] = Raise("escaped")]
    BY <1>2 DEF RebootEscapes
  <2>3. CASE Requested(i)
    BY <2>1, <2>2, <2>3, RaiseType, RequestedInv
  <2>4. CASE UNCHANGED <<deviceVars, histVars>>
    <3>1. UNCHANGED <<disk, phase, image, histVars>> /\ wedged' \in BOOLEAN
      BY <2>4, Facts DEF deviceVars
    <3>2. QED
      BY <2>1, <2>2, <3>1, RaiseInv
  <2>5. QED
    BY <1>2, <2>3, <2>4 DEF RebootEscapes
<1>3. QED
  BY <1>1, <1>2

\* A cancellation preserves the invariant, wherever the call is.
LEMMA CancelInv ==
  ASSUME InstallInv, NEW i \in Installers, Cancel(i)
  PROVE  InstallInv'
<1>1. PICK e \in {"interrupted", "cancelled"} : job' = [job EXCEPT ![i] = Raise(e)]
  BY DEF Cancel
<1>2. e \in Errors /\ e \notin FlashErrors
  BY DEF Errors, Unknowns, FlashErrors, PushErrors
<1>3. CASE UNCHANGED <<deviceVars, histVars>>
  <2>1. UNCHANGED <<disk, phase, image, histVars>> /\ wedged' \in BOOLEAN
    BY <1>3, Facts DEF deviceVars
  <2>2. QED
    BY <1>1, <1>2, <2>1, RaiseInv
<1>4. CASE /\ job[i].pc = "write" /\ Transfer(i, FALSE)
           /\ UNCHANGED <<phase, image, histVars>>
  <2>1. /\ phase' = phase /\ image' = image
        /\ verified' = verified /\ accepted' = accepted /\ sent' = sent
    BY <1>4 DEF histVars
  <2>2. /\ disk' \in [Files -> Content \cup {Absent}] /\ wedged' \in BOOLEAN
        /\ \A k \in Installers : \A g \in verified[k] : Landed(k, g)'
    BY <1>4, <2>1, TransferKeeps
  <2>3. DeviceOK' /\ HistoryOK'
    BY <2>1, <2>2 DEF DeviceOK, HistoryOK, InstallInv, TypeOK
  <2>4. Raise(e) \in Job /\ job'[i] = Raise(e) /\ Raise(e).pc = "failed" /\ ~sent[i]
    BY <1>1, <1>2, <1>4, RaiseType, Facts DEF InstallInv, TypeOK
  <2>5. VerifiedIsLanded(i)'
    BY <2>1, <2>2 DEF VerifiedIsLanded
  <2>6. Own(i)'
    BY <2>1, <2>4, <2>5 DEF Own, VerifiedInOrder, RewriteHasCause, PassIsLeft, RebootIsEarned,
       Pushing, Pushed
  <2>7. OthersAlone(i)
    BY <2>1 DEF OthersAlone
  <2>8. QED
    BY <1>1, <2>1, <2>2, <2>3, <2>4, <2>6, <2>7, OneMoves
<1>5. CASE Reconnects /\ UNCHANGED <<disk, phase, image, histVars>>
  BY <1>1, <1>2, <1>5, ReconnectsType, RaiseInv
<1>6. CASE job[i].pc = "reboot" /\ Requested(i)
  BY <1>1, <1>2, <1>6, RaiseType, RequestedInv
<1>7. QED
  BY <1>3, <1>4, <1>5, <1>6 DEF Cancel

\* The polls preserve the invariant: they end the call or go on polling.
LEMMA PollInv ==
  ASSUME InstallInv, NEW i \in Installers, PollMisses(i) \/ PollReads(i) \/ PollEnds(i)
  PROVE  InstallInv'
<1>1. /\ job[i].pc = "poll" /\ job[i] \in Job /\ verified[i] = Files
      /\ job[i].error = "none" /\ (sent[i] => accepted[i])
  <2>1. job[i].pc = "poll"
    BY DEF PollMisses, PollReads, PollEnds
  <2>2. QED
    BY <2>1, Facts DEF Pushed
<1>2. UNCHANGED <<disk, phase, image, histVars>> /\ wedged' \in BOOLEAN
  <2>1. CASE PollMisses(i) \/ PollEnds(i)
    BY <2>1, Facts DEF PollMisses, PollEnds, deviceVars
  <2>2. CASE PollReads(i)
    BY <2>2, ReconnectsType DEF PollReads
  <2>3. QED
    BY <2>1, <2>2
<1>3. ASSUME NEW x \in Job, job' = [job EXCEPT ![i] = x], x.pc \in {"poll", "done"},
             x.error = "none"
      PROVE  InstallInv'
  <2>1. Fits(i, x, accepted[i])
    BY <1>1, <1>3 DEF Fits, Pushing, FlashErrors, PushErrors
  <2>2. QED
    BY <1>2, <1>3, <2>1, OneMovesQuietly
<1>4. ASSUME job[i].polls < MaxPolls
      PROVE  job[i].polls + 1 \in 0..MaxPolls
  BY <1>1, <1>4, InstallAssumption DEF Job
<1>5. CASE PollMisses(i)
  <2> DEFINE x == [job[i] EXCEPT !.polls = @ + 1]
  <2>1. job' = [job EXCEPT ![i] = x] /\ job[i].polls < MaxPolls
    BY <1>5 DEF PollMisses
  <2>2. x \in Job /\ x.pc = "poll" /\ x.error = "none"
    BY <1>1, <1>4, <2>1 DEF Job
  <2> HIDE DEF x
  <2>3. QED
    BY <1>3, <2>1, <2>2
<1>6. CASE PollReads(i)
  <2> DEFINE j == [job[i] EXCEPT !.found = TRUE, !.polls = @ + 1]
  <2>1. /\ job[i].polls < MaxPolls
        /\ job' = [job EXCEPT ![i] = Report(j, TRUE)] \/ job' = [job EXCEPT ![i] = j]
    <3>1. job[i].polls < MaxPolls
      BY <1>6 DEF PollReads
    <3>2. PICK answered \in BOOLEAN :
            job' = [job EXCEPT ![i] =
                   IF j.before.version # None /\ Reading(answered) # j.before
                   THEN Report(j, TRUE) ELSE j]
      BY <1>6 DEF PollReads
    <3> HIDE DEF j
    <3>3. CASE j.before.version # None /\ Reading(answered) # j.before
      BY <3>1, <3>2, <3>3
    <3>4. CASE ~(j.before.version # None /\ Reading(answered) # j.before)
      BY <3>1, <3>2, <3>4
    <3>5. QED
      BY <3>3, <3>4
  <2>2. j \in Job /\ j.pc = "poll" /\ j.error = "none"
    BY <1>1, <1>4, <2>1 DEF Job
  <2> HIDE DEF j
  <2>3. QED
    BY <1>3, <2>1, <2>2, ReportType
<1>7. CASE PollEnds(i)
  <2>1. CASE job[i].found
    <3>1. job' = [job EXCEPT ![i] = Report(job[i], FALSE)]
      BY <1>7, <2>1 DEF PollEnds
    <3>2. QED
      BY <1>1, <1>3, <3>1, ReportType
  <2>2. CASE ~job[i].found
    <3>1. job' = [job EXCEPT ![i] = Raise("lost")]
      BY <1>7, <2>2 DEF PollEnds
    <3>2. "lost" \in Errors /\ "lost" \notin FlashErrors
      BY DEF Errors, Unknowns, FlashErrors, PushErrors
    <3>3. QED
      BY <1>2, <3>1, <3>2, RaiseInv
  <2>3. QED
    BY <2>1, <2>2
<1>8. QED
  BY <1>5, <1>6, <1>7

\* The device's own steps preserve the invariant: they touch neither the card nor
\* the calls.
LEMMA DeviceInv ==
  ASSUME InstallInv, DevReboot \/ DevApply
  PROVE  InstallInv'
<1>1. UNCHANGED <<job, disk, histVars>>
  BY DEF DevReboot, DevApply
<1>2. job' = job /\ disk' = disk /\ verified' = verified /\ accepted' = accepted /\ sent' = sent
  BY <1>1 DEF histVars
<1>3. DeviceOK'
  <2>1. CASE DevReboot
    BY <1>2, <2>1 DEF DevReboot, InstallInv, TypeOK, DeviceOK
  <2>2. CASE DevApply
    <3>1. \A f \in Files : disk[f].of # None => disk[f].of \in Installers
      BY DEF InstallInv, TypeOK, DeviceOK, Content, Absent
    <3>2. image' \in Images
      BY <2>2, <3>1, InstallAssumption DEF DevApply, InstallInv, TypeOK, DeviceOK
    <3>3. QED
      BY <1>2, <2>2, <3>2 DEF DevApply, InstallInv, TypeOK, DeviceOK
  <2>3. QED
    BY <2>1, <2>2
<1>4. TypeOK'
  BY <1>2, <1>3 DEF InstallInv, TypeOK, HistoryOK
<1>5. LeavesOnRequest'
  <2>1. CASE DevReboot
    BY <1>2, <2>1 DEF DevReboot, InstallInv, LeavesOnRequest
  <2>2. CASE DevApply
    BY <2>2 DEF DevApply, LeavesOnRequest
  <2>3. QED
    BY <2>1, <2>2
<1>6. ASSUME NEW i \in Installers
      PROVE  Own(i)'
  BY <1>2 DEF InstallInv, Own, VerifiedInOrder, VerifiedIsLanded, Landed, RewriteHasCause,
     PassIsLeft, RebootIsEarned, Earned
<1>7. QED
  BY <1>4, <1>5, <1>6 DEF InstallInv, Own

-----------------------------------------------------------------------------
(* The theorems. *)

\* InstallInv holds initially.
LEMMA InitInv == Init => InstallInv
<1> SUFFICES ASSUME Init PROVE InstallInv
  OBVIOUS
<1>1. TypeOK
  <2>1. job \in [Installers -> Job]
    BY FreshType DEF Init
  <2>2. QED
    BY <2>1 DEF Init, TypeOK, DeviceOK, HistoryOK
<1>2. ASSUME NEW i \in Installers
      PROVE  Own(i)
  <2>1. job[i] = Fresh /\ verified[i] = {} /\ sent[i] = FALSE /\ accepted[i] = FALSE
    BY DEF Init
  <2>2. Fresh.pc = "idle" /\ Fresh.ever = FALSE /\ Fresh.error = "none"
    BY DEF Fresh
  <2>3. QED
    BY <2>1, <2>2 DEF Own, VerifiedInOrder, VerifiedIsLanded, RewriteHasCause, PassIsLeft,
       RebootIsEarned, Pushing, Pushed
<1>3. LeavesOnRequest
  BY DEF Init, LeavesOnRequest
<1>4. QED
  BY <1>1, <1>2, <1>3 DEF InstallInv, Own

\* InstallInv is preserved by every step.
LEMMA NextInv == InstallInv /\ [Next]_vars => InstallInv'
<1> SUFFICES ASSUME InstallInv, [Next]_vars PROVE InstallInv'
  OBVIOUS
<1>1. ASSUME NEW i \in Installers, Step(i)
      PROVE  InstallInv'
  <2>1. CASE BeginInstall(i)
    BY <2>1, BeginInstallInv
  <2>1a. CASE CheckTarget(i)
    BY <2>1a, CheckTargetInv
  <2>2. CASE Write(i)
    BY <2>2, WriteInv
  <2>3. CASE CheckMd5(i)
    BY <2>3, CheckMd5Inv
  <2>4. CASE CheckSize(i)
    BY <2>4, CheckSizeInv
  <2>5. CASE Resync(i)
    BY <2>5, ResyncInv
  <2>6. CASE ResyncFails(i)
    <3>1. "resync" \in Errors
      BY DEF Errors, FlashErrors
    <3>2. UNCHANGED <<disk, phase, image, histVars>> /\ wedged' \in BOOLEAN /\ ~sent[i]
      BY <2>6, Facts DEF ResyncFails, deviceVars
    <3>3. job' = [job EXCEPT ![i] = Raise("resync")]
      BY <2>6 DEF ResyncFails
    <3>4. QED
      BY <3>1, <3>2, <3>3, RaiseInv
  <2>7. CASE TriggerUpdate(i)
    BY <2>7, TriggerUpdateInv
  <2>8. CASE ResyncUpdate(i)
    BY <2>8, ResyncUpdateInv
  <2>9. CASE RebootUpdate(i) \/ RebootEscapes(i)
    BY <2>9, RebootInv
  <2>10. CASE PollMisses(i) \/ PollReads(i) \/ PollEnds(i)
    BY <2>10, PollInv
  <2>11. QED
    BY <1>1, <2>1, <2>1a, <2>2, <2>3, <2>4, <2>5, <2>6, <2>7, <2>8, <2>9, <2>10 DEF Step
<1>1a. ASSUME NEW i \in Installers, Cancel(i)
       PROVE  InstallInv'
  BY <1>1a, CancelInv
<1>2. CASE DevReboot \/ DevApply
  BY <1>2, DeviceInv
<1>3. CASE UNCHANGED vars
  <2>1. /\ job' = job /\ disk' = disk /\ wedged' = wedged /\ phase' = phase /\ image' = image
        /\ verified' = verified /\ accepted' = accepted /\ sent' = sent
    BY <1>3 DEF vars, deviceVars, histVars
  <2>2. TypeOK' /\ LeavesOnRequest'
    BY <2>1 DEF InstallInv, TypeOK, DeviceOK, HistoryOK, LeavesOnRequest
  <2>3. ASSUME NEW i \in Installers
        PROVE  Own(i)'
    BY <2>1 DEF InstallInv, Own, VerifiedInOrder, VerifiedIsLanded, Landed, RewriteHasCause,
       PassIsLeft, RebootIsEarned, Earned
  <2>4. QED
    BY <2>2, <2>3 DEF InstallInv, Own
<1>4. QED
  BY <1>1, <1>1a, <1>2, <1>3 DEF Next

\* The inductive invariant holds in every reachable state.
LEMMA Invariance == Spec => []InstallInv
  BY InitInv, NextInv, PTL DEF Spec

\* No counter of the installer leaves its budget and every variable keeps its type,
\* for any number of installs, files and retries.
THEOREM InstallTypes == Spec => []TypeOK
<1>1. InstallInv => TypeOK
  BY DEF InstallInv
<1>2. QED
  BY <1>1, Invariance, PTL

\* install_bundle() asks for the update, reboots and reports only when every file it
\* pushed is on the card, undamaged as far as its check can see.
THEOREM PushesLand == Spec => []PushedIsLanded
<1>1. InstallInv => PushedIsLanded
  BY DEF InstallInv, PushedIsLanded, VerifiedInOrder, VerifiedIsLanded
<1>2. QED
  BY <1>1, Invariance, PTL

\* _push_file() rewrites an acknowledged file only after a verification disagreed.
THEOREM RewritesHaveCause == Spec => []RewriteOnlyOnMismatch
<1>1. InstallInv => RewriteOnlyOnMismatch
  BY DEF InstallInv, RewriteOnlyOnMismatch, RewriteHasCause
<1>2. QED
  BY <1>1, Invariance, PTL

\* A device that leaves for its updater has been asked to by this very step, and a
\* request leaves only from an install whose update was accepted.
LEMMA LeavesAreEarned ==
  ASSUME InstallInv, Next, phase = "up", phase' # "up"
  PROVE  \E i \in Installers : ~sent[i] /\ sent'[i] /\ Earned(i)
<1>1. PICK i \in Installers : job[i].pc = "reboot" /\ Requested(i)
  BY DEF Next, Step, BeginInstall, CheckTarget, Write, CheckMd5, CheckSize, Resync, ResyncFails,
     TriggerUpdate, ResyncUpdate, RebootUpdate, RebootEscapes, Cancel, PollMisses, PollReads,
     PollEnds, DevReboot, DevApply, deviceVars
<1>2. ~sent[i] /\ Earned(i)
  BY <1>1, Facts DEF Earned, Pushed
<1>3. sent'[i]
  BY <1>1 DEF Requested, InstallInv, TypeOK, HistoryOK
<1>4. QED
  BY <1>2, <1>3

\* The device leaves for its updater only on the request of an install that has
\* verified every file and had the update accepted, its firmware changes only after
\* such a request, and no install that ends with a FlashError has asked for it.
THEOREM UpdatesAreEarned == Spec => UpdateIsEarned
<1>1. ASSUME InstallInv, InstallInv', Next
      PROVE  /\ phase = "up" /\ phase' # "up" =>
                   \E i \in Installers : ~sent[i] /\ sent'[i] /\ Earned(i)
             /\ image' # image => \E i \in Installers : sent[i] /\ Earned(i)
             /\ \A i \in Installers : sent'[i] => job'[i].error \notin FlashErrors
  <2>1. phase = "up" /\ phase' # "up" => \E i \in Installers : ~sent[i] /\ sent'[i] /\ Earned(i)
    BY <1>1, LeavesAreEarned
  <2>2. image' # image => phase = "updating"
    BY <1>1 DEF Next, Step, BeginInstall, CheckTarget, Write, CheckMd5, CheckSize, Resync,
       ResyncFails, TriggerUpdate, ResyncUpdate, RebootUpdate, RebootEscapes, Cancel, Requested,
       PollMisses, PollReads, PollEnds, DevReboot, DevApply, deviceVars
  <2>3. image' # image => \E i \in Installers : sent[i] /\ Earned(i)
    BY <1>1, <2>2 DEF InstallInv, LeavesOnRequest, RebootIsEarned
  <2>4. \A i \in Installers : sent'[i] => job'[i].error \notin FlashErrors
    BY <1>1 DEF InstallInv, RebootIsEarned
  <2>5. QED
    BY <2>1, <2>3, <2>4
<1>2. QED
  BY <1>1, Invariance, PTL DEF Spec, UpdateIsEarned

=============================================================================
