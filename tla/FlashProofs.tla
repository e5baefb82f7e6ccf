---------------------------- MODULE FlashProofs ----------------------------
(***************************************************************************)
(* The refinement proof: every behaviour of FirmwareInstall is one of      *)
(* Flash, for any number of installs, files and retries.  It rests on      *)
(* InstallInv (the files verified are the first ones, in order) and on     *)
(* CardIsPushed (the updater finds only what a flash that began wrote).    *)
(***************************************************************************)
EXTENDS FirmwareInstallProofs, FiniteSetTheorems

-----------------------------------------------------------------------------
(* The stages of the records the installer makes. *)

\* A stage follows from the program counter, but for a call that has failed.
LEMMA StageByPc ==
  ASSUME NEW j
  PROVE  /\ j.pc \in {"idle", "resolve"} => StageOf(j) = "idle"
         /\ j.pc \in Pushing => StageOf(j) = "staging"
         /\ j.pc \in {"update", "reupdate"} => StageOf(j) = "staged"
         /\ j.pc = "reboot" => StageOf(j) = "accepted"
         /\ j.pc = "poll" => StageOf(j) = "requested"
         /\ j.pc = "done" => StageOf(j) = "done"
  BY DEF StageOf, Pushing

\* A call that raises was refused, has failed or does not know, as its error says.
LEMMA StageOfRaise ==
  ASSUME NEW e
  PROVE  /\ e \in Refusals => StageOf(Raise(e)) = "refused"
         /\ e \in Unknowns => StageOf(Raise(e)) = "unknown"
         /\ e \notin Refusals \cup Unknowns => StageOf(Raise(e)) = "failed"
<1>1. Raise(e).pc = "failed" /\ Raise(e).error = e
  BY DEF Raise, Fresh
<1>2. e \in Unknowns => e \notin Refusals
  BY DEF Unknowns, Refusals
<1> QED BY <1>1, <1>2 DEF StageOf, Pushing

\* What _push_file() ends with is no refusal.
LEMMA StageOfEndPass ==
  ASSUME NEW j \in Job
  PROVE  StageOf(EndPass(j)) \in {"staging", "failed"}
<1>1. PushError(j) \notin Refusals \cup Unknowns
  BY DEF PushError, Refusals, Unknowns
<1>2. CASE j.att = ResyncAttempts
  BY <1>1, <1>2, StageOfRaise DEF EndPass
<1>3. CASE j.att # ResyncAttempts
  <2>1. EndPass(j) = [j EXCEPT !.pc = "resync"]
    BY <1>3 DEF EndPass
  <2>2. EndPass(j).pc = "resync"
    BY <2>1 DEF Job
  <2> QED BY <2>2, StageByPc DEF Pushing
<1> QED BY <1>2, <1>3

-----------------------------------------------------------------------------
(* The abstract steps, in terms of the installer's variables. *)

\* The abstract steps that leave the files and the device alone, and the stutter.
Moves(a, b) ==
    \/ a = b
    \/ a = "idle" /\ b \in {"staging", "refused"}
    \/ a \in {"idle", "staging", "staged"} /\ b = "failed"
    \/ a = "staged" /\ b = "accepted"
    \/ a = "requested" /\ b \in {"done", "unknown"}

\* Call i moves on, and neither a file is checked in nor the device touched.
Quiet(i) ==
    \E x \in Job :
      /\ job' = [job EXCEPT ![i] = x]
      /\ Moves(StageOf(job[i]), StageOf(x))
      /\ UNCHANGED <<verified, phase, image>>

\* Call i has verified the file at hand.
ChecksIn(i) ==
    \E x \in Job :
      /\ job[i].pc = "verify"
      /\ job' = [job EXCEPT ![i] = x]
      /\ StageOf(x) = IF job[i].cur = NFiles THEN "staged" ELSE "staging"
      /\ verified' = [verified EXCEPT ![i] = @ \cup {job[i].cur}]
      /\ UNCHANGED <<phase, image>>

\* Call i has asked for the reboot, or may have: the update was accepted.
Asks(i) ==
    \E x \in Job :
      /\ job' = [job EXCEPT ![i] = x]
      /\ StageOf(job[i]) = "accepted"
      /\ StageOf(x) \in {"requested", "unknown"}
      /\ phase' \in IF phase = "up" THEN {"up", "leaving"} ELSE {phase}
      /\ UNCHANGED <<verified, image>>

\* A quiet step is an abstract step or a stutter.
LEMMA QuietIsFlash ==
  ASSUME InstallInv, NEW i \in Installers, Quiet(i)
  PROVE  AbstractFlash!Next \/ UNCHANGED AbstractFlash!vars
<1>1. PICK x \in Job :
        /\ job' = [job EXCEPT ![i] = x]
        /\ Moves(StageOf(job[i]), StageOf(x))
        /\ UNCHANGED <<verified, phase, image>>
  BY DEF Quiet
<1> DEFINE S == [k \in Installers |-> StageOf(job[k])]
           T == [k \in Installers |-> StageOf(job'[k])]
           G == [k \in Installers |-> Cardinality(verified[k])]
<1>2. T = [S EXCEPT ![i] = StageOf(x)]
  BY <1>1 DEF InstallInv, TypeOK
<1>3. [k \in Installers |-> Cardinality(verified'[k])] = G
  BY <1>1
<1>4. S[i] = StageOf(job[i])
  OBVIOUS
<1>5. CASE StageOf(x) = S[i]
  <2>1. T = S
    BY <1>2, <1>5
  <2> QED BY <1>1, <1>3, <2>1 DEF AbstractFlash!vars
<1>6. CASE S[i] = "idle" /\ StageOf(x) \in {"staging", "refused"}
  <2>1. AbstractFlash!Begin(i)
    BY <1>1, <1>2, <1>3, <1>6 DEF AbstractFlash!Begin, AbstractFlash!Become
  <2> QED BY <2>1 DEF AbstractFlash!Next
<1>7. CASE S[i] \in {"idle", "staging", "staged"} /\ StageOf(x) = "failed"
  <2>1. AbstractFlash!Fail(i)
    BY <1>1, <1>2, <1>3, <1>7 DEF AbstractFlash!Fail, AbstractFlash!Become
  <2> QED BY <2>1 DEF AbstractFlash!Next
<1>8. CASE S[i] = "requested" /\ StageOf(x) = "done"
  <2>1. AbstractFlash!Report(i)
    BY <1>1, <1>2, <1>3, <1>8 DEF AbstractFlash!Report, AbstractFlash!Become
  <2> QED BY <2>1 DEF AbstractFlash!Next
<1>9. CASE S[i] = "requested" /\ StageOf(x) = "unknown"
  <2>1. AbstractFlash!Lose(i)
    BY <1>1, <1>2, <1>3, <1>9 DEF AbstractFlash!Lose, AbstractFlash!Become
  <2> QED BY <2>1 DEF AbstractFlash!Next
<1>10. CASE S[i] = "staged" /\ StageOf(x) = "accepted"
  <2>1. AbstractFlash!Accept(i)
    BY <1>1, <1>2, <1>3, <1>10 DEF AbstractFlash!Accept, AbstractFlash!Become
  <2> QED BY <2>1 DEF AbstractFlash!Next
<1> QED BY <1>1, <1>4, <1>5, <1>6, <1>7, <1>8, <1>9, <1>10 DEF Moves

\* A verified file is a file checked in: the count grows by one, and reaches NFiles
\* with the last.
LEMMA ChecksInIsFlash ==
  ASSUME InstallInv, NEW i \in Installers, ChecksIn(i)
  PROVE  AbstractFlash!Next
<1>1. PICK x \in Job :
        /\ job[i].pc = "verify"
        /\ job' = [job EXCEPT ![i] = x]
        /\ StageOf(x) = IF job[i].cur = NFiles THEN "staged" ELSE "staging"
        /\ verified' = [verified EXCEPT ![i] = @ \cup {job[i].cur}]
        /\ UNCHANGED <<phase, image>>
  BY DEF ChecksIn
<1> DEFINE f == job[i].cur
           S == [k \in Installers |-> StageOf(job[k])]
           T == [k \in Installers |-> StageOf(job'[k])]
           G == [k \in Installers |-> Cardinality(verified[k])]
           H == [k \in Installers |-> Cardinality(verified'[k])]
<1>2. verified[i] = 1..(f - 1) /\ f \in Files /\ f \in Nat /\ f > 0
  <2>1. verified[i] = 1..(f - 1) /\ job[i] \in Job
    BY <1>1, Facts DEF Pushing
  <2>2. f \in Files
    BY <2>1 DEF Job
  <2> QED BY <2>1, <2>2, InstallAssumption DEF Files
<1>3. Cardinality(verified[i]) = f - 1
  <2>1. 1 \in Int /\ f - 1 \in Int /\ (1 > f - 1 <=> f - 1 = 0)
    BY <1>2
  <2>2. Cardinality(1..(f - 1)) = IF 1 > f - 1 THEN 0 ELSE (f - 1) - 1 + 1
    BY <2>1, FS_Interval
  <2> QED BY <1>2, <2>1, <2>2
<1>4. verified'[i] = 1..f
  <2>1. verified'[i] = verified[i] \cup {f}
    BY <1>1 DEF InstallInv, TypeOK, HistoryOK
  <2> QED BY <1>2, <2>1
<1>5. Cardinality(verified'[i]) = f
  BY <1>2, <1>4, FS_Interval
<1>6. \A k \in Installers \ {i} : verified'[k] = verified[k]
  BY <1>1 DEF InstallInv, TypeOK, HistoryOK
<1>7. H = [G EXCEPT ![i] = @ + 1] /\ H[i] = f
  <2>1. G[i] + 1 = f /\ H[i] = f
    BY <1>2, <1>3, <1>5
  <2>2. \A k \in Installers \ {i} : H[k] = G[k]
    BY <1>6
  <2> QED BY <2>1, <2>2
<1>8. S[i] = "staging"
  BY <1>1, StageByPc DEF Pushing
<1>9. T = IF H[i] = NFiles THEN [S EXCEPT ![i] = "staged"] ELSE S
  <2>1. T = [S EXCEPT ![i] = StageOf(x)]
    BY <1>1 DEF InstallInv, TypeOK
  <2> QED BY <1>1, <1>7, <1>8, <2>1
<1>10. AbstractFlash!CheckIn(i)
  BY <1>1, <1>7, <1>8, <1>9 DEF AbstractFlash!CheckIn
<1> QED BY <1>10 DEF AbstractFlash!Next

\* The reboot request is the abstract one.
LEMMA AsksIsFlash ==
  ASSUME InstallInv, NEW i \in Installers, Asks(i)
  PROVE  AbstractFlash!Next
<1>1. PICK x \in Job :
        /\ job' = [job EXCEPT ![i] = x]
        /\ StageOf(job[i]) = "accepted"
        /\ StageOf(x) \in {"requested", "unknown"}
        /\ phase' \in IF phase = "up" THEN {"up", "leaving"} ELSE {phase}
        /\ UNCHANGED <<verified, image>>
  BY DEF Asks
<1> DEFINE S == [k \in Installers |-> StageOf(job[k])]
           T == [k \in Installers |-> StageOf(job'[k])]
<1>2. T = [S EXCEPT ![i] = StageOf(x)] /\ S[i] = "accepted"
  BY <1>1 DEF InstallInv, TypeOK
<1>3. [k \in Installers |-> Cardinality(verified'[k])] = [k \in Installers |-> Cardinality(verified[k])]
  BY <1>1
<1>4. AbstractFlash!Request(i)
  BY <1>1, <1>2, <1>3 DEF AbstractFlash!Request, AbstractFlash!Become
<1> QED BY <1>4 DEF AbstractFlash!Next

\* The device's own steps are the abstract ones: what the updater finds on the card
\* is of a flash that has begun.
LEMMA DeviceIsFlash ==
  ASSUME InstallInv, CardIsPushed, DevReboot \/ DevApply
  PROVE  AbstractFlash!Next
<1> DEFINE S == [k \in Installers |-> StageOf(job[k])]
<1>1. job' = job /\ verified' = verified
  BY DEF DevReboot, DevApply, histVars
<1>2. CASE DevReboot
  <2>1. AbstractFlash!Reboot
    BY <1>1, <1>2 DEF DevReboot, AbstractFlash!Reboot
  <2> QED BY <2>1 DEF AbstractFlash!Next
<1>3. CASE DevApply
  <2>1. ASSUME NEW f \in Files, disk[f].of # None
        PROVE  disk[f].of \in {k \in Installers : S[k] \notin {"idle", "refused"}}
    <3>1. disk[f].of \in Installers
      BY <2>1 DEF InstallInv, TypeOK, DeviceOK, Content, Absent
    <3> QED BY <2>1, <3>1 DEF CardIsPushed
  <2>2. image' \in {image} \cup
          {BundleImage[i] : i \in {k \in Installers : S[k] \notin {"idle", "refused"}}}
    <3>1. image' \in {image} \cup {BundleImage[i] : i \in {disk[f].of : f \in Files} \ {None}}
      BY <1>3 DEF DevApply
    <3> HIDE DEF S
    <3> QED BY <2>1, <3>1
  <2>3. AbstractFlash!Apply
    BY <1>1, <1>3, <2>2 DEF DevApply, AbstractFlash!Apply
  <2> QED BY <2>3 DEF AbstractFlash!Next
<1> QED BY <1>2, <1>3

-----------------------------------------------------------------------------
(* Each step of a call is one of these. *)

\* BeginInstall leaves the flash idle or refuses it.
LEMMA BeginIsQuiet ==
  ASSUME InstallInv, NEW i \in Installers, BeginInstall(i)
  PROVE  Quiet(i)
<1>1. PICK enabled \in BOOLEAN, live \in BOOLEAN, token \in BOOLEAN,
           keys \in SUBSET {"name", "target", "version", "origin"} :
        job' = [job EXCEPT ![i] =
                  IF Refusal(enabled, live, keys, token) = "none"
                  THEN [job[i] EXCEPT !.pc = "resolve", !.before = Baseline(keys)]
                  ELSE Raise(Refusal(enabled, live, keys, token))]
  BY DEF BeginInstall
<1> DEFINE why == Refusal(enabled, live, keys, token)
           y == [job[i] EXCEPT !.pc = "resolve", !.before = Baseline(keys)]
<1>2. why \in Refusals \cup {"none"} /\ Refusals \subseteq Errors
  BY DEF Refusal, Refusals, Errors
<1>3. job[i] \in Job /\ StageOf(job[i]) = "idle" /\ UNCHANGED <<verified, phase, image>>
  BY Facts, StageByPc DEF BeginInstall, deviceVars, histVars
<1>4. y \in Job /\ StageOf(y) = "idle"
  <2>1. y \in Job /\ y.pc = "resolve"
    BY <1>3, Facts, BaselineType DEF Job, PCs
  <2> HIDE DEF y
  <2> QED BY <2>1, StageByPc
<1> HIDE DEF why, y
<1>5. CASE why = "none"
  <2>1. job' = [job EXCEPT ![i] = y]
    BY <1>1, <1>5 DEF why, y
  <2> QED BY <1>3, <1>4, <2>1 DEF Quiet, Moves
<1>6. CASE why # "none"
  <2>1. job' = [job EXCEPT ![i] = Raise(why)]
    BY <1>1, <1>6 DEF why
  <2>2. Raise(why) \in Job /\ StageOf(Raise(why)) = "refused"
    BY <1>2, <1>6, RaiseType, StageOfRaise
  <2> QED BY <1>3, <2>1, <2>2 DEF Quiet, Moves
<1> QED BY <1>5, <1>6

\* CheckTarget begins the flash or refuses it.
LEMMA CheckTargetIsQuiet ==
  ASSUME InstallInv, NEW i \in Installers, CheckTarget(i)
  PROVE  Quiet(i)
<1>1. PICK why \in {"none", "bundle", "target"} :
        job' = [job EXCEPT ![i] =
                  IF why = "none" THEN [job[i] EXCEPT !.pc = "write"] ELSE Raise(why)]
  BY DEF CheckTarget
<1>2. job[i] \in Job /\ StageOf(job[i]) = "idle" /\ UNCHANGED <<verified, phase, image>>
  BY Facts, StageByPc DEF CheckTarget, deviceVars, histVars
<1>3. CASE why = "none"
  <2> DEFINE y == [job[i] EXCEPT !.pc = "write"]
  <2>1. y \in Job /\ y.pc = "write" /\ job' = [job EXCEPT ![i] = y]
    BY <1>1, <1>2, <1>3 DEF Job, PCs
  <2> HIDE DEF y
  <2>2. StageOf(y) = "staging"
    BY <2>1, StageByPc DEF Pushing
  <2> QED BY <1>2, <2>1, <2>2 DEF Quiet, Moves
<1>4. CASE why # "none"
  <2>1. why \in Refusals /\ why \in Errors /\ job' = [job EXCEPT ![i] = Raise(why)]
    BY <1>1, <1>4 DEF Refusals, Errors
  <2>2. Raise(why) \in Job /\ StageOf(Raise(why)) = "refused"
    BY <2>1, RaiseType, StageOfRaise
  <2> QED BY <1>2, <2>1, <2>2 DEF Quiet, Moves
<1> QED BY <1>3, <1>4

\* A call that raises before it has asked for the reboot has failed.
LEMMA RaiseIsQuiet ==
  ASSUME InstallInv, NEW i \in Installers, NEW e \in Errors \ (Refusals \cup Unknowns),
         StageOf(job[i]) \in {"idle", "staging", "staged"},
         job' = [job EXCEPT ![i] = Raise(e)],
         UNCHANGED <<verified, phase, image>>
  PROVE  Quiet(i)
<1>1. Raise(e) \in Job /\ StageOf(Raise(e)) = "failed"
  BY RaiseType, StageOfRaise
<1> QED BY <1>1 DEF Quiet, Moves

\* A call that raises while it polls does not know how the update ended.
LEMMA LostIsQuiet ==
  ASSUME InstallInv, NEW i \in Installers, NEW e \in Unknowns,
         StageOf(job[i]) = "requested",
         job' = [job EXCEPT ![i] = Raise(e)],
         UNCHANGED <<verified, phase, image>>
  PROVE  Quiet(i)
<1>1. Raise(e) \in Job /\ StageOf(Raise(e)) = "unknown"
  BY RaiseType, StageOfRaise DEF Errors
<1> QED BY <1>1 DEF Quiet, Moves

\* A call that leaves "reboot" may have asked for the reboot.
LEMMA LeavesIsAsks ==
  ASSUME InstallInv, NEW i \in Installers, NEW x \in Job,
         job[i].pc = "reboot",
         job' = [job EXCEPT ![i] = x],
         StageOf(x) \in {"requested", "unknown"},
         Requested(i) \/ UNCHANGED <<deviceVars, histVars>>
  PROVE  Asks(i)
<1>1. StageOf(job[i]) = "accepted"
  BY StageByPc
<1>2. verified' = verified /\ image' = image
  BY DEF Requested, deviceVars, histVars
<1>3. phase' \in IF phase = "up" THEN {"up", "leaving"} ELSE {phase}
  BY DEF Requested, deviceVars
<1> QED BY <1>1, <1>2, <1>3 DEF Asks

\* The end of install_bundle(), whether send() returns or raises.
LEMMA RebootIsAsks ==
  ASSUME InstallInv, NEW i \in Installers, RebootUpdate(i) \/ RebootEscapes(i)
  PROVE  Asks(i)
<1>1. job[i] \in Job /\ job[i].pc = "reboot" /\ (Requested(i) \/ UNCHANGED <<deviceVars, histVars>>)
  BY Facts DEF RebootUpdate, RebootEscapes
<1>2. CASE RebootUpdate(i)
  <2> DEFINE x == [job[i] EXCEPT !.pc = "poll"]
  <2>1. x \in Job /\ x.pc = "poll" /\ job' = [job EXCEPT ![i] = x]
    BY <1>1, <1>2 DEF RebootUpdate, Job, PCs
  <2> HIDE DEF x
  <2>2. StageOf(x) = "requested"
    BY <2>1, StageByPc
  <2> QED BY <1>1, <2>1, <2>2, LeavesIsAsks
<1>3. CASE RebootEscapes(i)
  <2>1. "escaped" \in Unknowns /\ "escaped" \in Errors
    BY DEF Unknowns, Errors
  <2>2. Raise("escaped") \in Job /\ StageOf(Raise("escaped")) = "unknown"
    BY <2>1, RaiseType, StageOfRaise
  <2>3. job' = [job EXCEPT ![i] = Raise("escaped")]
    BY <1>3 DEF RebootEscapes
  <2> QED BY <1>1, <2>2, <2>3, LeavesIsAsks
<1> QED BY <1>2, <1>3

\* A cancelled call has failed, or asked for the reboot, or stops polling.
LEMMA CancelIsFlash ==
  ASSUME InstallInv, NEW i \in Installers, Cancel(i)
  PROVE  Quiet(i) \/ Asks(i)
<1>1. job[i] \in Job /\ job[i].pc \notin {"idle", "done", "failed"}
  BY Facts DEF Cancel
<1>2. "interrupted" \in Unknowns /\ "interrupted" \in Errors
      /\ "cancelled" \in Errors \ (Refusals \cup Unknowns)
  BY DEF Unknowns, Errors, Refusals
<1>3. CASE job[i].pc = "reboot"
  <2>1. job' = [job EXCEPT ![i] = Raise("interrupted")]
    BY <1>3 DEF Cancel
  <2>2. Raise("interrupted") \in Job /\ StageOf(Raise("interrupted")) = "unknown"
    BY <1>2, RaiseType, StageOfRaise
  <2>3. Requested(i) \/ UNCHANGED <<deviceVars, histVars>>
    BY <1>3 DEF Cancel
  <2> QED BY <1>3, <2>1, <2>2, <2>3, LeavesIsAsks
<1>4. CASE job[i].pc # "reboot"
  <2>1. UNCHANGED <<verified, phase, image>>
    BY <1>4 DEF Cancel, deviceVars, histVars
  <2>2. CASE job[i].pc = "poll"
    <3>1. job' = [job EXCEPT ![i] = Raise("interrupted")]
      BY <2>2 DEF Cancel
    <3> QED BY <1>2, <2>1, <2>2, <3>1, StageByPc, LostIsQuiet
  <2>3. CASE job[i].pc # "poll"
    <3>1. job' = [job EXCEPT ![i] = Raise("cancelled")]
      BY <1>4, <2>3 DEF Cancel
    <3>2. StageOf(job[i]) \in {"idle", "staging", "staged"}
      BY <1>1, <1>4, <2>3, StageByPc DEF Job, PCs, Pushing
    <3> QED BY <1>2, <2>1, <3>1, <3>2, RaiseIsQuiet
  <2> QED BY <2>2, <2>3
<1> QED BY <1>3, <1>4

\* A step to a record of the same stage.
LEMMA StaysIsQuiet ==
  ASSUME NEW i \in Installers, NEW x \in Job,
         StageOf(x) = StageOf(job[i]),
         job' = [job EXCEPT ![i] = x],
         UNCHANGED <<verified, phase, image>>
  PROVE  Quiet(i)
  BY DEF Quiet, Moves

\* A write leaves the pass under way, or fails.
LEMMA WriteIsQuiet ==
  ASSUME InstallInv, NEW i \in Installers, Write(i)
  PROVE  Quiet(i)
<1>1. PICK ok \in BOOLEAN :
        job' = [job EXCEPT ![i] =
              IF ok THEN [[job[i] EXCEPT !.written = ok, !.ever = @ \/ ok, !.tries = 0]
                            EXCEPT !.pc = "verify"]
              ELSE EndPass([job[i] EXCEPT !.written = ok, !.ever = @ \/ ok, !.tries = 0])]
  BY DEF Write
<1> DEFINE j == [job[i] EXCEPT !.written = ok, !.ever = @ \/ ok, !.tries = 0]
           y == [j EXCEPT !.pc = "verify"]
<1>2. job[i] \in Job /\ StageOf(job[i]) = "staging" /\ UNCHANGED <<verified, phase, image>>
  BY Facts, StageByPc DEF Write, histVars, Pushing
<1>3. j \in Job
  <2>1. 0 \in 0..Md5Attempts
    BY InstallAssumption
  <2>2. CASE ok
    <3>1. j = [job[i] EXCEPT !.written = TRUE, !.ever = TRUE, !.tries = 0]
      BY <1>2, <2>2 DEF Job
    <3> QED BY <1>2, <2>1, <2>2, <3>1 DEF Job
  <2>3. CASE ~ok
    <3>1. job[i].ever \in BOOLEAN
      BY <1>2 DEF Job
    <3>2. j = [job[i] EXCEPT !.written = FALSE, !.ever = job[i].ever, !.tries = 0]
      BY <1>2, <2>3, <3>1 DEF Job
    <3> QED BY <1>2, <2>1, <3>1, <3>2 DEF Job
  <2> QED BY <2>2, <2>3
<1>4. y \in Job /\ StageOf(y) = "staging"
  <2>1. y \in Job /\ y.pc = "verify"
    <3> HIDE DEF j
    <3> QED BY <1>3 DEF Job, PCs
  <2> HIDE DEF y
  <2> QED BY <2>1, StageByPc DEF Pushing
<1>5. EndPass(j) \in Job /\ StageOf(EndPass(j)) \in {"staging", "failed"}
  BY <1>3, EndPassType, StageOfEndPass
<1>6. job' = [job EXCEPT ![i] = y] \/ job' = [job EXCEPT ![i] = EndPass(j)]
  BY <1>1
<1> HIDE DEF j, y
<1> QED BY <1>2, <1>4, <1>5, <1>6 DEF Quiet, Moves

\* The end of a verification: a match checks the file in, anything else is quiet.
LEMMA ConcludeIsFlash ==
  ASSUME InstallInv, NEW i \in Installers, NEW s \in Statuses,
         job[i].pc = "verify", Conclude(i, s), UNCHANGED <<phase, image>>
  PROVE  Quiet(i) \/ ChecksIn(i)
<1> DEFINE j == [job[i] EXCEPT !.status = s, !.written = (s # "mismatch")]
           x == CASE s # "match" -> EndPass(j)
                  [] s = "match" /\ j.cur = NFiles -> Stage(j)
                  [] OTHER -> NextFile(j)
<1>1. /\ job' = [job EXCEPT ![i] = x]
      /\ verified' = IF s = "match" THEN [verified EXCEPT ![i] = @ \cup {job[i].cur}] ELSE verified
  BY DEF Conclude
<1>2. job[i] \in Job /\ StageOf(job[i]) = "staging"
  BY Facts, StageByPc DEF Pushing
<1>3. j \in Job /\ j.cur = job[i].cur
  <2>1. (s # "mismatch") \in BOOLEAN
    OBVIOUS
  <2> QED BY <1>2, <2>1 DEF Job, Statuses
<1> HIDE DEF j
<1>4. CASE s # "match"
  <2>1. job' = [job EXCEPT ![i] = EndPass(j)] /\ verified' = verified
    BY <1>1, <1>4
  <2>2. EndPass(j) \in Job /\ StageOf(EndPass(j)) \in {"staging", "failed"}
    BY <1>3, EndPassType, StageOfEndPass
  <2> QED BY <1>2, <2>1, <2>2 DEF Quiet, Moves
<1>5. CASE s = "match"
  <2>1. x \in Job /\ StageOf(x) = IF job[i].cur = NFiles THEN "staged" ELSE "staging"
    <3>1. CASE j.cur = NFiles
      <4>1. x = Stage(j)
        BY <1>5, <3>1
      <4>2. x \in Job /\ x.pc = "update"
        BY <1>3, <4>1, StageType
      <4> HIDE DEF x
      <4> QED BY <1>3, <3>1, <4>2, StageByPc
    <3>2. CASE j.cur # NFiles
      <4>1. x = NextFile(j)
        BY <1>5, <3>2
      <4>2. x \in Job /\ x.pc = "write"
        BY <1>3, <3>2, <4>1, NextFileType
      <4> HIDE DEF x
      <4> QED BY <1>3, <3>2, <4>2, StageByPc DEF Pushing
    <3> QED BY <3>1, <3>2
  <2> HIDE DEF x
  <2> QED BY <1>1, <1>5, <2>1 DEF ChecksIn
<1> QED BY <1>4, <1>5

\* A verification.
LEMMA CheckIsFlash ==
  ASSUME InstallInv, NEW i \in Installers, CheckMd5(i) \/ CheckSize(i)
  PROVE  Quiet(i) \/ ChecksIn(i)
<1>1. job[i].pc = "verify" /\ UNCHANGED <<phase, image>> /\ job[i] \in Job
  BY Facts DEF CheckMd5, CheckSize, deviceVars
<1>2. CASE CheckSize(i)
  BY <1>1, <1>2, ConcludeIsFlash DEF CheckSize
<1>3. CASE CheckMd5(i)
  <2>1. PICK d \in {"none", "match", "mismatch"} :
        /\ IF d = "none" /\ job[i].tries + 1 < Md5Attempts
           THEN /\ job' = [job EXCEPT ![i].tries = @ + 1]
                /\ UNCHANGED verified
           ELSE Conclude(i, IF d = "none" THEN "unreadable" ELSE d)
    BY <1>3 DEF CheckMd5
  <2>2. CASE d = "none" /\ job[i].tries + 1 < Md5Attempts
    <3> DEFINE x == [job[i] EXCEPT !.tries = @ + 1]
    <3>1. job' = [job EXCEPT ![i] = x] /\ UNCHANGED <<verified, phase, image>>
      BY <1>1, <2>1, <2>2
    <3>2. job[i].tries + 1 \in 0..Md5Attempts
      BY <1>1, <2>2, InstallAssumption DEF Job
    <3>3. x \in Job /\ x.pc = "verify"
      BY <1>1, <3>2 DEF Job
    <3> HIDE DEF x
    <3>4. StageOf(x) = StageOf(job[i])
      BY <1>1, <3>3, StageByPc DEF Pushing
    <3> QED BY <3>1, <3>3, <3>4, StaysIsQuiet
  <2>3. CASE ~(d = "none" /\ job[i].tries + 1 < Md5Attempts)
    <3> DEFINE s == IF d = "none" THEN "unreadable" ELSE d
    <3>1. Conclude(i, s) /\ s \in Statuses
      BY <2>1, <2>3 DEF Statuses
    <3> HIDE DEF s
    <3> QED BY <1>1, <3>1, ConcludeIsFlash
  <2> QED BY <2>2, <2>3
<1> QED BY <1>2, <1>3

\* The reconnects, the update requests and their errors.
LEMMA ResyncIsQuiet ==
  ASSUME InstallInv, NEW i \in Installers,
         Resync(i) \/ ResyncFails(i) \/ ResyncUpdate(i)
  PROVE  Quiet(i)
<1>1. UNCHANGED <<verified, phase, image>> /\ job[i] \in Job
  BY Facts DEF Resync, ResyncFails, ResyncUpdate, histVars, deviceVars
<1>2. job[i].pc \in {"resync", "reupdate"} => job[i].att + 1 \in 0..ResyncAttempts
  <2>1. job[i].pc \in {"resync", "reupdate"} => job[i].att # ResyncAttempts
    BY Facts
  <2> QED BY <1>1, <2>1, InstallAssumption DEF Job
<1>3. CASE Resync(i)
  <2> DEFINE x == [job[i] EXCEPT !.pc = IF job[i].written THEN "verify" ELSE "write",
                                 !.att = job[i].att + 1, !.tries = 0]
  <2>1. job' = [job EXCEPT ![i] = x] /\ job[i].pc = "resync"
    BY <1>3 DEF Resync
  <2>2. x \in Job /\ x.pc \in {"verify", "write"}
    <3>1. 0 \in 0..Md5Attempts
      BY InstallAssumption
    <3> QED BY <1>1, <1>2, <2>1, <3>1 DEF Job, PCs
  <2> HIDE DEF x
  <2>3. StageOf(x) = StageOf(job[i])
    BY <2>1, <2>2, StageByPc DEF Pushing
  <2> QED BY <1>1, <2>1, <2>2, <2>3, StaysIsQuiet
<1>4. CASE ResyncFails(i)
  <2>1. "resync" \in Errors \ (Refusals \cup Unknowns)
    BY DEF Errors, FlashErrors, Refusals, Unknowns
  <2>2. StageOf(job[i]) \in {"staging", "staged"}
    BY <1>4, StageByPc DEF ResyncFails, Pushing
  <2> QED BY <1>1, <1>4, <2>1, <2>2, RaiseIsQuiet DEF ResyncFails
<1>5. CASE ResyncUpdate(i)
  <2> DEFINE x == [job[i] EXCEPT !.pc = "update", !.att = job[i].att + 1]
  <2>1. job' = [job EXCEPT ![i] = x] /\ job[i].pc = "reupdate"
    BY <1>5 DEF ResyncUpdate
  <2>2. x \in Job /\ x.pc = "update"
    BY <1>1, <1>2, <2>1 DEF Job, PCs
  <2> HIDE DEF x
  <2>3. StageOf(x) = StageOf(job[i])
    BY <2>1, <2>2, StageByPc
  <2> QED BY <1>1, <2>1, <2>2, <2>3, StaysIsQuiet
<1> QED BY <1>3, <1>4, <1>5

\* system_update() leaves the flash staged, has it accepted, or fails it.
LEMMA TriggerIsQuiet ==
  ASSUME InstallInv, NEW i \in Installers, TriggerUpdate(i)
  PROVE  Quiet(i)
<1>1. job[i] \in Job /\ job[i].pc = "update" /\ UNCHANGED <<verified, phase, image>>
  BY Facts DEF TriggerUpdate, histVars, deviceVars
<1>2. StageOf(job[i]) = "staged"
  BY <1>1, StageByPc
<1>3. \/ \E p \in {"reboot", "reupdate"} : job' = [job EXCEPT ![i] = [job[i] EXCEPT !.pc = p]]
      \/ \E e \in {"link", "code"} : job' = [job EXCEPT ![i] = Raise(e)]
  <2>1. PICK code \in {"ok", "unspecified", "specific", "timeout"} :
          job' = [job EXCEPT ![i] =
               CASE code = "ok" -> [job[i] EXCEPT !.pc = "reboot"]
                 [] code = "timeout" -> Raise("link")
                 [] code = "unspecified" /\ job[i].att < ResyncAttempts
                      -> [job[i] EXCEPT !.pc = "reupdate"]
                 [] OTHER -> Raise("code")]
    BY DEF TriggerUpdate
  <2>2. CASE code = "ok"
    BY <2>1, <2>2
  <2>3. CASE code = "timeout"
    BY <2>1, <2>3
  <2>4. CASE code = "unspecified" /\ job[i].att < ResyncAttempts
    BY <2>1, <2>4
  <2>5. CASE code = "specific" \/ (code = "unspecified" /\ ~(job[i].att < ResyncAttempts))
    BY <2>1, <2>5
  <2> QED BY <2>2, <2>3, <2>4, <2>5
<1>4. ASSUME NEW p \in {"reboot", "reupdate"}, job' = [job EXCEPT ![i] = [job[i] EXCEPT !.pc = p]]
      PROVE  Quiet(i)
  <2> DEFINE x == [job[i] EXCEPT !.pc = p]
  <2>1. x \in Job /\ x.pc = p
    BY <1>1 DEF Job, PCs
  <2>2. job' = [job EXCEPT ![i] = x]
    BY <1>4
  <2> HIDE DEF x
  <2>3. StageOf(x) \in {"staged", "accepted"}
    BY <2>1, StageByPc
  <2> QED BY <1>1, <1>2, <2>1, <2>2, <2>3 DEF Quiet, Moves
<1>5. {"link", "code"} \subseteq Errors \ (Refusals \cup Unknowns)
  BY DEF Errors, FlashErrors, Refusals, Unknowns
<1> QED BY <1>1, <1>2, <1>3, <1>4, <1>5, RaiseIsQuiet

\* The polls go on, report or give up.
LEMMA PollIsQuiet ==
  ASSUME InstallInv, NEW i \in Installers, PollMisses(i) \/ PollReads(i) \/ PollEnds(i)
  PROVE  Quiet(i)
<1>1. job[i] \in Job /\ job[i].pc = "poll" /\ UNCHANGED <<verified, phase, image>>
  BY Facts DEF PollMisses, PollReads, PollEnds, histVars, deviceVars
<1>2. StageOf(job[i]) = "requested"
  BY <1>1, StageByPc
<1>3. ASSUME NEW x \in Job, job' = [job EXCEPT ![i] = x], x.pc \in {"poll", "done"}
      PROVE  Quiet(i)
  <2>1. StageOf(x) \in {"requested", "done"}
    BY <1>3, StageByPc
  <2> QED BY <1>1, <1>2, <1>3, <2>1 DEF Quiet, Moves
<1>4. job[i].polls < MaxPolls => job[i].polls + 1 \in 0..MaxPolls
  BY <1>1, InstallAssumption DEF Job
<1>5. CASE PollMisses(i)
  <2> DEFINE x == [job[i] EXCEPT !.polls = @ + 1]
  <2>1. job' = [job EXCEPT ![i] = x] /\ job[i].polls < MaxPolls
    BY <1>5 DEF PollMisses
  <2>2. x \in Job /\ x.pc = "poll"
    BY <1>1, <1>4, <2>1 DEF Job
  <2> HIDE DEF x
  <2> QED BY <1>3, <2>1, <2>2
<1>6. CASE PollReads(i)
  <2> DEFINE j == [job[i] EXCEPT !.found = TRUE, !.polls = @ + 1]
  <2>1. PICK answered \in BOOLEAN :
            job' = [job EXCEPT ![i] =
                   IF j.before.version # None /\ Reading(answered) # j.before
                   THEN Report(j, TRUE) ELSE j]
    BY <1>6 DEF PollReads
  <2>2. j \in Job /\ j.pc = "poll"
    BY <1>1, <1>4, <1>6 DEF Job, PollReads
  <2> HIDE DEF j
  <2>3. job' = [job EXCEPT ![i] = Report(j, TRUE)] \/ job' = [job EXCEPT ![i] = j]
    <3>1. CASE j.before.version # None /\ Reading(answered) # j.before
      BY <2>1, <3>1
    <3>2. CASE ~(j.before.version # None /\ Reading(answered) # j.before)
      BY <2>1, <3>2
    <3> QED BY <3>1, <3>2
  <2> QED BY <1>3, <2>2, <2>3, ReportType
<1>7. CASE PollEnds(i)
  <2>1. CASE job[i].found
    <3>1. job' = [job EXCEPT ![i] = Report(job[i], FALSE)]
      BY <1>7, <2>1 DEF PollEnds
    <3> QED BY <1>1, <1>3, <3>1, ReportType
  <2>2. CASE ~job[i].found
    <3>1. job' = [job EXCEPT ![i] = Raise("lost")]
      BY <1>7, <2>2 DEF PollEnds
    <3>2. "lost" \in Unknowns
      BY DEF Unknowns
    <3> QED BY <1>1, <1>2, <3>1, <3>2, LostIsQuiet
  <2> QED BY <2>1, <2>2
<1> QED BY <1>5, <1>6, <1>7

\* Every step of a call checks a file in, asks for the reboot or is quiet.
LEMMA StepIsFlash ==
  ASSUME InstallInv, NEW i \in Installers, Step(i) \/ Cancel(i)
  PROVE  Quiet(i) \/ ChecksIn(i) \/ Asks(i)
<1>1. CASE BeginInstall(i)
  BY <1>1, BeginIsQuiet
<1>1a. CASE CheckTarget(i)
  BY <1>1a, CheckTargetIsQuiet
<1>2. CASE Write(i)
  BY <1>2, WriteIsQuiet
<1>3. CASE CheckMd5(i) \/ CheckSize(i)
  BY <1>3, CheckIsFlash
<1>4. CASE Resync(i) \/ ResyncFails(i) \/ ResyncUpdate(i)
  BY <1>4, ResyncIsQuiet
<1>5. CASE TriggerUpdate(i)
  BY <1>5, TriggerIsQuiet
<1>6. CASE PollMisses(i) \/ PollReads(i) \/ PollEnds(i)
  BY <1>6, PollIsQuiet
<1>7. CASE RebootUpdate(i) \/ RebootEscapes(i)
  BY <1>7, RebootIsAsks
<1>8. CASE Cancel(i)
  BY <1>8, CancelIsFlash
<1> QED BY <1>1, <1>1a, <1>2, <1>3, <1>4, <1>5, <1>6, <1>7, <1>8 DEF Step

-----------------------------------------------------------------------------
(* What the card holds. *)

\* A flash that has begun is never again idle or refused.
LEMMA BegunStays ==
  ASSUME InstallInv, NEW i \in Installers, Step(i) \/ Cancel(i),
         NEW k \in Installers, StageOf(job[k]) \notin {"idle", "refused"}
  PROVE  StageOf(job'[k]) \notin {"idle", "refused"}
<1>1. CASE Quiet(i)
  <2>1. PICK x \in Job : job' = [job EXCEPT ![i] = x] /\ Moves(StageOf(job[i]), StageOf(x))
    BY <1>1 DEF Quiet
  <2>2. job'[k] = IF k = i THEN x ELSE job[k]
    BY <2>1 DEF InstallInv, TypeOK
  <2> QED BY <2>1, <2>2 DEF Moves
<1>2. CASE ChecksIn(i)
  <2>1. PICK x \in Job : job' = [job EXCEPT ![i] = x] /\ StageOf(x) \in {"staged", "staging"}
    BY <1>2 DEF ChecksIn
  <2>2. job'[k] = IF k = i THEN x ELSE job[k]
    BY <2>1 DEF InstallInv, TypeOK
  <2> QED BY <2>1, <2>2
<1>3. CASE Asks(i)
  <2>1. PICK x \in Job : job' = [job EXCEPT ![i] = x] /\ StageOf(x) \in {"requested", "unknown"}
    BY <1>3 DEF Asks
  <2>2. job'[k] = IF k = i THEN x ELSE job[k]
    BY <2>1 DEF InstallInv, TypeOK
  <2> QED BY <2>1, <2>2
<1> QED BY <1>1, <1>2, <1>3, StepIsFlash

\* Only the transfer of a write touches the card, with what its own flash pushes.
LEMMA CardKept ==
  ASSUME InstallInv, CardIsPushed, [Next]_vars
  PROVE  CardIsPushed'
<1> SUFFICES ASSUME NEW f \in Files, disk'[f].of # None
             PROVE  StageOf(job'[disk'[f].of]) \notin {"idle", "refused"}
  BY DEF CardIsPushed
<1>1. disk \in [Files -> Content \cup {Absent}]
  BY DEF InstallInv, TypeOK, DeviceOK
<1>2. ASSUME NEW i \in Installers, Step(i) \/ Cancel(i)
      PROVE  StageOf(job'[disk'[f].of]) \notin {"idle", "refused"}
  <2>1. CASE disk'[f] = disk[f]
    <3>1. disk[f].of \in Installers
      BY <1>1, <2>1 DEF Content, Absent
    <3> QED BY <1>2, <2>1, <3>1, BegunStays DEF CardIsPushed
  <2>2. CASE disk'[f] # disk[f]
    <3>1. job[i].pc = "write" /\ \E ok \in BOOLEAN : Transfer(i, ok)
      BY <1>2, <2>2 DEF Step, BeginInstall, CheckTarget, Write, CheckMd5, CheckSize, Resync,
         ResyncFails, TriggerUpdate, ResyncUpdate, RebootUpdate, RebootEscapes, Requested,
         Cancel, PollMisses, PollReads, PollEnds, deviceVars
    <3>2. disk'[f].of = i
      <4>1. PICK ok \in BOOLEAN, c \in Content \cup {Absent} :
              WriteMay(i, job[i].cur, ok, c) /\ disk' = [disk EXCEPT ![job[i].cur] = c]
        BY <3>1 DEF Transfer
      <4>2. job[i].cur = f /\ disk'[f] = c
        BY <1>1, <2>2, <4>1
      <4> QED BY <2>2, <4>1, <4>2 DEF WriteMay
    <3>3. StageOf(job[i]) = "staging"
      BY <3>1, StageByPc DEF Pushing
    <3> QED BY <1>2, <3>2, <3>3, BegunStays
  <2> QED BY <2>1, <2>2
<1>3. CASE DevReboot \/ DevApply \/ UNCHANGED vars
  <2>1. job' = job /\ disk' = disk
    BY <1>3 DEF DevReboot, DevApply, vars, deviceVars
  <2> QED BY <2>1 DEF CardIsPushed
<1> QED BY <1>2, <1>3 DEF Next

-----------------------------------------------------------------------------
(* The theorem. *)

\* Whatever lies in the update folder was put there by a flash that has begun.
THEOREM CardsArePushed == Spec => []CardIsPushed
<1>1. Init => CardIsPushed
  BY DEF Init, CardIsPushed, Absent
<1>2. InstallInv /\ CardIsPushed /\ [Next]_vars => CardIsPushed'
  BY CardKept
<1> QED BY <1>1, <1>2, Invariance, PTL DEF Spec

\* flipperzero_firmware_install() implements the abstract flash: with any number of
\* calls, files, lost or repeated round trips, reconnects and cancellations, files are
\* checked in one by one, the update is accepted with all of them in, the reboot is
\* requested once and only then, a flash that fails has not requested it, a report
\* follows the request, and only a device that was asked runs a bundle, one that a
\* flash pushed.
THEOREM InstallImplementsFlash == Spec => ImplementsFlash
<1>1. Init => AbstractFlash!Init
  <2> SUFFICES ASSUME Init PROVE AbstractFlash!Init
    OBVIOUS
  <2>1. \A i \in Installers : StageOf(job[i]) = "idle" /\ Cardinality(verified[i]) = 0
    <3>1. Fresh.pc = "idle"
      BY DEF Fresh
    <3>2. StageOf(Fresh) = "idle"
      BY <3>1, StageByPc
    <3> QED BY <3>2, FS_EmptySet DEF Init
  <2> QED BY <2>1 DEF Init, AbstractFlash!Init
<1>2. InstallInv /\ CardIsPushed /\ [Next]_vars => [AbstractFlash!Next]_(AbstractFlash!vars)
  <2> SUFFICES ASSUME InstallInv, CardIsPushed, [Next]_vars
               PROVE  AbstractFlash!Next \/ UNCHANGED AbstractFlash!vars
    OBVIOUS
  <2>1. ASSUME NEW i \in Installers, Step(i) \/ Cancel(i)
        PROVE  AbstractFlash!Next \/ UNCHANGED AbstractFlash!vars
    BY <2>1, StepIsFlash, QuietIsFlash, ChecksInIsFlash, AsksIsFlash
  <2>2. CASE DevReboot \/ DevApply
    BY <2>2, DeviceIsFlash
  <2>3. CASE UNCHANGED vars
    BY <2>3 DEF vars, deviceVars, histVars, AbstractFlash!vars
  <2> QED BY <2>1, <2>2, <2>3 DEF Next
<1> QED BY <1>1, <1>2, Invariance, CardsArePushed, PTL DEF Spec, ImplementsFlash, AbstractFlash!Spec
=============================================================================
