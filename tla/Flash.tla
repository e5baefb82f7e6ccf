------------------------------- MODULE Flash -------------------------------
(***************************************************************************)
(* What a firmware flash promises, without files, retries or sessions: a   *)
(* flash checks its files in, one after the other; with all of them in the *)
(* device may accept the update; only then, and once, the flash asks the   *)
(* device to reboot; and only a device that was asked goes into its        *)
(* updater, which leaves it with the firmware it had or with that of a     *)
(* flash that has begun.  A flash that "failed" has not asked; one that    *)
(* ended "unknown" may have.                                               *)
(***************************************************************************)
EXTENDS Naturals

CONSTANTS Installers, NFiles, BundleImage

VARIABLES
    stage,  \* where each flash is
    good,   \* the files it has checked in
    phase,  \* the device: "up", "leaving" or "updating"
    image   \* the firmware it runs

vars == <<stage, good, phase, image>>

Init ==
    /\ stage = [i \in Installers |-> "idle"]
    /\ good = [i \in Installers |-> 0]
    /\ phase = "up"

Become(i, from, to) == stage[i] \in from /\ stage' = [stage EXCEPT ![i] = to]

Begin(i) ==
    /\ \E to \in {"staging", "refused"} : Become(i, {"idle"}, to)
    /\ UNCHANGED <<good, phase, image>>

\* A file is checked in; with the last one the bundle is staged.
CheckIn(i) ==
    /\ stage[i] = "staging"
    /\ good' = [good EXCEPT ![i] = @ + 1]
    /\ stage' = IF good'[i] = NFiles THEN [stage EXCEPT ![i] = "staged"] ELSE stage
    /\ UNCHANGED <<phase, image>>

Accept(i) == Become(i, {"staged"}, "accepted") /\ UNCHANGED <<good, phase, image>>

\* The reboot request, which may be lost; the flash may not learn that it left.
Request(i) ==
    /\ \E to \in {"requested", "unknown"} : Become(i, {"accepted"}, to)
    /\ phase' \in IF phase = "up" THEN {"up", "leaving"} ELSE {phase}
    /\ UNCHANGED <<good, image>>

\* A flash fails before it asks; afterwards it reports, or loses the device.
Fail(i) == Become(i, {"idle", "staging", "staged"}, "failed") /\ UNCHANGED <<good, phase, image>>
Lose(i) == Become(i, {"requested"}, "unknown") /\ UNCHANGED <<good, phase, image>>
Report(i) == Become(i, {"requested"}, "done") /\ UNCHANGED <<good, phase, image>>

Reboot == phase = "leaving" /\ phase' = "updating" /\ UNCHANGED <<stage, good, image>>

Apply ==
    /\ phase = "updating" /\ phase' = "up"
    /\ image' \in {image} \cup
         {BundleImage[i] : i \in {k \in Installers : stage[k] \notin {"idle", "refused"}}}
    /\ UNCHANGED <<stage, good>>

Next ==
    \/ \E i \in Installers :
         \/ Begin(i) \/ CheckIn(i) \/ Accept(i) \/ Request(i)
         \/ Fail(i) \/ Lose(i) \/ Report(i)
    \/ Reboot \/ Apply

Spec == Init /\ [][Next]_vars
=============================================================================
