------------------------- MODULE MCFirmwareInstall -------------------------
(* FirmwareInstall for TLC: every bundle carries the official v2. *)
EXTENDS FirmwareInstall

NewOfficial == [i \in Installers |-> [version |-> "v2", flavor |-> "official"]]
=============================================================================
