-------------------------- MODULE MCFirmwareInstall --------------------------
(* FirmwareInstall with one reported percentage. *)
EXTENDS FirmwareInstall

MCPercent == {30}

=============================================================================
