------------------------ MODULE MCCaptureController ------------------------
(* Fault sets for TLC: every kind, or every kind but some.                 *)
EXTENDS CaptureController

AllButElevated == FaultKinds \ {"elevated"}
AllButCorruptAndProxy == FaultKinds \ {"corrupt", "proxy"}
=============================================================================
