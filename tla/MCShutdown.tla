----------------------------- MODULE MCShutdown -----------------------------
(* Two workers, the probes and an updater, and the wakers of the cfg.      *)
EXTENDS Shutdown

CONSTANTS probes, updater, k1, k2
=============================================================================
