----------------------------- MODULE TunLedger ------------------------------
(***************************************************************************)
(* What the mutation journal promises, without saying how: nothing of TUN  *)
(* is put on the OS before a note says so, and the note is dropped only    *)
(* when nothing is left.                                                   *)
(***************************************************************************)
VARIABLES
  noted,  (* does the journal on disk say that TUN may be on the OS?       *)
  taken   (* is anything of TUN on the OS?                                 *)

vars == <<noted, taken>>

Init ==
  /\ noted \in BOOLEAN
  /\ taken = FALSE

Note ==
  /\ noted' = TRUE
  /\ UNCHANGED taken

Take ==
  /\ noted
  /\ taken' = TRUE
  /\ UNCHANGED noted

Drop ==
  /\ taken' = FALSE
  /\ UNCHANGED noted

(* Cleanup is verified and the note is closed.                             *)
Close ==
  /\ noted' = FALSE
  /\ taken' = FALSE

Next == Note \/ Take \/ Drop \/ Close

Spec == Init /\ [][Next]_vars
=============================================================================
