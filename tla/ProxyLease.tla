----------------------------- MODULE ProxyLease -----------------------------
(***************************************************************************)
(* What ice-box promises about the OS system proxy, without saying how.    *)
(*                                                                         *)
(* The OS setting belongs to the user.  ice-box may borrow it, and while   *)
(* the loan is open it may point the OS somewhere else; the loan is closed *)
(* only after the setting the user had when it was opened is back.  A loan *)
(* can be forfeited: ice-box lets go of it believing the setting is back.  *)
(* From then on nothing is promised, until the user chooses a setting with *)
(* no loan open.                                                           *)
(***************************************************************************)
CONSTANTS
  Originals,   (* the settings a user can choose                           *)
  Captured     (* stands for every OS setting that is not a user's choice  *)

VARIABLES
  setting,     (* what the OS uses now                                     *)
  owed,        (* the user's setting: what a closed loan leaves behind     *)
  lent,        (* is a loan open?                                          *)
  forfeited    (* was a loan let go with the setting not given back?       *)

vars == <<setting, owed, lent, forfeited>>

Init ==
  /\ setting \in Originals
  /\ owed = setting
  /\ lent = FALSE
  /\ forfeited = FALSE

(* The user changes the setting; during a loan it is not recorded as owed. *)
Edit(u) ==
  /\ setting' = u
  /\ owed' = IF lent THEN owed ELSE u
  /\ forfeited' = (forfeited /\ lent)
  /\ UNCHANGED lent

Open ==
  /\ ~lent
  /\ lent' = TRUE
  /\ UNCHANGED <<setting, owed, forfeited>>

Divert ==
  /\ lent
  /\ setting' = Captured
  /\ UNCHANGED <<owed, lent, forfeited>>

GiveBack ==
  /\ lent
  /\ setting' = owed
  /\ UNCHANGED <<owed, lent, forfeited>>

Close ==
  /\ lent
  /\ setting = owed
  /\ lent' = FALSE
  /\ UNCHANGED <<setting, owed, forfeited>>

Forfeit ==
  /\ lent
  /\ lent' = FALSE
  /\ forfeited' = TRUE
  /\ UNCHANGED <<setting, owed>>

(* After a forfeit: what was taken for the user's setting may not be it.   *)
Astray ==
  /\ forfeited
  /\ setting' \in Originals \cup {Captured}
  /\ lent' \in BOOLEAN
  /\ UNCHANGED <<owed, forfeited>>

Next ==
  \/ \E u \in Originals : Edit(u)
  \/ Open
  \/ Divert
  \/ GiveBack
  \/ Close
  \/ Forfeit
  \/ Astray

Spec == Init /\ [][Next]_vars
=============================================================================
