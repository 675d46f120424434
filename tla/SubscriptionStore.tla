------------------------- MODULE SubscriptionStore -------------------------
(***************************************************************************)
(* What the subscription store promises, without directories, renames or   *)
(* drafts: a table of ids, and the body kept for each.                     *)
(*                                                                         *)
(* A body is replaced at once, by one its provider did serve, and only a   *)
(* removal that was ordered may lose it or take its id off the list.  A    *)
(* removed id is gone for good.  A removal may stop half way, then its id  *)
(* is still listed; and a body may be kept of an id that is not.           *)
(***************************************************************************)
EXTENDS Naturals

CONSTANTS Subs, None

VARIABLES
  listed,      (* the ids in the table                                     *)
  gone,        (* the ids that were removed from it                        *)
  kept,        (* the body kept for each id                                *)
  served,      (* the last version of each provider's document             *)
  doomed       (* the id whose removal was ordered                         *)

vars == <<listed, gone, kept, served, doomed>>

Init ==
  /\ listed = {} /\ gone = {} /\ doomed = {}
  /\ kept = [s \in Subs |-> None]
  /\ served = [s \in Subs |-> 0]

Publish(s) ==
  /\ s \in listed
  /\ served' = [served EXCEPT ![s] = @ + 1]
  /\ UNCHANGED <<listed, gone, kept, doomed>>

(* The body of a fetch, which may have begun long ago.                     *)
Put(s, version) ==
  /\ doomed = {}
  /\ s \notin gone
  /\ version <= served[s]
  /\ kept' = [kept EXCEPT ![s] = version]
  /\ UNCHANGED <<listed, gone, served, doomed>>

List(s) ==
  /\ doomed = {}
  /\ s \notin gone /\ kept[s] # None
  /\ listed' = listed \cup {s}
  /\ UNCHANGED <<gone, kept, served, doomed>>

Order(s) ==
  /\ doomed = {}
  /\ s \in listed
  /\ doomed' = {s}
  /\ UNCHANGED <<listed, gone, kept, served>>

(* The body is deleted; the removal may end here.                          *)
Drop(s) ==
  /\ s \in doomed
  /\ kept' = [kept EXCEPT ![s] = None]
  /\ doomed' \in {doomed, {}}
  /\ UNCHANGED <<listed, gone, served>>

Unlist(s) ==
  /\ s \in doomed
  /\ listed' = listed \ {s}
  /\ gone' = gone \cup {s}
  /\ UNCHANGED <<kept, served, doomed>>

Settle ==
  /\ doomed' = {}
  /\ UNCHANGED <<listed, gone, kept, served>>

Next ==
  \/ \E s \in Subs : Publish(s) \/ List(s) \/ Order(s) \/ Drop(s) \/ Unlist(s)
  \/ \E s \in Subs : \E version \in 0..served[s] : Put(s, version)
  \/ Settle

Spec == Init /\ [][Next]_vars
=============================================================================
