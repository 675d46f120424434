--------------------------- MODULE Subscriptions ---------------------------
(***************************************************************************)
(* Subscriptions (ice-subscription) and the use cases that change them: a  *)
(* directory per subscription, replaced by renames, an index.json beside   *)
(* them, the parsed profile kept in memory, and the configuration built    *)
(* from the active one.                                                    *)
(*                                                                         *)
(* Two actors fetch without a lock and write under the orchestrate lock:   *)
(* the user's use cases, and beside them the hourly pass or a removal from *)
(* elsewhere (a second command, MCP).  The UI reads profiles with no lock  *)
(* at all.  The app can be killed between any two steps.  A body           *)
(* is the version of the provider's document it came from, and the ETag    *)
(* too.  A signature (mtime and length) that was read of a file is kept as *)
(* the answer to "is it still that file?": a newly written one never fits. *)
(***************************************************************************)
EXTENDS Naturals

CONSTANTS
  Subs,        (* subscription ids, each used once                         *)
  None,
  Same,        (* the provider's 304                                       *)
  MaxVersion,  (* bound: no document changes once one has so often         *)
  Faults       (* what can go wrong: a subset of FaultKinds                *)

FaultKinds == {"staging", "rename", "remove", "index", "config"}

ASSUME NoneAssumption == None \notin Subs \cup Nat /\ Same \notin Nat \cup {None}
ASSUME MaxVersionAssumption == MaxVersion \in Nat
ASSUME FaultsAssumption == Faults \subseteq FaultKinds

VARIABLES
  remote,    (* the version each provider serves                           *)
  dir,       (* the body in each subscription's directory                  *)
  old,       (* the body in its .old- directory                            *)
  index,     (* index.json: who is listed, who is active, the validators   *)
  lock,      (* the holder of the orchestrate lock                         *)
  step,      (* what each actor does next                                  *)
  op,        (* the use case of each actor                                 *)
  target,    (* the subscription each actor works on                       *)
  got,       (* fetched and not yet written, by actor and subscription     *)
  draft,     (* the index the lock's holder is about to save               *)
  config,    (* what the configuration was built from                      *)
  applied,   (* did the last change reach the configuration?               *)
  cache,     (* ProfileCache: the parsed profile                           *)
  ui,        (* a UI read in progress                                      *)
  gone,      (* history: ids that were removed                             *)
  slips      (* history: the excuses of Slips that happened                *)

disk == <<dir, old, index>>
actors == <<lock, step, op, target, got, draft>>
built == <<config, applied>>
memory == <<cache, ui>>
history == <<gone, slips>>
vars == <<remote, disk, actors, built, memory, history>>

Versions == 0..MaxVersion
Bodies == Versions \cup {None}
Actors == {"user", "other"}
Steps == {"idle", "fetched", "write", "swap", "remove", "save", "generate", "release"}
Ops == {"none", "pass", "add", "update", "remove", "activate", "apply"}
Answers == Bodies \cup {Same}
(* undone: a directory was moved away and back by a failed swap;           *)
(* halfRemoved: a directory was deleted and its index entry was not;       *)
(* overtaken: a fetch that began earlier was written over a newer body.    *)
Slips == {"undone", "halfRemoved", "overtaken"}

Indexes == [listed : SUBSET Subs, active : Subs \cup {None}, tag : [Subs -> Bodies]]
NoIndex == [listed |-> {}, active |-> None, tag |-> [s \in Subs |-> None]]
Direct == [sub |-> None, body |-> None, full |-> TRUE]
Configs == [sub : Subs \cup {None}, body : Bodies, full : BOOLEAN]
NoCache == [sub |-> None, fits |-> FALSE, body |-> None, slim |-> TRUE]
NoAnswer == [s \in Subs |-> None]
Caches == [sub : Subs \cup {None}, fits : BOOLEAN, body : Bodies, slim : BOOLEAN]
Reads == [pc : {"idle", "load", "trim"}, sub : Subs \cup {None}, fits : BOOLEAN]
UiIdle == [pc |-> "idle", sub |-> None, fits |-> FALSE]

Can(fault) == fault \in Faults
At(a, s) == step[a] = s
Goto(a, s) == step' = [step EXCEPT ![a] = s]
Begin(a, o, s) == At(a, "idle") /\ op' = [op EXCEPT ![a] = o] /\ Goto(a, s)
Does(a, o) == op[a] = o
Swapping(s) == \E a \in Actors : At(a, "swap") /\ target[a] = s

(* recover_subscription_dirs, run by load_index: a leftover .old- directory *)
(* becomes the final one if that is missing and is deleted otherwise; the  *)
(* commit lock keeps it off a swap in progress.                            *)
Recovered(d, o) == [s \in Subs |-> IF d[s] = None THEN o[s] ELSE d[s]]
LoadIndex ==
  /\ \A s \in Subs : ~Swapping(s)
  /\ dir' = Recovered(dir, old)
  /\ old' = NoAnswer

Init ==
  /\ remote = [s \in Subs |-> 0]
  /\ dir = NoAnswer /\ old = NoAnswer
  /\ index = NoIndex
  /\ lock = "free"
  /\ step = [a \in Actors |-> "idle"] /\ op = [a \in Actors |-> "none"]
  /\ target = [a \in Actors |-> None]
  /\ got = [a \in Actors |-> NoAnswer]
  /\ draft = index
  /\ config = Direct /\ applied = TRUE
  /\ cache = NoCache /\ ui = UiIdle
  /\ gone = {} /\ slips = {}

(***************************************************************************)
(* Fetching, without the lock                                              *)
(***************************************************************************)
ProviderChanges ==
  \E s \in index.listed :
    /\ \A t \in Subs : remote[t] < MaxVersion
    /\ remote' = [remote EXCEPT ![s] = @ + 1]
    /\ UNCHANGED <<disk, actors, built, memory, history>>

(* What the provider answers when asked with the index's validators.       *)
Fetched(s) == IF index.tag[s] = remote[s] THEN Same ELSE remote[s]

(* fetch_add: a new id, and a body to parse.                               *)
FetchAdd ==
  /\ \E s \in Subs \ (gone \cup index.listed) :
       /\ dir[s] = None
       /\ target' = [target EXCEPT !["user"] = s]
       /\ got' = [got EXCEPT !["user"][s] = remote[s]]
  /\ Begin("user", "add", "fetched")
  /\ UNCHANGED <<remote, disk, lock, draft, built, memory, history>>

(* fetch_update; a failed fetch only records last_error.                   *)
FetchUpdate ==
  /\ LoadIndex
  /\ \E s \in index.listed :
       /\ target' = [target EXCEPT !["user"] = s]
       /\ got' = [got EXCEPT !["user"][s] = Fetched(s)]
  /\ Begin("user", "update", "fetched")
  /\ UNCHANGED <<remote, index, lock, draft, built, memory, history>>

(* auto_update_due up to fetch_ids: what is due, less what failed.         *)
FetchDue ==
  /\ LoadIndex
  /\ \E ids \in SUBSET index.listed \ {{}} :
       got' = [got EXCEPT !["other"] =
                 [s \in Subs |-> IF s \in ids THEN Fetched(s) ELSE None]]
  /\ Begin("other", "pass", "fetched")
  /\ UNCHANGED <<remote, index, lock, target, draft, built, memory, history>>

(***************************************************************************)
(* Taking the lock                                                         *)
(***************************************************************************)
Take(a) ==
  /\ lock = "free"
  /\ lock' = a
  /\ LoadIndex
  /\ draft' = index

(* What a job leaves behind when it returns.                               *)
Return(a) ==
  /\ lock' = "free"
  /\ Goto(a, "idle")
  /\ target' = [target EXCEPT ![a] = None]
  /\ got' = [got EXCEPT ![a] = NoAnswer]
  /\ op' = [op EXCEPT ![a] = "none"]
  /\ draft' = NoIndex

(* Mutant: an id that was removed meanwhile is written all the same.       *)
StillListedNot(g) == g

(* apply_update and apply_all write nothing for an id removed meanwhile.   *)
StillListed(g) == [s \in Subs |-> IF s \in index.listed THEN g[s] ELSE None]

WriteFetched(a) ==
  /\ At(a, "fetched")
  /\ Take(a)
  /\ Does(a, "update") => target[a] \in index.listed
  /\ IF Does(a, "pass") THEN got' = [got EXCEPT ![a] = StillListed(got[a])] ELSE UNCHANGED got
  /\ Goto(a, "write")
  /\ UNCHANGED <<remote, index, op, target, built, memory, history>>

(* "subscription not found": nothing is written.                           *)
UpdateGone ==
  /\ At("user", "fetched") /\ Does("user", "update")
  /\ lock = "free" /\ LoadIndex
  /\ target["user"] \notin index.listed
  /\ Return("user")
  /\ UNCHANGED <<remote, index, built, memory, history>>

(* auto_update_due: the lock is only tried.                                *)
Defer ==
  /\ At("other", "fetched") /\ lock # "free"
  /\ got' = [got EXCEPT !["other"] = NoAnswer]
  /\ op' = [op EXCEPT !["other"] = "none"]
  /\ Goto("other", "idle")
  /\ UNCHANGED <<remote, disk, lock, target, draft, built, memory, history>>

(* The use cases that fetch nothing.                                       *)
BeginRemove(a) ==
  /\ lock = "free" /\ lock' = a
  /\ \E s \in index.listed : target' = [target EXCEPT ![a] = s]
  /\ Begin(a, "remove", "remove")
  /\ UNCHANGED <<remote, disk, got, draft, built, memory, history>>

BeginActivate ==
  /\ lock = "free" /\ lock' = "user" /\ LoadIndex
  /\ \E choice \in (index.listed \cup {None}) \ {index.active} :
       draft' = [index EXCEPT !.active = choice]
  /\ Begin("user", "activate", "save")
  /\ UNCHANGED <<remote, index, target, got, built, memory, history>>

(* start_service and apply_config build the configuration again.           *)
BeginApply ==
  /\ lock = "free" /\ lock' = "user"
  /\ Begin("user", "apply", "generate")
  /\ UNCHANGED <<remote, disk, target, got, draft, built, memory, history>>

(***************************************************************************)
(* Writing bodies: commit_staged_subscription                              *)
(***************************************************************************)
Written(a, s) == got' = [got EXCEPT ![a][s] = None]
(* apply_success_to_index lists what it does not find; an added one is     *)
(* active if no other is (apply_add).                                      *)
Noted(a, s, body) ==
  LET adds == Does(a, "add")
  IN draft' = [listed |-> draft.listed \cup {s},
               active |-> IF adds /\ draft.active = None THEN s ELSE draft.active,
               tag |-> [draft.tag EXCEPT ![s] = body]]
Overtakes(s, body) ==
  slips' = IF dir[s] # None /\ body < dir[s] THEN slips \cup {"overtaken"} ELSE slips

(* Mutant: a replaced file has the signature of the one before it.         *)
NewFileUnseen(s) == UNCHANGED memory

(* file_sig: what was read of the previous file fits no more.              *)
NewFile(s) ==
  /\ cache' = IF cache.sub = s THEN [cache EXCEPT !.fits = FALSE] ELSE cache
  /\ ui' = IF ui.sub = s THEN [ui EXCEPT !.fits = FALSE] ELSE ui

(* No directory yet: the staged one becomes it.                            *)
CommitNew(a) ==
  /\ At(a, "write")
  /\ \E s \in Subs :
       /\ got[a][s] \in Versions /\ dir[s] = None
       /\ dir' = [dir EXCEPT ![s] = got[a][s]]
       /\ Noted(a, s, got[a][s]) /\ Written(a, s) /\ NewFile(s)
  /\ UNCHANGED <<remote, old, index, lock, step, op, target, built, history>>

(* Mutant: the previous directory is deleted instead of moved.             *)
CommitMovesOldAway(a) ==
  /\ At(a, "write")
  /\ \E s \in Subs :
       /\ got[a][s] \in Versions /\ dir[s] # None
       /\ dir' = [dir EXCEPT ![s] = None]
       /\ target' = [target EXCEPT ![a] = s]
       /\ Overtakes(s, got[a][s])
  /\ Goto(a, "swap")
  /\ UNCHANGED <<remote, old, index, lock, op, got, draft, built, memory, gone>>

(* The previous directory makes room.                                      *)
CommitMovesOld(a) ==
  /\ At(a, "write")
  /\ \E s \in Subs :
       /\ got[a][s] \in Versions /\ dir[s] # None
       /\ old' = [old EXCEPT ![s] = dir[s]]
       /\ dir' = [dir EXCEPT ![s] = None]
       /\ target' = [target EXCEPT ![a] = s]
       /\ Overtakes(s, got[a][s])
  /\ Goto(a, "swap")
  /\ UNCHANGED <<remote, index, lock, op, got, draft, built, memory, gone>>

CommitMovesNew(a) ==
  /\ At(a, "swap")
  /\ LET s == target[a] IN
       /\ dir' = [dir EXCEPT ![s] = got[a][s]]
       /\ old' = [old EXCEPT ![s] = None]
       /\ Noted(a, s, got[a][s]) /\ Written(a, s) /\ NewFile(s)
  /\ Goto(a, "write")
  /\ UNCHANGED <<remote, index, lock, op, target, built, history>>

(* Mutant: the validators of a body that was not stored are noted.         *)
CommitFailedNoted(a, s) ==
  IF ~Does(a, "pass")
    THEN Return(a)
    ELSE Noted(a, s, got[a][s]) /\ Written(a, s) /\ Goto(a, "write") /\ UNCHANGED <<lock, op, target>>

(* An error ends the user's use case, and skips the one item of a batch.   *)
CommitFailed(a, s) ==
  IF ~Does(a, "pass")
    THEN Return(a)
    ELSE Written(a, s) /\ Goto(a, "write") /\ UNCHANGED <<lock, op, target, draft>>

StagingFails(a) ==
  /\ Can("staging") /\ At(a, "write")
  /\ \E s \in Subs : got[a][s] \in Versions /\ CommitFailed(a, s)
  /\ UNCHANGED <<remote, disk, built, memory, history>>

(* The second rename fails; so may the one that takes the first back.      *)
RenameFails(a) ==
  /\ Can("rename") /\ At(a, "swap")
  /\ LET s == target[a] IN
       /\ \/ /\ dir' = [dir EXCEPT ![s] = old[s]]
             /\ old' = [old EXCEPT ![s] = None]
          \/ UNCHANGED <<dir, old>>
       /\ slips' = slips \cup {"undone"}
       /\ CommitFailed(a, s)
  /\ UNCHANGED <<remote, index, built, memory, gone>>

(***************************************************************************)
(* remove_subscription, and the one write of index.json                    *)
(***************************************************************************)
RemoveDir(a) ==
  /\ At(a, "remove")
  /\ LET s == target[a] IN
       /\ dir' = Recovered([dir EXCEPT ![s] = None], old) /\ old' = NoAnswer
       /\ draft' = [listed |-> index.listed \ {s},
                    active |-> IF index.active = s THEN None ELSE index.active,
                    tag |-> [index.tag EXCEPT ![s] = None]]
  /\ Goto(a, "save")
  /\ UNCHANGED <<remote, index, lock, op, target, got, built, memory, history>>

(* remove_dir_all stops half way or at once.                               *)
RemoveDirFails(a) ==
  /\ Can("remove") /\ At(a, "remove")
  /\ \/ /\ dir' = [dir EXCEPT ![target[a]] = None]
        /\ slips' = slips \cup {"halfRemoved"} /\ applied' = FALSE
     \/ UNCHANGED <<dir, slips, applied>>
  /\ Return(a)
  /\ UNCHANGED <<remote, old, index, config, memory, gone>>

(* Every body of the fetch is written.                                     *)
ReadyToSave(a) ==
  \/ At(a, "save")
  \/ At(a, "write") /\ \A s \in Subs : got[a][s] \notin Versions

Save(a) ==
  /\ ReadyToSave(a)
  /\ index' = draft
  /\ gone' = gone \cup (index.listed \ draft.listed)
  /\ Goto(a, "generate")
  /\ UNCHANGED <<remote, dir, old, lock, op, target, got, draft, built, memory, slips>>

(* The pass goes on to apply; a use case reports the error instead.        *)
SaveFails(a) ==
  /\ Can("index") /\ ReadyToSave(a)
  /\ slips' = IF Does(a, "remove") THEN slips \cup {"halfRemoved"} ELSE slips
  /\ IF Does(a, "pass")
       THEN Goto(a, "generate") /\ UNCHANGED <<lock, op, target, got, draft, applied>>
       ELSE Return(a) /\ applied' = FALSE
  /\ UNCHANGED <<remote, disk, config, memory, gone>>

(***************************************************************************)
(* The configuration and the parsed profile: generate_config, ProfileCache *)
(***************************************************************************)
(* ProfileLoadCache.matches, for signatures taken now or earlier.          *)
Matches(s, fits) == cache.sub = s /\ cache.fits /\ fits

(* Mutant: the trimmed copy does as well.                                  *)
HitSlim(s, fits) == Matches(s, fits)

(* A build needs the rule bodies.                                          *)
Hit(s, fits) == Matches(s, fits) /\ ~cache.slim

(* load_active_with_default_rules: what the cache holds afterwards; a copy *)
(* without its rules does not do.                                          *)
Loaded(s, fits, body) ==
  IF Hit(s, fits) THEN cache ELSE [sub |-> s, fits |-> fits, body |-> body, slim |-> FALSE]

Generate(a) ==
  /\ At(a, "generate")
  /\ LoadIndex
  /\ LET s == index.active IN
       \/ /\ s = None
          /\ config' = Direct /\ applied' = TRUE /\ UNCHANGED cache
       \/ /\ s # None /\ dir'[s] # None
          /\ cache' = Loaded(s, TRUE, dir'[s])
          /\ config' = [sub |-> s, body |-> cache'.body, full |-> ~cache'.slim]
          /\ applied' = TRUE
  /\ Goto(a, "release")
  /\ UNCHANGED <<remote, index, lock, op, target, got, draft, ui, history>>

(* "missing on disk", or any later step of the apply.                      *)
GenerateFails(a) ==
  /\ At(a, "generate")
  /\ LoadIndex
  /\ Can("config") \/ (index.active # None /\ dir'[index.active] = None)
  /\ applied' = FALSE
  /\ Goto(a, "release")
  /\ UNCHANGED <<remote, index, lock, op, target, got, draft, config, memory, history>>

(* ReleaseRuleBodies is dropped, and the lock with it.                     *)
Release(a) ==
  /\ At(a, "release")
  /\ cache' = [cache EXCEPT !.slim = TRUE]
  /\ Return(a)
  /\ UNCHANGED <<remote, disk, built, ui, history>>

(***************************************************************************)
(* A UI read: cached_profile, load_resident                                *)
(***************************************************************************)
(* resident_if_current misses: take the signatures, then wait for the      *)
(* cache's mutex.                                                          *)
UiLook ==
  /\ ui.pc = "idle"
  /\ LET s == index.active IN
       /\ s # None /\ dir[s] # None
       /\ ~(Matches(s, TRUE) /\ cache.slim)
       /\ ui' = [pc |-> "load", sub |-> s, fits |-> TRUE]
  /\ UNCHANGED <<remote, disk, actors, built, cache, history>>

(* Under the mutex: read_profile finds nothing of a directory that is gone *)
(* by now, and answers with an empty profile.                              *)
UiLoad ==
  /\ ui.pc = "load"
  /\ cache' = Loaded(ui.sub, ui.fits, dir[ui.sub])
  /\ ui' = [ui EXCEPT !.pc = "trim"]
  /\ UNCHANGED <<remote, disk, actors, built, history>>

(* release_rule_bodies                                                     *)
UiTrim ==
  /\ ui.pc = "trim"
  /\ cache' = [cache EXCEPT !.slim = TRUE]
  /\ ui' = UiIdle
  /\ UNCHANGED <<remote, disk, actors, built, history>>

-----------------------------------------------------------------------------
(* The app is killed and launched again; load_index puts leftovers back.   *)
Restart ==
  /\ dir' = Recovered(dir, old) /\ old' = NoAnswer
  /\ lock' = "free" /\ step' = [a \in Actors |-> "idle"] /\ op' = [a \in Actors |-> "none"]
  /\ target' = [a \in Actors |-> None]
  /\ got' = [a \in Actors |-> NoAnswer] /\ draft' = NoIndex
  /\ cache' = NoCache /\ ui' = UiIdle
  /\ applied' = (applied /\ lock = "free")
  /\ slips' = IF \E a \in Actors : Does(a, "remove") /\ At(a, "save")
              THEN slips \cup {"halfRemoved"} ELSE slips
  /\ UNCHANGED <<remote, index, config, gone>>

UserBegins == FetchAdd \/ FetchUpdate \/ BeginActivate \/ BeginApply
Commit(a) == CommitNew(a) \/ CommitMovesOld(a) \/ CommitMovesNew(a) \/ StagingFails(a) \/ RenameFails(a)
Remove(a) == BeginRemove(a) \/ RemoveDir(a) \/ RemoveDirFails(a)
Finish(a) == Save(a) \/ SaveFails(a) \/ Generate(a) \/ GenerateFails(a) \/ Release(a)
Read == UiLook \/ UiLoad \/ UiTrim

Next ==
  \/ ProviderChanges \/ UserBegins \/ FetchDue \/ Defer \/ UpdateGone
  \/ \E a \in Actors : WriteFetched(a) \/ Commit(a) \/ Remove(a) \/ Finish(a)
  \/ Read \/ Restart

Spec == Init /\ [][Next]_vars
-----------------------------------------------------------------------------
(***************************************************************************)
(* Properties                                                              *)
(***************************************************************************)
TypeOK ==
  /\ remote \in [Subs -> Versions]
  /\ dir \in [Subs -> Bodies] /\ old \in [Subs -> Bodies]
  /\ index \in Indexes /\ draft \in Indexes
  /\ lock \in Actors \cup {"free"}
  /\ step \in [Actors -> Steps] /\ op \in [Actors -> Ops]
  /\ target \in [Actors -> Subs \cup {None}]
  /\ got \in [Actors -> [Subs -> Answers]]
  /\ config \in Configs /\ applied \in BOOLEAN
  /\ cache \in Caches /\ ui \in Reads
  /\ gone \subseteq Subs /\ slips \subseteq Slips

(* An id that was removed never comes back, whatever was fetched for it    *)
(* meanwhile (apply_update: "must not be resurrected").                    *)
NoneResurrected == gone \cap index.listed = {}

BeingRemoved(s) == \E a \in Actors : Does(a, "remove") /\ target[a] = s

(* What a listed subscription last stored is on disk in one place or the   *)
(* other at every step of a replacement and after every crash, unless its  *)
(* removal stopped half way (commit_staged_subscription).                  *)
ContentSurvives ==
  "halfRemoved" \notin slips
    => \A s \in index.listed :
         \/ dir[s] # None \/ old[s] # None
         \/ BeingRemoved(s)

(* The validators sent to a provider are never newer than the body kept,   *)
(* so a 304 cannot stand for a body that was never stored.                 *)
TagNeverAhead ==
  \A s \in index.listed :
    index.tag[s] # None
      => \/ slips \cap {"halfRemoved", "overtaken"} # {}
         \/ BeingRemoved(s)
         \/ Recovered(dir, old)[s] >= index.tag[s]

(* A parsed profile whose signature is that of the file is what the file   *)
(* says, unless a failed replacement was taken back under a reader.        *)
CacheIsCurrent ==
  cache.fits /\ dir[cache.sub] # None
    => cache.body = dir[cache.sub] \/ "undone" \in slips

(* While nothing holds the lock and no error was reported, the             *)
(* configuration was built from the active subscription's whole profile as *)
(* it is on disk, never from the trimmed copy kept for the UI              *)
(* (apply_after_subscription_change).                                      *)
Wanted ==
  IF index.active = None
    THEN Direct
    ELSE [sub |-> index.active, body |-> Recovered(dir, old)[index.active], full |-> TRUE]
ConfigFollows ==
  lock = "free" /\ applied => config = Wanted \/ "undone" \in slips

(* Seen without the directories, the store keeps what SubscriptionStore    *)
(* promises: a body is replaced at once by one its provider served, only   *)
(* an ordered removal loses it, and no removed id is listed again          *)
(* (commit_staged_subscription, remove_subscription, load_index).          *)
Store == INSTANCE SubscriptionStore
  WITH listed <- index.listed,
       kept <- Recovered(dir, old),
       served <- remote,
       doomed <- {s \in Subs : BeingRemoved(s)}
ImplementsStore == Store!Spec
=============================================================================
