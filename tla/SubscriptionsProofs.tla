------------------------- MODULE SubscriptionsProofs -------------------------
(***************************************************************************)
(* Proofs about Subscriptions for any set of subscriptions and any faults. *)
(***************************************************************************)
EXTENDS Subscriptions, TLAPS

(* The excuses, the steps that hold the lock, a body that may be written.  *)
Undone == "undone" \in slips
Half == "halfRemoved" \in slips
LockSteps == {"write", "swap", "remove", "save", "generate", "release"}
Ready(a, s) == step[a] \in {"write", "swap"} /\ got[a][s] \in Versions
Drafts == {"write", "swap", "save"}

(* Who writes holds the lock, and each use case has its steps.             *)
Staged ==
  /\ \A a \in Actors : step[a] \in LockSteps <=> lock = a
  /\ \A a \in Actors : step[a] \in {"idle", "fetched", "write", "swap"} => op[a] # "remove"
  /\ \A a \in Actors : step[a] = "remove" => op[a] = "remove" /\ target[a] \in index.listed
  /\ \A a \in Actors : op[a] = "remove" => target[a] \in Subs
  /\ \A a \in Actors : step[a] \in {"save", "generate", "release"} /\ op[a] = "remove"
                         => target[a] \notin (IF step[a] = "save" THEN draft ELSE index).listed
  /\ \A a \in Actors : step[a] \in {"fetched", "write", "swap"} => op[a] \in {"add", "update", "pass"}
  /\ \A a \in Actors : step[a] = "swap" => target[a] \in Subs /\ got[a][target[a]] \in Versions
  /\ op["other"] \notin {"add", "update"}

(* What was fetched is written only for what is listed, or for an id that  *)
(* is new; a draft brings nothing back.                                    *)
Fetching ==
  /\ gone \cap index.listed = {}
  /\ \A a \in Actors : step[a] = "idle" => got[a] = NoAnswer
  /\ \A a \in Actors : step[a] \in {"fetched", "write", "swap"} /\ op[a] # "pass"
       => \A s \in Subs : got[a][s] # None => s = target[a]
  /\ step["user"] = "fetched" /\ op["user"] = "add"
       => \A s \in Subs : got["user"][s] # None => s \notin index.listed \cup gone
  /\ \A s \in Subs : Ready("user", s) => s \notin gone
  /\ \A s \in Subs : Ready("other", s) => s \in index.listed
  /\ \A a \in Actors : step[a] \in Drafts =>
       /\ draft.listed \cap gone = {}
       /\ a = "other" => draft.listed \subseteq index.listed

(* Listed content is on disk in one place or the other, and so is what a   *)
(* draft lists.                                                            *)
Stored(s) == dir[s] # None \/ old[s] # None
Removing(s) == \E a \in Actors : op[a] = "remove" /\ target[a] = s /\ step[a] = "save"
Kept ==
  /\ \A a \in Actors : step[a] = "swap" => old[target[a]] # None /\ dir[target[a]] = None
  /\ ~Half => \A s \in index.listed : Stored(s) \/ Removing(s)
  /\ ~Half => \A a \in Actors : step[a] \in Drafts => \A s \in draft.listed : Stored(s)

(* Outside a swap nothing is left in an .old- directory, unless a swap was *)
(* taken back; what fits is what was read.                                 *)
Cached ==
  /\ \A s \in Subs : old[s] # None => Undone \/ Swapping(s)
  /\ cache.fits => cache.sub \in Subs
  /\ ui.fits => ui.sub \in Subs
  /\ ui.pc # "idle" => ui.sub \in Subs
  /\ CacheIsCurrent

(* Until something was changed, and again once it was built, the           *)
(* configuration is what is wanted.                                        *)
Built ==
  applied /\ ~Undone =>
    /\ lock = "free" => config = Wanted
    /\ \A a \in Actors :
         /\ step[a] \in {"remove", "release"} => config = Wanted
         /\ op[a] # "pass" /\ (\E s \in Subs : step[a] = "write" /\ got[a][s] \in Versions)
              => config = Wanted

(* No validators are newer than the body they are kept for, nor will be    *)
(* once the draft is saved.                                                *)
Excused == slips \cap {"halfRemoved", "overtaken"} # {}
Holds(s, v) == v # None => Recovered(dir, old)[s] # None /\ Recovered(dir, old)[s] >= v
Tagged ==
  ~Excused =>
    /\ \A s \in index.listed : Removing(s) \/ Holds(s, index.tag[s])
    /\ \A a \in Actors : step[a] \in Drafts => \A s \in draft.listed : Holds(s, draft.tag[s])
    /\ \A a \in Actors : step[a] = "swap" => got[a][target[a]] >= old[target[a]]
    /\ \A a \in Actors : \A s \in Subs :
         Ready(a, s) /\ ~(step[a] = "swap" /\ target[a] = s) => old[s] = None

Inv == TypeOK /\ Staged /\ Fetching /\ Kept /\ Cached /\ Built /\ Tagged

-----------------------------------------------------------------------------
(* Nothing is listed, fetched or built at first.                           *)
LEMMA Initially == Init => Inv
<1> SUFFICES ASSUME Init PROVE Inv
  OBVIOUS
<1> USE NoneAssumption, MaxVersionAssumption DEF Init, NoAnswer, NoIndex, Direct, NoCache, UiIdle, Actors
<1>1. TypeOK
  <2>1. NoIndex \in Indexes
    BY DEF Indexes, Bodies
  <2>2. Direct \in Configs /\ NoCache \in Caches /\ UiIdle \in Reads
    BY DEF Configs, Caches, Reads, Bodies
  <2>3. NoAnswer \in [Subs -> Bodies] /\ NoAnswer \in [Subs -> Answers]
    BY DEF Bodies, Answers
  <2> QED
    BY <2>1, <2>2, <2>3 DEF TypeOK, Versions, Steps, Ops
<1>2. Staged /\ Fetching /\ Kept
  BY DEF Staged, Fetching, Kept, Stored, Ready, LockSteps, Drafts, Versions
<1>3. Cached /\ Built
  BY DEF Cached, CacheIsCurrent, Built, Wanted
<1>4. Tagged
  BY DEF Tagged, Ready, Drafts, Versions
<1> QED
  BY <1>1, <1>2, <1>3, <1>4 DEF Inv

(* recover_subscription_dirs takes a leftover where nothing else is.       *)
LEMMA RecoveredTypes ==
  ASSUME NEW d \in [Subs -> Bodies], NEW o \in [Subs -> Bodies]
  PROVE  /\ Recovered(d, o) \in [Subs -> Bodies]
         /\ \A s \in Subs : Recovered(d, o)[s] = IF d[s] = None THEN o[s] ELSE d[s]
BY DEF Recovered

(* The fields of the records.                                              *)
LEMMA Parts ==
  ASSUME TypeOK
  PROVE  /\ index.listed \subseteq Subs /\ draft.listed \subseteq Subs
         /\ index.active \in Subs \cup {None} /\ draft.active \in Subs \cup {None}
         /\ index.tag \in [Subs -> Bodies] /\ draft.tag \in [Subs -> Bodies]
         /\ cache.sub \in Subs \cup {None} /\ cache.body \in Bodies
         /\ cache.fits \in BOOLEAN /\ cache.slim \in BOOLEAN
         /\ ui.sub \in Subs \cup {None} /\ ui.fits \in BOOLEAN
<1>1. index \in Indexes /\ draft \in Indexes /\ cache \in Caches /\ ui \in Reads
  BY DEF TypeOK
<1> QED
  BY <1>1 DEF Indexes, Caches, Reads

(* load_active_with_default_rules leaves a well-formed entry in the cache. *)
LEMMA LoadedTypes ==
  ASSUME TypeOK, NEW s \in Subs, NEW fits \in BOOLEAN, NEW body \in Bodies
  PROVE  Loaded(s, fits, body) \in Caches
<1>1. CASE Hit(s, fits)
  BY <1>1 DEF Loaded, TypeOK
<1>2. CASE ~Hit(s, fits)
  <2>1. Loaded(s, fits, body) = [sub |-> s, fits |-> fits, body |-> body, slim |-> FALSE]
    BY <1>2 DEF Loaded
  <2>2. FALSE \in BOOLEAN
    OBVIOUS
  <2> QED
    BY <2>1, <2>2 DEF Caches
<1> QED
  BY <1>1, <1>2

(* Every step of the actors, of the UI, and a restart keep the invariant.  *)
LEMMA Preserved == Inv /\ [Next]_vars => Inv'
<1> SUFFICES ASSUME Inv, [Next]_vars PROVE Inv'
  OBVIOUS
<1> USE NoneAssumption, MaxVersionAssumption
    DEF Inv, disk, actors, built, memory, history, At, Goto, Does, Can, Actors
<1>1. CASE ProviderChanges
  <2>1. TypeOK'
    <3>1. remote' \in [Subs -> Versions] /\ dir' \in [Subs -> Bodies] /\ old' \in [Subs -> Bodies]
      <4>1. PICK s \in index.listed : (\A t \in Subs : remote[t] < MaxVersion) /\ remote' = [remote EXCEPT ![s] = @ + 1]
        BY <1>1 DEF ProviderChanges
      <4>2. s \in Subs /\ remote[s] \in 0..MaxVersion /\ remote[s] < MaxVersion
        BY <4>1, Parts DEF TypeOK, Versions
      <4>3. remote[s] + 1 \in Versions
        BY <4>2 DEF Versions
      <4> QED
        BY <1>1, <4>1, <4>3 DEF ProviderChanges, TypeOK
    <3>2. index' \in Indexes /\ draft' \in Indexes
      BY <1>1 DEF ProviderChanges, NoAnswer, TypeOK, Indexes, NoIndex, Bodies
    <3>3. step' \in [Actors -> Steps] /\ op' \in [Actors -> Ops] /\ target' \in [Actors -> Subs \cup {None}]
      BY <1>1 DEF ProviderChanges, NoAnswer, TypeOK, Steps, Ops
    <3>4. got' \in [Actors -> [Subs -> Answers]]
      BY <1>1 DEF ProviderChanges, NoAnswer, TypeOK, Answers, Bodies, Versions
    <3>5. cache' \in Caches /\ ui' \in Reads
      BY <1>1, RecoveredTypes
         DEF ProviderChanges, NoAnswer, TypeOK, Caches, Reads, Indexes, Bodies
    <3>6. applied' \in BOOLEAN
      BY <1>1, Zenon DEF ProviderChanges, NoAnswer, TypeOK
    <3>7. config' \in Configs /\ lock' \in Actors \cup {"free"}
      BY <1>1, <3>5
         DEF ProviderChanges, NoAnswer, TypeOK, Configs, Direct, Caches, Indexes,
             Bodies
    <3>8. gone' \subseteq Subs /\ slips' \subseteq Slips
      BY <1>1 DEF ProviderChanges, NoAnswer, TypeOK, Slips, Indexes
    <3> QED
      BY <3>1, <3>2, <3>3, <3>4, <3>5, <3>6, <3>7, <3>8 DEF TypeOK
  <2>2. Staged'
    BY <1>1 DEF ProviderChanges, NoAnswer, NoIndex, TypeOK, Indexes, Staged, LockSteps
  <2>3. Fetching'
    BY <1>1
       DEF ProviderChanges, NoAnswer, NoIndex, TypeOK, Indexes, Fetching, Ready, Drafts,
           Staged, LockSteps
  <2>4. Kept'
    BY <1>1, RecoveredTypes
       DEF ProviderChanges, NoAnswer, NoIndex, TypeOK, Indexes, Kept, Stored, Removing,
           Half, Drafts, Staged, LockSteps, Swapping
  <2>5. Cached'
    BY <1>1, RecoveredTypes
       DEF ProviderChanges, NoAnswer, NoIndex, TypeOK, Indexes, Cached, CacheIsCurrent,
           Swapping, Undone, Staged, LockSteps
  <2>6. Built'
    BY <1>1, RecoveredTypes
       DEF ProviderChanges, NoAnswer, NoIndex, TypeOK, Indexes, Built, Wanted, Undone,
           Direct, Staged, Kept, Cached, Swapping, LockSteps
  <2>7. Tagged'
    BY <1>1, RecoveredTypes
       DEF ProviderChanges, NoAnswer, NoIndex, TypeOK, Indexes, Tagged, Ready, Excused,
           Holds, Removing, Kept, Half, Stored, Drafts, Cached, Undone, Swapping,
           Staged, LockSteps, Bodies, Versions
  <2> QED
    BY <2>1, <2>2, <2>3, <2>4, <2>5, <2>6, <2>7
<1>2. CASE FetchAdd
  <2>1. TypeOK'
    <3>1. remote' \in [Subs -> Versions] /\ dir' \in [Subs -> Bodies] /\ old' \in [Subs -> Bodies]
      BY <1>2, RecoveredTypes DEF FetchAdd, Begin, NoAnswer, TypeOK, Bodies, Versions, Staged
    <3>2. index' \in Indexes /\ draft' \in Indexes
      BY <1>2 DEF FetchAdd, Begin, NoAnswer, TypeOK, Indexes, NoIndex, Bodies
    <3>3. step' \in [Actors -> Steps] /\ op' \in [Actors -> Ops] /\ target' \in [Actors -> Subs \cup {None}]
      BY <1>2 DEF FetchAdd, Begin, NoAnswer, TypeOK, Steps, Ops
    <3>4. got' \in [Actors -> [Subs -> Answers]]
      BY <1>2 DEF FetchAdd, Begin, NoAnswer, TypeOK, Answers, Bodies, Versions
    <3>5. cache' \in Caches /\ ui' \in Reads
      BY <1>2, RecoveredTypes
         DEF FetchAdd, Begin, NoAnswer, TypeOK, Caches, Reads, Indexes, Bodies
    <3>6. applied' \in BOOLEAN
      BY <1>2, Zenon DEF FetchAdd, Begin, NoAnswer, TypeOK
    <3>7. config' \in Configs /\ lock' \in Actors \cup {"free"}
      BY <1>2, <3>5
         DEF FetchAdd, Begin, NoAnswer, TypeOK, Configs, Direct, Caches, Indexes,
             Bodies
    <3>8. gone' \subseteq Subs /\ slips' \subseteq Slips
      BY <1>2 DEF FetchAdd, Begin, NoAnswer, TypeOK, Slips, Indexes
    <3> QED
      BY <3>1, <3>2, <3>3, <3>4, <3>5, <3>6, <3>7, <3>8 DEF TypeOK
  <2>2. Staged'
    BY <1>2 DEF FetchAdd, Begin, NoAnswer, NoIndex, TypeOK, Indexes, Staged, LockSteps
  <2>3. Fetching'
    BY <1>2
       DEF FetchAdd, Begin, NoAnswer, NoIndex, TypeOK, Indexes, Fetching, Ready, Drafts,
           Staged, LockSteps
  <2>4. Kept'
    BY <1>2, RecoveredTypes
       DEF FetchAdd, Begin, NoAnswer, NoIndex, TypeOK, Indexes, Kept, Stored, Removing,
           Half, Drafts, Staged, LockSteps, Swapping
  <2>5. Cached'
    BY <1>2, RecoveredTypes
       DEF FetchAdd, Begin, NoAnswer, NoIndex, TypeOK, Indexes, Cached, CacheIsCurrent,
           Swapping, Undone, Staged, LockSteps
  <2>6. Built'
    BY <1>2, RecoveredTypes
       DEF FetchAdd, Begin, NoAnswer, NoIndex, TypeOK, Indexes, Built, Wanted, Undone,
           Direct, Staged, Kept, Cached, Swapping, LockSteps
  <2>7. Tagged'
    BY <1>2, RecoveredTypes
       DEF FetchAdd, Begin, NoAnswer, NoIndex, TypeOK, Indexes, Tagged, Ready, Excused,
           Holds, Removing, Kept, Half, Stored, Drafts, Cached, Undone, Swapping,
           Staged, LockSteps, Bodies, Versions
  <2> QED
    BY <2>1, <2>2, <2>3, <2>4, <2>5, <2>6, <2>7
<1>3. CASE FetchUpdate
  <2>1. TypeOK'
    <3>1. remote' \in [Subs -> Versions] /\ dir' \in [Subs -> Bodies] /\ old' \in [Subs -> Bodies]
      BY <1>3, RecoveredTypes
         DEF FetchUpdate, Begin, LoadIndex, Fetched, NoAnswer, TypeOK, Bodies,
             Versions, Staged
    <3>2. index' \in Indexes /\ draft' \in Indexes
      BY <1>3
         DEF FetchUpdate, Begin, LoadIndex, Fetched, NoAnswer, TypeOK, Indexes,
             NoIndex, Bodies
    <3>3. step' \in [Actors -> Steps] /\ op' \in [Actors -> Ops] /\ target' \in [Actors -> Subs \cup {None}]
      <4>1. PICK s \in index.listed : /\ target' = [target EXCEPT !["user"] = s]
        BY <1>3 DEF FetchUpdate
      <4>2. s \in Subs
        BY <4>1, Parts
      <4> QED
        BY <1>3, <4>1, <4>2 DEF FetchUpdate, Begin, TypeOK, Steps, Ops
    <3>4. got' \in [Actors -> [Subs -> Answers]]
      <4>1. PICK s \in index.listed : got' = [got EXCEPT !["user"][s] = Fetched(s)]
        BY <1>3 DEF FetchUpdate
      <4>2. s \in Subs /\ Fetched(s) \in Answers
        BY <4>1, Parts DEF TypeOK, Fetched, Answers, Bodies
      <4> QED
        BY <4>1, <4>2 DEF TypeOK
    <3>5. cache' \in Caches /\ ui' \in Reads
      BY <1>3, RecoveredTypes
         DEF FetchUpdate, Begin, LoadIndex, Fetched, NoAnswer, TypeOK, Caches, Reads,
             Indexes, Bodies
    <3>6. applied' \in BOOLEAN
      BY <1>3, Zenon DEF FetchUpdate, Begin, LoadIndex, Fetched, NoAnswer, TypeOK
    <3>7. config' \in Configs /\ lock' \in Actors \cup {"free"}
      BY <1>3, <3>5
         DEF FetchUpdate, Begin, LoadIndex, Fetched, NoAnswer, TypeOK, Configs,
             Direct, Caches, Indexes, Bodies
    <3>8. gone' \subseteq Subs /\ slips' \subseteq Slips
      BY <1>3 DEF FetchUpdate, Begin, LoadIndex, Fetched, NoAnswer, TypeOK, Slips, Indexes
    <3> QED
      BY <3>1, <3>2, <3>3, <3>4, <3>5, <3>6, <3>7, <3>8 DEF TypeOK
  <2>2. Staged'
    BY <1>3
       DEF FetchUpdate, Begin, LoadIndex, Fetched, NoAnswer, NoIndex, TypeOK, Indexes,
           Staged, LockSteps
  <2>3. Fetching'
    BY <1>3
       DEF FetchUpdate, Begin, LoadIndex, Fetched, NoAnswer, NoIndex, TypeOK, Indexes,
           Fetching, Ready, Drafts, Staged, LockSteps
  <2>4. Kept'
    BY <1>3, RecoveredTypes
       DEF FetchUpdate, Begin, LoadIndex, Fetched, NoAnswer, NoIndex, TypeOK, Indexes,
           Kept, Stored, Removing, Half, Drafts, Staged, LockSteps, Swapping
  <2>5. Cached'
    BY <1>3, RecoveredTypes
       DEF FetchUpdate, Begin, LoadIndex, Fetched, NoAnswer, NoIndex, TypeOK, Indexes,
           Cached, CacheIsCurrent, Swapping, Undone, Staged, LockSteps
  <2>6. Built'
    BY <1>3, RecoveredTypes
       DEF FetchUpdate, Begin, LoadIndex, Fetched, NoAnswer, NoIndex, TypeOK, Indexes,
           Built, Wanted, Undone, Direct, Staged, Kept, Cached, Swapping, LockSteps
  <2>7. Tagged'
    BY <1>3, RecoveredTypes
       DEF FetchUpdate, Begin, LoadIndex, Fetched, NoAnswer, NoIndex, TypeOK, Indexes,
           Tagged, Ready, Excused, Holds, Removing, Kept, Half, Stored, Drafts, Cached,
           Undone, Swapping, Staged, LockSteps, Bodies, Versions
  <2> QED
    BY <2>1, <2>2, <2>3, <2>4, <2>5, <2>6, <2>7
<1>4. CASE BeginActivate
  <2>1. TypeOK'
    <3>1. remote' \in [Subs -> Versions] /\ dir' \in [Subs -> Bodies] /\ old' \in [Subs -> Bodies]
      BY <1>4, RecoveredTypes
         DEF BeginActivate, Begin, LoadIndex, NoAnswer, TypeOK, Bodies, Versions,
             Staged
    <3>2. index' \in Indexes /\ draft' \in Indexes
      BY <1>4 DEF BeginActivate, Begin, LoadIndex, NoAnswer, TypeOK, Indexes, NoIndex, Bodies
    <3>3. step' \in [Actors -> Steps] /\ op' \in [Actors -> Ops] /\ target' \in [Actors -> Subs \cup {None}]
      BY <1>4 DEF BeginActivate, Begin, LoadIndex, NoAnswer, TypeOK, Steps, Ops
    <3>4. got' \in [Actors -> [Subs -> Answers]]
      BY <1>4 DEF BeginActivate, Begin, LoadIndex, NoAnswer, TypeOK, Answers, Bodies, Versions
    <3>5. cache' \in Caches /\ ui' \in Reads
      BY <1>4, RecoveredTypes
         DEF BeginActivate, Begin, LoadIndex, NoAnswer, TypeOK, Caches, Reads,
             Indexes, Bodies
    <3>6. applied' \in BOOLEAN
      BY <1>4, Zenon DEF BeginActivate, Begin, LoadIndex, NoAnswer, TypeOK
    <3>7. config' \in Configs /\ lock' \in Actors \cup {"free"}
      BY <1>4, <3>5
         DEF BeginActivate, Begin, LoadIndex, NoAnswer, TypeOK, Configs, Direct,
             Caches, Indexes, Bodies
    <3>8. gone' \subseteq Subs /\ slips' \subseteq Slips
      BY <1>4 DEF BeginActivate, Begin, LoadIndex, NoAnswer, TypeOK, Slips, Indexes
    <3> QED
      BY <3>1, <3>2, <3>3, <3>4, <3>5, <3>6, <3>7, <3>8 DEF TypeOK
  <2>2. Staged'
    BY <1>4
       DEF BeginActivate, Begin, LoadIndex, NoAnswer, NoIndex, TypeOK, Indexes, Staged,
           LockSteps
  <2>3. Fetching'
    BY <1>4
       DEF BeginActivate, Begin, LoadIndex, NoAnswer, NoIndex, TypeOK, Indexes,
           Fetching, Ready, Drafts, Staged, LockSteps
  <2>4. Kept'
    BY <1>4, RecoveredTypes
       DEF BeginActivate, Begin, LoadIndex, NoAnswer, NoIndex, TypeOK, Indexes, Kept,
           Stored, Removing, Half, Drafts, Staged, LockSteps, Swapping
  <2>5. Cached'
    BY <1>4, RecoveredTypes
       DEF BeginActivate, Begin, LoadIndex, NoAnswer, NoIndex, TypeOK, Indexes, Cached,
           CacheIsCurrent, Swapping, Undone, Staged, LockSteps
  <2>6. Built'
    BY <1>4, RecoveredTypes
       DEF BeginActivate, Begin, LoadIndex, NoAnswer, NoIndex, TypeOK, Indexes, Built,
           Wanted, Undone, Direct, Staged, Kept, Cached, Swapping, LockSteps
  <2>7. Tagged'
    BY <1>4, RecoveredTypes
       DEF BeginActivate, Begin, LoadIndex, NoAnswer, NoIndex, TypeOK, Indexes, Tagged,
           Ready, Excused, Holds, Removing, Kept, Half, Stored, Drafts, Cached, Undone,
           Swapping, Staged, LockSteps, Bodies, Versions
  <2> QED
    BY <2>1, <2>2, <2>3, <2>4, <2>5, <2>6, <2>7
<1>5. CASE BeginApply
  <2>1. TypeOK'
    <3>1. remote' \in [Subs -> Versions] /\ dir' \in [Subs -> Bodies] /\ old' \in [Subs -> Bodies]
      BY <1>5, RecoveredTypes DEF BeginApply, Begin, NoAnswer, TypeOK, Bodies, Versions, Staged
    <3>2. index' \in Indexes /\ draft' \in Indexes
      BY <1>5 DEF BeginApply, Begin, NoAnswer, TypeOK, Indexes, NoIndex, Bodies
    <3>3. step' \in [Actors -> Steps] /\ op' \in [Actors -> Ops] /\ target' \in [Actors -> Subs \cup {None}]
      BY <1>5 DEF BeginApply, Begin, NoAnswer, TypeOK, Steps, Ops
    <3>4. got' \in [Actors -> [Subs -> Answers]]
      BY <1>5 DEF BeginApply, Begin, NoAnswer, TypeOK, Answers, Bodies, Versions
    <3>5. cache' \in Caches /\ ui' \in Reads
      BY <1>5, RecoveredTypes
         DEF BeginApply, Begin, NoAnswer, TypeOK, Caches, Reads, Indexes, Bodies
    <3>6. applied' \in BOOLEAN
      BY <1>5, Zenon DEF BeginApply, Begin, NoAnswer, TypeOK
    <3>7. config' \in Configs /\ lock' \in Actors \cup {"free"}
      BY <1>5, <3>5
         DEF BeginApply, Begin, NoAnswer, TypeOK, Configs, Direct, Caches, Indexes,
             Bodies
    <3>8. gone' \subseteq Subs /\ slips' \subseteq Slips
      BY <1>5 DEF BeginApply, Begin, NoAnswer, TypeOK, Slips, Indexes
    <3> QED
      BY <3>1, <3>2, <3>3, <3>4, <3>5, <3>6, <3>7, <3>8 DEF TypeOK
  <2>2. Staged'
    BY <1>5 DEF BeginApply, Begin, NoAnswer, NoIndex, TypeOK, Indexes, Staged, LockSteps
  <2>3. Fetching'
    BY <1>5
       DEF BeginApply, Begin, NoAnswer, NoIndex, TypeOK, Indexes, Fetching, Ready,
           Drafts, Staged, LockSteps
  <2>4. Kept'
    BY <1>5, RecoveredTypes
       DEF BeginApply, Begin, NoAnswer, NoIndex, TypeOK, Indexes, Kept, Stored,
           Removing, Half, Drafts, Staged, LockSteps, Swapping
  <2>5. Cached'
    BY <1>5, RecoveredTypes
       DEF BeginApply, Begin, NoAnswer, NoIndex, TypeOK, Indexes, Cached,
           CacheIsCurrent, Swapping, Undone, Staged, LockSteps
  <2>6. Built'
    BY <1>5, RecoveredTypes
       DEF BeginApply, Begin, NoAnswer, NoIndex, TypeOK, Indexes, Built, Wanted, Undone,
           Direct, Staged, Kept, Cached, Swapping, LockSteps
  <2>7. Tagged'
    BY <1>5, RecoveredTypes
       DEF BeginApply, Begin, NoAnswer, NoIndex, TypeOK, Indexes, Tagged, Ready,
           Excused, Holds, Removing, Kept, Half, Stored, Drafts, Cached, Undone,
           Swapping, Staged, LockSteps, Bodies, Versions
  <2> QED
    BY <2>1, <2>2, <2>3, <2>4, <2>5, <2>6, <2>7
<1>6. CASE FetchDue
  <2>1. TypeOK'
    <3>1. remote' \in [Subs -> Versions] /\ dir' \in [Subs -> Bodies] /\ old' \in [Subs -> Bodies]
      BY <1>6, RecoveredTypes
         DEF FetchDue, Begin, LoadIndex, Fetched, NoAnswer, TypeOK, Bodies, Versions,
             Staged
    <3>2. index' \in Indexes /\ draft' \in Indexes
      BY <1>6
         DEF FetchDue, Begin, LoadIndex, Fetched, NoAnswer, TypeOK, Indexes, NoIndex,
             Bodies
    <3>3. step' \in [Actors -> Steps] /\ op' \in [Actors -> Ops] /\ target' \in [Actors -> Subs \cup {None}]
      BY <1>6 DEF FetchDue, Begin, LoadIndex, Fetched, NoAnswer, TypeOK, Steps, Ops
    <3>4. got' \in [Actors -> [Subs -> Answers]]
      BY <1>6
         DEF FetchDue, Begin, LoadIndex, Fetched, NoAnswer, TypeOK, Answers, Bodies,
             Versions
    <3>5. cache' \in Caches /\ ui' \in Reads
      BY <1>6, RecoveredTypes
         DEF FetchDue, Begin, LoadIndex, Fetched, NoAnswer, TypeOK, Caches, Reads,
             Indexes, Bodies
    <3>6. applied' \in BOOLEAN
      BY <1>6, Zenon DEF FetchDue, Begin, LoadIndex, Fetched, NoAnswer, TypeOK
    <3>7. config' \in Configs /\ lock' \in Actors \cup {"free"}
      BY <1>6, <3>5
         DEF FetchDue, Begin, LoadIndex, Fetched, NoAnswer, TypeOK, Configs, Direct,
             Caches, Indexes, Bodies
    <3>8. gone' \subseteq Subs /\ slips' \subseteq Slips
      BY <1>6 DEF FetchDue, Begin, LoadIndex, Fetched, NoAnswer, TypeOK, Slips, Indexes
    <3> QED
      BY <3>1, <3>2, <3>3, <3>4, <3>5, <3>6, <3>7, <3>8 DEF TypeOK
  <2>2. Staged'
    BY <1>6
       DEF FetchDue, Begin, LoadIndex, Fetched, NoAnswer, NoIndex, TypeOK, Indexes,
           Staged, LockSteps
  <2>3. Fetching'
    BY <1>6
       DEF FetchDue, Begin, LoadIndex, Fetched, NoAnswer, NoIndex, TypeOK, Indexes,
           Fetching, Ready, Drafts, Staged, LockSteps
  <2>4. Kept'
    BY <1>6, RecoveredTypes
       DEF FetchDue, Begin, LoadIndex, Fetched, NoAnswer, NoIndex, TypeOK, Indexes,
           Kept, Stored, Removing, Half, Drafts, Staged, LockSteps, Swapping
  <2>5. Cached'
    BY <1>6, RecoveredTypes
       DEF FetchDue, Begin, LoadIndex, Fetched, NoAnswer, NoIndex, TypeOK, Indexes,
           Cached, CacheIsCurrent, Swapping, Undone, Staged, LockSteps
  <2>6. Built'
    BY <1>6, RecoveredTypes
       DEF FetchDue, Begin, LoadIndex, Fetched, NoAnswer, NoIndex, TypeOK, Indexes,
           Built, Wanted, Undone, Direct, Staged, Kept, Cached, Swapping, LockSteps
  <2>7. Tagged'
    BY <1>6, RecoveredTypes
       DEF FetchDue, Begin, LoadIndex, Fetched, NoAnswer, NoIndex, TypeOK, Indexes,
           Tagged, Ready, Excused, Holds, Removing, Kept, Half, Stored, Drafts, Cached,
           Undone, Swapping, Staged, LockSteps, Bodies, Versions
  <2> QED
    BY <2>1, <2>2, <2>3, <2>4, <2>5, <2>6, <2>7
<1>7. CASE Defer
  <2>1. TypeOK'
    <3>1. remote' \in [Subs -> Versions] /\ dir' \in [Subs -> Bodies] /\ old' \in [Subs -> Bodies]
      BY <1>7, RecoveredTypes DEF Defer, NoAnswer, TypeOK, Bodies, Versions, Staged
    <3>2. index' \in Indexes /\ draft' \in Indexes
      BY <1>7 DEF Defer, NoAnswer, TypeOK, Indexes, NoIndex, Bodies
    <3>3. step' \in [Actors -> Steps] /\ op' \in [Actors -> Ops] /\ target' \in [Actors -> Subs \cup {None}]
      BY <1>7 DEF Defer, NoAnswer, TypeOK, Steps, Ops
    <3>4. got' \in [Actors -> [Subs -> Answers]]
      BY <1>7 DEF Defer, NoAnswer, TypeOK, Answers, Bodies, Versions
    <3>5. cache' \in Caches /\ ui' \in Reads
      BY <1>7, RecoveredTypes DEF Defer, NoAnswer, TypeOK, Caches, Reads, Indexes, Bodies
    <3>6. applied' \in BOOLEAN
      BY <1>7, Zenon DEF Defer, NoAnswer, TypeOK
    <3>7. config' \in Configs /\ lock' \in Actors \cup {"free"}
      BY <1>7, <3>5 DEF Defer, NoAnswer, TypeOK, Configs, Direct, Caches, Indexes, Bodies
    <3>8. gone' \subseteq Subs /\ slips' \subseteq Slips
      BY <1>7 DEF Defer, NoAnswer, TypeOK, Slips, Indexes
    <3> QED
      BY <3>1, <3>2, <3>3, <3>4, <3>5, <3>6, <3>7, <3>8 DEF TypeOK
  <2>2. Staged'
    BY <1>7 DEF Defer, NoAnswer, NoIndex, TypeOK, Indexes, Staged, LockSteps
  <2>3. Fetching'
    BY <1>7
       DEF Defer, NoAnswer, NoIndex, TypeOK, Indexes, Fetching, Ready, Drafts, Staged,
           LockSteps
  <2>4. Kept'
    BY <1>7, RecoveredTypes
       DEF Defer, NoAnswer, NoIndex, TypeOK, Indexes, Kept, Stored, Removing, Half,
           Drafts, Staged, LockSteps, Swapping
  <2>5. Cached'
    BY <1>7, RecoveredTypes
       DEF Defer, NoAnswer, NoIndex, TypeOK, Indexes, Cached, CacheIsCurrent, Swapping,
           Undone, Staged, LockSteps
  <2>6. Built'
    BY <1>7, RecoveredTypes
       DEF Defer, NoAnswer, NoIndex, TypeOK, Indexes, Built, Wanted, Undone, Direct,
           Staged, Kept, Cached, Swapping, LockSteps
  <2>7. Tagged'
    BY <1>7, RecoveredTypes
       DEF Defer, NoAnswer, NoIndex, TypeOK, Indexes, Tagged, Ready, Excused, Holds,
           Removing, Kept, Half, Stored, Drafts, Cached, Undone, Swapping, Staged,
           LockSteps, Bodies, Versions
  <2> QED
    BY <2>1, <2>2, <2>3, <2>4, <2>5, <2>6, <2>7
<1>8. CASE UpdateGone
  <2>1. TypeOK'
    <3>1. remote' \in [Subs -> Versions] /\ dir' \in [Subs -> Bodies] /\ old' \in [Subs -> Bodies]
      BY <1>8, RecoveredTypes
         DEF UpdateGone, LoadIndex, Return, NoAnswer, TypeOK, Bodies, Versions, Staged
    <3>2. index' \in Indexes /\ draft' \in Indexes
      BY <1>8 DEF UpdateGone, LoadIndex, Return, NoAnswer, TypeOK, Indexes, NoIndex, Bodies
    <3>3. step' \in [Actors -> Steps] /\ op' \in [Actors -> Ops] /\ target' \in [Actors -> Subs \cup {None}]
      BY <1>8 DEF UpdateGone, LoadIndex, Return, NoAnswer, TypeOK, Steps, Ops
    <3>4. got' \in [Actors -> [Subs -> Answers]]
      BY <1>8 DEF UpdateGone, LoadIndex, Return, NoAnswer, TypeOK, Answers, Bodies, Versions
    <3>5. cache' \in Caches /\ ui' \in Reads
      BY <1>8, RecoveredTypes
         DEF UpdateGone, LoadIndex, Return, NoAnswer, TypeOK, Caches, Reads, Indexes,
             Bodies
    <3>6. applied' \in BOOLEAN
      BY <1>8, Zenon DEF UpdateGone, LoadIndex, Return, NoAnswer, TypeOK
    <3>7. config' \in Configs /\ lock' \in Actors \cup {"free"}
      BY <1>8, <3>5
         DEF UpdateGone, LoadIndex, Return, NoAnswer, TypeOK, Configs, Direct, Caches,
             Indexes, Bodies
    <3>8. gone' \subseteq Subs /\ slips' \subseteq Slips
      BY <1>8 DEF UpdateGone, LoadIndex, Return, NoAnswer, TypeOK, Slips, Indexes
    <3> QED
      BY <3>1, <3>2, <3>3, <3>4, <3>5, <3>6, <3>7, <3>8 DEF TypeOK
  <2>2. Staged'
    BY <1>8
       DEF UpdateGone, LoadIndex, Return, NoAnswer, NoIndex, TypeOK, Indexes, Staged,
           LockSteps
  <2>3. Fetching'
    BY <1>8
       DEF UpdateGone, LoadIndex, Return, NoAnswer, NoIndex, TypeOK, Indexes, Fetching,
           Ready, Drafts, Staged, LockSteps
  <2>4. Kept'
    BY <1>8, RecoveredTypes
       DEF UpdateGone, LoadIndex, Return, NoAnswer, NoIndex, TypeOK, Indexes, Kept,
           Stored, Removing, Half, Drafts, Staged, LockSteps, Swapping
  <2>5. Cached'
    BY <1>8, RecoveredTypes
       DEF UpdateGone, LoadIndex, Return, NoAnswer, NoIndex, TypeOK, Indexes, Cached,
           CacheIsCurrent, Swapping, Undone, Staged, LockSteps
  <2>6. Built'
    BY <1>8, RecoveredTypes
       DEF UpdateGone, LoadIndex, Return, NoAnswer, NoIndex, TypeOK, Indexes, Built,
           Wanted, Undone, Direct, Staged, Kept, Cached, Swapping, LockSteps
  <2>7. Tagged'
    BY <1>8, RecoveredTypes
       DEF UpdateGone, LoadIndex, Return, NoAnswer, NoIndex, TypeOK, Indexes, Tagged,
           Ready, Excused, Holds, Removing, Kept, Half, Stored, Drafts, Cached, Undone,
           Swapping, Staged, LockSteps, Bodies, Versions
  <2> QED
    BY <2>1, <2>2, <2>3, <2>4, <2>5, <2>6, <2>7
<1>9. CASE UiLook
  <2>1. TypeOK'
    <3>1. remote' \in [Subs -> Versions] /\ dir' \in [Subs -> Bodies] /\ old' \in [Subs -> Bodies]
      BY <1>9, RecoveredTypes DEF UiLook, Matches, NoAnswer, TypeOK, Bodies, Versions, Staged
    <3>2. index' \in Indexes /\ draft' \in Indexes
      BY <1>9 DEF UiLook, Matches, NoAnswer, TypeOK, Indexes, NoIndex, Bodies
    <3>3. step' \in [Actors -> Steps] /\ op' \in [Actors -> Ops] /\ target' \in [Actors -> Subs \cup {None}]
      BY <1>9 DEF UiLook, Matches, NoAnswer, TypeOK, Steps, Ops
    <3>4. got' \in [Actors -> [Subs -> Answers]]
      BY <1>9 DEF UiLook, Matches, NoAnswer, TypeOK, Answers, Bodies, Versions
    <3>5. cache' \in Caches /\ ui' \in Reads
      BY <1>9, RecoveredTypes
         DEF UiLook, Matches, NoAnswer, TypeOK, Caches, Reads, Indexes, Bodies
    <3>6. applied' \in BOOLEAN
      BY <1>9, Zenon DEF UiLook, Matches, NoAnswer, TypeOK
    <3>7. config' \in Configs /\ lock' \in Actors \cup {"free"}
      BY <1>9, <3>5
         DEF UiLook, Matches, NoAnswer, TypeOK, Configs, Direct, Caches, Indexes,
             Bodies
    <3>8. gone' \subseteq Subs /\ slips' \subseteq Slips
      BY <1>9 DEF UiLook, Matches, NoAnswer, TypeOK, Slips, Indexes
    <3> QED
      BY <3>1, <3>2, <3>3, <3>4, <3>5, <3>6, <3>7, <3>8 DEF TypeOK
  <2>2. Staged'
    BY <1>9 DEF UiLook, Matches, NoAnswer, NoIndex, TypeOK, Indexes, Staged, LockSteps
  <2>3. Fetching'
    BY <1>9
       DEF UiLook, Matches, NoAnswer, NoIndex, TypeOK, Indexes, Fetching, Ready, Drafts,
           Staged, LockSteps
  <2>4. Kept'
    BY <1>9, RecoveredTypes
       DEF UiLook, Matches, NoAnswer, NoIndex, TypeOK, Indexes, Kept, Stored, Removing,
           Half, Drafts, Staged, LockSteps, Swapping
  <2>5. Cached'
    BY <1>9, RecoveredTypes
       DEF UiLook, Matches, NoAnswer, NoIndex, TypeOK, Indexes, Cached, CacheIsCurrent,
           Swapping, Undone, Staged, LockSteps
  <2>6. Built'
    BY <1>9, RecoveredTypes
       DEF UiLook, Matches, NoAnswer, NoIndex, TypeOK, Indexes, Built, Wanted, Undone,
           Direct, Staged, Kept, Cached, Swapping, LockSteps
  <2>7. Tagged'
    BY <1>9, RecoveredTypes
       DEF UiLook, Matches, NoAnswer, NoIndex, TypeOK, Indexes, Tagged, Ready, Excused,
           Holds, Removing, Kept, Half, Stored, Drafts, Cached, Undone, Swapping,
           Staged, LockSteps, Bodies, Versions
  <2> QED
    BY <2>1, <2>2, <2>3, <2>4, <2>5, <2>6, <2>7
<1>10. CASE UiLoad
  <2>1. TypeOK'
    <3>1. remote' \in [Subs -> Versions] /\ dir' \in [Subs -> Bodies] /\ old' \in [Subs -> Bodies]
      BY <1>10, RecoveredTypes
         DEF UiLoad, Loaded, Hit, Matches, NoAnswer, TypeOK, Bodies, Versions, Staged
    <3>2. index' \in Indexes /\ draft' \in Indexes
      BY <1>10 DEF UiLoad, Loaded, Hit, Matches, NoAnswer, TypeOK, Indexes, NoIndex, Bodies
    <3>3. step' \in [Actors -> Steps] /\ op' \in [Actors -> Ops] /\ target' \in [Actors -> Subs \cup {None}]
      BY <1>10 DEF UiLoad, Loaded, Hit, Matches, NoAnswer, TypeOK, Steps, Ops
    <3>4. got' \in [Actors -> [Subs -> Answers]]
      BY <1>10 DEF UiLoad, Loaded, Hit, Matches, NoAnswer, TypeOK, Answers, Bodies, Versions
    <3>5. cache' \in Caches /\ ui' \in Reads
      <4>1. ui.sub \in Subs /\ dir[ui.sub] \in Bodies /\ ui.fits \in BOOLEAN
        BY <1>10, Parts DEF UiLoad, TypeOK, Cached
      <4>2. cache' \in Caches
        BY <1>10, <4>1, LoadedTypes DEF UiLoad
      <4>3. ui' \in Reads
        BY <1>10 DEF UiLoad, TypeOK, Reads
      <4> QED
        BY <4>2, <4>3
    <3>6. applied' \in BOOLEAN
      BY <1>10, Zenon DEF UiLoad, Loaded, Hit, Matches, NoAnswer, TypeOK
    <3>7. config' \in Configs /\ lock' \in Actors \cup {"free"}
      BY <1>10, <3>5
         DEF UiLoad, Loaded, Hit, Matches, NoAnswer, TypeOK, Configs, Direct, Caches,
             Indexes, Bodies
    <3>8. gone' \subseteq Subs /\ slips' \subseteq Slips
      BY <1>10 DEF UiLoad, Loaded, Hit, Matches, NoAnswer, TypeOK, Slips, Indexes
    <3> QED
      BY <3>1, <3>2, <3>3, <3>4, <3>5, <3>6, <3>7, <3>8 DEF TypeOK
  <2>2. Staged'
    BY <1>10
       DEF UiLoad, Loaded, Hit, Matches, NoAnswer, NoIndex, TypeOK, Indexes, Staged,
           LockSteps
  <2>3. Fetching'
    BY <1>10
       DEF UiLoad, Loaded, Hit, Matches, NoAnswer, NoIndex, TypeOK, Indexes, Fetching,
           Ready, Drafts, Staged, LockSteps
  <2>4. Kept'
    BY <1>10, RecoveredTypes
       DEF UiLoad, Loaded, Hit, Matches, NoAnswer, NoIndex, TypeOK, Indexes, Kept,
           Stored, Removing, Half, Drafts, Staged, LockSteps, Swapping
  <2>5. Cached'
    BY <1>10, RecoveredTypes
       DEF UiLoad, Loaded, Hit, Matches, NoAnswer, NoIndex, TypeOK, Indexes, Cached,
           CacheIsCurrent, Swapping, Undone, Staged, LockSteps
  <2>6. Built'
    BY <1>10, RecoveredTypes
       DEF UiLoad, Loaded, Hit, Matches, NoAnswer, NoIndex, TypeOK, Indexes, Built,
           Wanted, Undone, Direct, Staged, Kept, Cached, Swapping, LockSteps
  <2>7. Tagged'
    BY <1>10, RecoveredTypes
       DEF UiLoad, Loaded, Hit, Matches, NoAnswer, NoIndex, TypeOK, Indexes, Tagged,
           Ready, Excused, Holds, Removing, Kept, Half, Stored, Drafts, Cached, Undone,
           Swapping, Staged, LockSteps, Bodies, Versions
  <2> QED
    BY <2>1, <2>2, <2>3, <2>4, <2>5, <2>6, <2>7
<1>11. CASE UiTrim
  <2>1. TypeOK'
    <3>1. remote' \in [Subs -> Versions] /\ dir' \in [Subs -> Bodies] /\ old' \in [Subs -> Bodies]
      BY <1>11, RecoveredTypes DEF UiTrim, UiIdle, NoAnswer, TypeOK, Bodies, Versions, Staged
    <3>2. index' \in Indexes /\ draft' \in Indexes
      BY <1>11 DEF UiTrim, UiIdle, NoAnswer, TypeOK, Indexes, NoIndex, Bodies
    <3>3. step' \in [Actors -> Steps] /\ op' \in [Actors -> Ops] /\ target' \in [Actors -> Subs \cup {None}]
      BY <1>11 DEF UiTrim, UiIdle, NoAnswer, TypeOK, Steps, Ops
    <3>4. got' \in [Actors -> [Subs -> Answers]]
      BY <1>11 DEF UiTrim, UiIdle, NoAnswer, TypeOK, Answers, Bodies, Versions
    <3>5. cache' \in Caches /\ ui' \in Reads
      BY <1>11, RecoveredTypes
         DEF UiTrim, UiIdle, NoAnswer, TypeOK, Caches, Reads, Indexes, Bodies
    <3>6. applied' \in BOOLEAN
      BY <1>11, Zenon DEF UiTrim, UiIdle, NoAnswer, TypeOK
    <3>7. config' \in Configs /\ lock' \in Actors \cup {"free"}
      BY <1>11, <3>5
         DEF UiTrim, UiIdle, NoAnswer, TypeOK, Configs, Direct, Caches, Indexes,
             Bodies
    <3>8. gone' \subseteq Subs /\ slips' \subseteq Slips
      BY <1>11 DEF UiTrim, UiIdle, NoAnswer, TypeOK, Slips, Indexes
    <3> QED
      BY <3>1, <3>2, <3>3, <3>4, <3>5, <3>6, <3>7, <3>8 DEF TypeOK
  <2>2. Staged'
    BY <1>11 DEF UiTrim, UiIdle, NoAnswer, NoIndex, TypeOK, Indexes, Staged, LockSteps
  <2>3. Fetching'
    BY <1>11
       DEF UiTrim, UiIdle, NoAnswer, NoIndex, TypeOK, Indexes, Fetching, Ready, Drafts,
           Staged, LockSteps
  <2>4. Kept'
    BY <1>11, RecoveredTypes
       DEF UiTrim, UiIdle, NoAnswer, NoIndex, TypeOK, Indexes, Kept, Stored, Removing,
           Half, Drafts, Staged, LockSteps, Swapping
  <2>5. Cached'
    BY <1>11, RecoveredTypes
       DEF UiTrim, UiIdle, NoAnswer, NoIndex, TypeOK, Indexes, Cached, CacheIsCurrent,
           Swapping, Undone, Staged, LockSteps
  <2>6. Built'
    BY <1>11, RecoveredTypes
       DEF UiTrim, UiIdle, NoAnswer, NoIndex, TypeOK, Indexes, Built, Wanted, Undone,
           Direct, Staged, Kept, Cached, Swapping, LockSteps
  <2>7. Tagged'
    BY <1>11, RecoveredTypes
       DEF UiTrim, UiIdle, NoAnswer, NoIndex, TypeOK, Indexes, Tagged, Ready, Excused,
           Holds, Removing, Kept, Half, Stored, Drafts, Cached, Undone, Swapping,
           Staged, LockSteps, Bodies, Versions
  <2> QED
    BY <2>1, <2>2, <2>3, <2>4, <2>5, <2>6, <2>7
<1>12. CASE Restart
  <2>1. TypeOK'
    <3>1. remote' \in [Subs -> Versions] /\ dir' \in [Subs -> Bodies] /\ old' \in [Subs -> Bodies]
      BY <1>12, RecoveredTypes
         DEF Restart, UiIdle, NoCache, NoAnswer, TypeOK, Bodies, Versions, Staged
    <3>2. index' \in Indexes /\ draft' \in Indexes
      BY <1>12 DEF Restart, UiIdle, NoCache, NoAnswer, TypeOK, Indexes, NoIndex, Bodies
    <3>3. step' \in [Actors -> Steps] /\ op' \in [Actors -> Ops] /\ target' \in [Actors -> Subs \cup {None}]
      BY <1>12 DEF Restart, UiIdle, NoCache, NoAnswer, TypeOK, Steps, Ops
    <3>4. got' \in [Actors -> [Subs -> Answers]]
      BY <1>12 DEF Restart, UiIdle, NoCache, NoAnswer, TypeOK, Answers, Bodies, Versions
    <3>5. cache' \in Caches /\ ui' \in Reads
      BY <1>12, RecoveredTypes
         DEF Restart, UiIdle, NoCache, NoAnswer, TypeOK, Caches, Reads, Indexes,
             Bodies
    <3>6. applied' \in BOOLEAN
      BY <1>12, Zenon DEF Restart, UiIdle, NoCache, NoAnswer, TypeOK
    <3>7. config' \in Configs /\ lock' \in Actors \cup {"free"}
      BY <1>12, <3>5
         DEF Restart, UiIdle, NoCache, NoAnswer, TypeOK, Configs, Direct, Caches,
             Indexes, Bodies
    <3>8. gone' \subseteq Subs /\ slips' \subseteq Slips
      BY <1>12 DEF Restart, UiIdle, NoCache, NoAnswer, TypeOK, Slips, Indexes
    <3> QED
      BY <3>1, <3>2, <3>3, <3>4, <3>5, <3>6, <3>7, <3>8 DEF TypeOK
  <2>2. Staged'
    BY <1>12 DEF Restart, UiIdle, NoCache, NoAnswer, NoIndex, TypeOK, Indexes, Staged, LockSteps
  <2>3. Fetching'
    BY <1>12
       DEF Restart, UiIdle, NoCache, NoAnswer, NoIndex, TypeOK, Indexes, Fetching,
           Ready, Drafts, Staged, LockSteps
  <2>4. Kept'
    BY <1>12, RecoveredTypes
       DEF Restart, UiIdle, NoCache, NoAnswer, NoIndex, TypeOK, Indexes, Kept, Stored,
           Removing, Half, Drafts, Staged, LockSteps, Swapping
  <2>5. Cached'
    BY <1>12, RecoveredTypes
       DEF Restart, UiIdle, NoCache, NoAnswer, NoIndex, TypeOK, Indexes, Cached,
           CacheIsCurrent, Swapping, Undone, Staged, LockSteps
  <2>6. Built'
    <3> SUFFICES ASSUME applied', ~Undone'
                 PROVE  /\ lock' = "free" => config' = Wanted'
                        /\ \A b \in Actors :
                             /\ step'[b] \in {"remove", "release"} => config' = Wanted'
                             /\ op'[b] # "pass" /\ (\E s \in Subs : step'[b] = "write" /\ got'[b][s] \in Versions)
                                  => config' = Wanted'
      BY DEF Built

    <3>1. applied /\ lock = "free" /\ ~Undone
      BY <1>12 DEF Restart, Undone
    <3>2. config = Wanted
      BY <3>1 DEF Built
    <3>3. Wanted' = Wanted
      <4>1. index.active # None => Recovered(dir', old')[index.active] = Recovered(dir, old)[index.active]
        <5> SUFFICES ASSUME index.active # None PROVE Recovered(dir', old')[index.active] = Recovered(dir, old)[index.active]
          OBVIOUS
        <5>1. index.active \in Subs
          BY Parts
        <5>2. dir' = Recovered(dir, old) /\ \A t \in Subs : old'[t] = None
          BY <1>12 DEF Restart, NoAnswer
        <5>3. Recovered(dir', old')[index.active] = dir'[index.active]
          BY <2>1, <5>1, <5>2, RecoveredTypes DEF TypeOK
        <5> QED
          BY <5>2, <5>3
      <4> QED
        BY <1>12, <4>1 DEF Restart, Wanted
    <3> QED
      BY <1>12, <3>2, <3>3 DEF Restart
  <2>7. Tagged'
    BY <1>12, RecoveredTypes
       DEF Restart, UiIdle, NoCache, NoAnswer, NoIndex, TypeOK, Indexes, Tagged, Ready,
           Excused, Holds, Removing, Kept, Half, Stored, Drafts, Cached, Undone,
           Swapping, Staged, LockSteps, Bodies, Versions
  <2> QED
    BY <2>1, <2>2, <2>3, <2>4, <2>5, <2>6, <2>7
<1>13. ASSUME NEW a \in Actors, WriteFetched(a) PROVE Inv'
  <2>1. TypeOK'
    <3>1. remote' \in [Subs -> Versions] /\ dir' \in [Subs -> Bodies] /\ old' \in [Subs -> Bodies]
      BY <1>13, RecoveredTypes
         DEF WriteFetched, Take, LoadIndex, StillListed, NoAnswer, TypeOK, Bodies,
             Versions, Staged
    <3>2. index' \in Indexes /\ draft' \in Indexes
      BY <1>13
         DEF WriteFetched, Take, LoadIndex, StillListed, NoAnswer, TypeOK, Indexes,
             NoIndex, Bodies
    <3>3. step' \in [Actors -> Steps] /\ op' \in [Actors -> Ops] /\ target' \in [Actors -> Subs \cup {None}]
      BY <1>13 DEF WriteFetched, Take, LoadIndex, StillListed, NoAnswer, TypeOK, Steps, Ops
    <3>4. got' \in [Actors -> [Subs -> Answers]]
      BY <1>13
         DEF WriteFetched, Take, LoadIndex, StillListed, NoAnswer, TypeOK, Answers,
             Bodies, Versions
    <3>5. cache' \in Caches /\ ui' \in Reads
      BY <1>13, RecoveredTypes
         DEF WriteFetched, Take, LoadIndex, StillListed, NoAnswer, TypeOK, Caches,
             Reads, Indexes, Bodies
    <3>6. applied' \in BOOLEAN
      BY <1>13, Zenon DEF WriteFetched, Take, LoadIndex, StillListed, NoAnswer, TypeOK
    <3>7. config' \in Configs /\ lock' \in Actors \cup {"free"}
      BY <1>13, <3>5
         DEF WriteFetched, Take, LoadIndex, StillListed, NoAnswer, TypeOK, Configs,
             Direct, Caches, Indexes, Bodies
    <3>8. gone' \subseteq Subs /\ slips' \subseteq Slips
      BY <1>13 DEF WriteFetched, Take, LoadIndex, StillListed, NoAnswer, TypeOK, Slips, Indexes
    <3> QED
      BY <3>1, <3>2, <3>3, <3>4, <3>5, <3>6, <3>7, <3>8 DEF TypeOK
  <2>2. Staged'
    BY <1>13
       DEF WriteFetched, Take, LoadIndex, StillListed, NoAnswer, NoIndex, TypeOK,
           Indexes, Staged, LockSteps
  <2>3. Fetching'
    <3>1. /\ lock = "free" /\ lock' = a /\ draft' = index /\ step[a] = "fetched"
          /\ step' = [step EXCEPT ![a] = "write"] /\ UNCHANGED <<index, op, target, gone>>
      BY <1>13 DEF WriteFetched, Take
    <3>2. \A b \in Actors \ {a} : got'[b] = got[b]
      BY <1>13 DEF WriteFetched, TypeOK
    <3>3. \A s \in Subs : got'[a][s] = got[a][s] \/ got'[a][s] = None
      BY <1>13 DEF WriteFetched, StillListed, TypeOK
    <3>4. op[a] = "pass" => \A s \in Subs \ index.listed : got'[a][s] = None
      BY <1>13 DEF WriteFetched, StillListed, TypeOK
    <3>5. op[a] = "update" => target[a] \in index.listed
      BY <1>13 DEF WriteFetched
    <3>6. \A b \in Actors : b # a => step'[b] \notin LockSteps
      BY <3>1 DEF Staged, TypeOK, LockSteps
    <3>7. \A s \in Subs : got[a][s] # None => op[a] = "pass" \/ s = target[a]
      BY <3>1 DEF Fetching
    <3>8. None \notin Versions
      BY DEF Versions
    <3>9. op["other"] \notin {"add", "update"} /\ op[a] \in {"add", "update", "pass"}
      BY <3>1 DEF Staged
    <3>10. \A s \in Subs : Ready("user", s)' => s \notin gone'
      BY <3>1, <3>3, <3>4, <3>5, <3>6, <3>7, <3>8, <3>9 DEF Fetching, Ready, LockSteps, TypeOK
    <3>11. \A s \in Subs : Ready("other", s)' => s \in index'.listed
      BY <3>1, <3>4, <3>6, <3>8, <3>9 DEF Ready, LockSteps, TypeOK
    <3>12. \A b \in Actors : step'[b] = "idle" => got'[b] = NoAnswer
      BY <3>1, <3>2 DEF Fetching, TypeOK
    <3>13. \A b \in Actors : step'[b] \in {"fetched", "write", "swap"} /\ op'[b] # "pass"
             => \A s \in Subs : got'[b][s] # None => s = target'[b]
      BY <3>1, <3>2, <3>3 DEF Fetching, TypeOK
    <3>14. step'["user"] = "fetched" /\ op'["user"] = "add"
             => \A s \in Subs : got'["user"][s] # None => s \notin index'.listed \cup gone'
      BY <3>1, <3>2 DEF Fetching, TypeOK
    <3>15. \A b \in Actors : step'[b] \in Drafts =>
             draft'.listed \cap gone' = {} /\ (b = "other" => draft'.listed \subseteq index'.listed)
      BY <3>1 DEF Fetching
    <3> QED
      BY <3>1, <3>10, <3>11, <3>12, <3>13, <3>14, <3>15 DEF Fetching
  <2>4. Kept'
    BY <1>13, RecoveredTypes
       DEF WriteFetched, Take, LoadIndex, StillListed, NoAnswer, NoIndex, TypeOK,
           Indexes, Kept, Stored, Removing, Half, Drafts, Staged, LockSteps, Swapping
  <2>5. Cached'
    BY <1>13, RecoveredTypes
       DEF WriteFetched, Take, LoadIndex, StillListed, NoAnswer, NoIndex, TypeOK,
           Indexes, Cached, CacheIsCurrent, Swapping, Undone, Staged, LockSteps
  <2>6. Built'
    BY <1>13, RecoveredTypes
       DEF WriteFetched, Take, LoadIndex, StillListed, NoAnswer, NoIndex, TypeOK,
           Indexes, Built, Wanted, Undone, Direct, Staged, Kept, Cached, Swapping,
           LockSteps
  <2>7. Tagged'
    BY <1>13, RecoveredTypes
       DEF WriteFetched, Take, LoadIndex, StillListed, NoAnswer, NoIndex, TypeOK,
           Indexes, Tagged, Ready, Excused, Holds, Removing, Kept, Half, Stored, Drafts,
           Cached, Undone, Swapping, Staged, LockSteps, Bodies, Versions
  <2> QED
    BY <2>1, <2>2, <2>3, <2>4, <2>5, <2>6, <2>7
<1>14. ASSUME NEW a \in Actors, CommitNew(a) PROVE Inv'
  <2>1. TypeOK'
    <3>1. remote' \in [Subs -> Versions] /\ dir' \in [Subs -> Bodies] /\ old' \in [Subs -> Bodies]
      BY <1>14, RecoveredTypes
         DEF CommitNew, Noted, Written, NewFile, NoAnswer, TypeOK, Bodies, Versions,
             Staged
    <3>2. index' \in Indexes /\ draft' \in Indexes
      BY <1>14
         DEF CommitNew, Noted, Written, NewFile, NoAnswer, TypeOK, Indexes, NoIndex,
             Bodies
    <3>3. step' \in [Actors -> Steps] /\ op' \in [Actors -> Ops] /\ target' \in [Actors -> Subs \cup {None}]
      BY <1>14 DEF CommitNew, Noted, Written, NewFile, NoAnswer, TypeOK, Steps, Ops
    <3>4. got' \in [Actors -> [Subs -> Answers]]
      BY <1>14
         DEF CommitNew, Noted, Written, NewFile, NoAnswer, TypeOK, Answers, Bodies,
             Versions
    <3>5. cache' \in Caches /\ ui' \in Reads
      <4>1. PICK s \in Subs : NewFile(s)
        BY <1>14 DEF CommitNew
      <4>2. [cache EXCEPT !.fits = FALSE] \in Caches /\ [ui EXCEPT !.fits = FALSE] \in Reads
        BY DEF TypeOK, Caches, Reads
      <4> QED
        BY <4>1, <4>2 DEF NewFile, TypeOK
    <3>6. applied' \in BOOLEAN
      BY <1>14, Zenon DEF CommitNew, Noted, Written, NewFile, NoAnswer, TypeOK
    <3>7. config' \in Configs /\ lock' \in Actors \cup {"free"}
      BY <1>14, <3>5
         DEF CommitNew, Noted, Written, NewFile, NoAnswer, TypeOK, Configs, Direct,
             Caches, Indexes, Bodies
    <3>8. gone' \subseteq Subs /\ slips' \subseteq Slips
      BY <1>14 DEF CommitNew, Noted, Written, NewFile, NoAnswer, TypeOK, Slips, Indexes
    <3> QED
      BY <3>1, <3>2, <3>3, <3>4, <3>5, <3>6, <3>7, <3>8 DEF TypeOK
  <2>2. Staged'
    BY <1>14
       DEF CommitNew, Noted, Written, NewFile, NoAnswer, NoIndex, TypeOK, Indexes,
           Staged, LockSteps
  <2>3. Fetching'
    BY <1>14
       DEF CommitNew, Noted, Written, NewFile, NoAnswer, NoIndex, TypeOK, Indexes,
           Fetching, Ready, Drafts, Staged, LockSteps
  <2>4. Kept'
    <3>1. PICK s \in Subs : /\ got[a][s] \in Versions /\ dir[s] = None
                            /\ dir' = [dir EXCEPT ![s] = got[a][s]] /\ Noted(a, s, got[a][s])
      BY <1>14 DEF CommitNew

    <3>2. \A t \in Subs : Stored(t) => Stored(t)'
      BY <1>14, <3>1 DEF CommitNew, Versions, Stored, TypeOK
    <3>3. /\ lock = a /\ Stored(s)' /\ draft'.listed = draft.listed \cup {s} /\ step'[a] = "write" /\ step[a] \in Drafts
          /\ UNCHANGED <<index, op, target, slips>>
      BY <1>14, <3>1 DEF CommitNew, Versions, Noted, Stored, Staged, LockSteps, Drafts, TypeOK
    <3>4. \A b \in Actors : b # a => step[b] \notin LockSteps /\ step'[b] = step[b]
      BY <1>14, <3>3 DEF CommitNew, Versions, Staged, TypeOK
    <3>5. \A b \in Actors : step'[b] # "swap"
      BY <3>3, <3>4 DEF LockSteps
    <3>6. ~Half => \A t \in index.listed : Stored(t)' \/ Removing(t)'
      <4>1. ~Half => \A t \in index.listed : Stored(t)
        BY <1>14, <3>3, <3>4 DEF Kept, Removing, CommitNew, LockSteps
      <4> QED
        BY <3>2, <4>1, Parts
    <3>7. ~Half => \A t \in draft.listed \cup {s} : Stored(t)'
      BY <3>2, <3>3, Parts DEF Kept
    <3> QED
      BY <3>3, <3>5, <3>6, <3>7 DEF Kept, Half
  <2>5. Cached'
    BY <1>14, RecoveredTypes
       DEF CommitNew, Noted, Written, NewFile, NoAnswer, NoIndex, TypeOK, Indexes,
           Cached, CacheIsCurrent, Swapping, Undone, Staged, LockSteps
  <2>6. Built'
    <3> SUFFICES ASSUME applied', ~Undone'
                 PROVE  /\ lock' = "free" => config' = Wanted'
                        /\ \A b \in Actors :
                             /\ step'[b] \in {"remove", "release"} => config' = Wanted'
                             /\ op'[b] # "pass" /\ (\E s \in Subs : step'[b] = "write" /\ got'[b][s] \in Versions)
                                  => config' = Wanted'
      BY DEF Built

    <3>1. lock = a /\ lock' = a
      BY <1>14 DEF CommitNew, Staged, LockSteps
    <3>2. op[a] # "pass" => \A s \in Subs : got'[a][s] \notin Versions
      <4>1. PICK s \in Subs : got[a][s] \in Versions /\ Written(a, s)
        BY <1>14 DEF CommitNew
      <4> QED
        BY <1>14, <4>1 DEF CommitNew, Written, Fetching, TypeOK, Versions
    <3> QED
      BY <1>14, <3>1, <3>2 DEF CommitNew, Staged, LockSteps, TypeOK
  <2>7. Tagged'
    <3> SUFFICES ASSUME ~Excused'
                 PROVE  /\ \A s \in index'.listed : Removing(s)' \/ Holds(s, index.tag[s])'
                        /\ \A b \in Actors : step'[b] \in Drafts => \A s \in draft'.listed : Holds(s, draft.tag[s])'
                        /\ \A b \in Actors : step'[b] = "swap" => got'[b][target'[b]] >= old'[target'[b]]
                        /\ \A b \in Actors : \A s \in Subs :
                             Ready(b, s)' /\ ~(step'[b] = "swap" /\ target'[b] = s) => old'[s] = None
      BY DEF Tagged
    <3>1. lock = a /\ ~Excused /\ ~Half /\ \A b \in Actors : b # a => step[b] \notin LockSteps /\ step'[b] = step[b]
      BY <1>14 DEF CommitNew, Staged, LockSteps, Excused, Half, TypeOK
    <3> DEFINE body == Recovered(dir, old)
               after == Recovered(dir', old')
    <3>2. \A s \in Subs : /\ body[s] = IF dir[s] = None THEN old[s] ELSE dir[s]
                          /\ after[s] = IF dir'[s] = None THEN old'[s] ELSE dir'[s]
      BY <2>1, RecoveredTypes DEF TypeOK
    <3> HIDE DEF body, after

    <3>3. PICK s \in Subs : /\ got[a][s] \in Versions /\ dir[s] = None /\ dir' = [dir EXCEPT ![s] = got[a][s]]
                            /\ Noted(a, s, got[a][s]) /\ Written(a, s)
      BY <1>14 DEF CommitNew
    <3>4. step[a] = "write" /\ step' = step /\ UNCHANGED <<old, index, op, target>> /\ old[s] = None
      BY <1>14, <3>1, <3>3 DEF CommitNew, Tagged, Ready
    <3>5. s \notin index.listed
      BY <3>1, <3>3, <3>4 DEF Kept, Stored, Removing, LockSteps
    <3>6. \A t \in Subs : t # s => after[t] = body[t]
      BY <3>2, <3>3, <3>4 DEF TypeOK
    <3>7. after[s] = got[a][s] /\ after[s] # None
      <4>1. dir'[s] = got[a][s] /\ got[a][s] # None
        BY <3>3 DEF TypeOK, Versions
      <4> QED
        BY <3>2, <4>1
    <3>8. \A t \in index.listed : Removing(t)' \/ Holds(t, index.tag[t])'
      BY <3>1, <3>4, <3>5, <3>6, Parts DEF Tagged, Holds, Removing, body, after
    <3>9. ASSUME NEW t \in draft'.listed PROVE Holds(t, draft.tag[t])'
      <4>1. CASE t = s
        BY <3>3, <3>7, <4>1, Parts DEF Holds, Noted, Versions, after
      <4>2. CASE t # s
        <5>1. t \in draft.listed /\ t \in Subs /\ draft'.tag[t] = draft.tag[t] /\ Holds(t, draft.tag[t])
          BY <3>1, <3>3, <3>4, <4>2, Parts DEF Tagged, Noted, Drafts
        <5> QED
          BY <3>6, <4>2, <5>1 DEF Holds, body, after
      <4> QED
        BY <4>1, <4>2
    <3>10. \A b \in Actors : \A t \in Subs : Ready(b, t)' /\ ~(step'[b] = "swap" /\ target'[b] = t) => old'[t] = None
      BY <3>1, <3>3, <3>4 DEF Tagged, Ready, Written, TypeOK, Versions
    <3> QED
      BY <3>1, <3>4, <3>8, <3>9, <3>10 DEF LockSteps, Ready
  <2> QED
    BY <2>1, <2>2, <2>3, <2>4, <2>5, <2>6, <2>7
<1>15. ASSUME NEW a \in Actors, CommitMovesOld(a) PROVE Inv'
  <2>1. TypeOK'
    <3>1. remote' \in [Subs -> Versions] /\ dir' \in [Subs -> Bodies] /\ old' \in [Subs -> Bodies]
      BY <1>15, RecoveredTypes
         DEF CommitMovesOld, Overtakes, NoAnswer, TypeOK, Bodies, Versions, Staged
    <3>2. index' \in Indexes /\ draft' \in Indexes
      BY <1>15 DEF CommitMovesOld, Overtakes, NoAnswer, TypeOK, Indexes, NoIndex, Bodies
    <3>3. step' \in [Actors -> Steps] /\ op' \in [Actors -> Ops] /\ target' \in [Actors -> Subs \cup {None}]
      BY <1>15 DEF CommitMovesOld, Overtakes, NoAnswer, TypeOK, Steps, Ops
    <3>4. got' \in [Actors -> [Subs -> Answers]]
      BY <1>15 DEF CommitMovesOld, Overtakes, NoAnswer, TypeOK, Answers, Bodies, Versions
    <3>5. cache' \in Caches /\ ui' \in Reads
      BY <1>15, RecoveredTypes
         DEF CommitMovesOld, Overtakes, NoAnswer, TypeOK, Caches, Reads, Indexes,
             Bodies
    <3>6. applied' \in BOOLEAN
      BY <1>15, Zenon DEF CommitMovesOld, Overtakes, NoAnswer, TypeOK
    <3>7. config' \in Configs /\ lock' \in Actors \cup {"free"}
      BY <1>15, <3>5
         DEF CommitMovesOld, Overtakes, NoAnswer, TypeOK, Configs, Direct, Caches,
             Indexes, Bodies
    <3>8. gone' \subseteq Subs /\ slips' \subseteq Slips
      BY <1>15 DEF CommitMovesOld, Overtakes, NoAnswer, TypeOK, Slips, Indexes
    <3> QED
      BY <3>1, <3>2, <3>3, <3>4, <3>5, <3>6, <3>7, <3>8 DEF TypeOK
  <2>2. Staged'
    BY <1>15
       DEF CommitMovesOld, Overtakes, NoAnswer, NoIndex, TypeOK, Indexes, Staged,
           LockSteps
  <2>3. Fetching'
    <3>1. PICK s \in Subs : /\ got[a][s] \in Versions /\ dir[s] # None
                            /\ target' = [target EXCEPT ![a] = s]
      BY <1>15 DEF CommitMovesOld
    <3>2. op[a] # "pass" => s = target[a]
      BY <1>15, <3>1 DEF CommitMovesOld, Fetching, Versions
    <3>3. \A b \in Actors : \A t \in Subs : Ready(b, t)' => Ready(b, t)
      BY <1>15 DEF CommitMovesOld, Ready, TypeOK
    <3>4. \A b \in Actors : op[b] # "pass" => target'[b] = target[b]
      BY <3>1, <3>2 DEF TypeOK
    <3>5. step' = [step EXCEPT ![a] = "swap"] /\ UNCHANGED <<index, op, got, draft, gone>> /\ step[a] = "write"
      BY <1>15 DEF CommitMovesOld
    <3>6. \A b \in Actors : step'[b] \in Drafts => step[b] \in Drafts
      BY <3>5 DEF Drafts, TypeOK
    <3>7. \A b \in Actors : step'[b] \in {"fetched", "write", "swap"} => step[b] \in {"fetched", "write", "swap"}
      BY <3>5 DEF TypeOK
    <3>8. \A b \in Actors : (step'[b] = "idle" => step[b] = "idle") /\ (step'[b] = "fetched" => step[b] = "fetched")
      BY <3>5 DEF TypeOK
    <3> QED
      BY <3>3, <3>4, <3>5, <3>6, <3>7, <3>8 DEF Fetching
  <2>4. Kept'
    BY <1>15, RecoveredTypes
       DEF CommitMovesOld, Overtakes, NoAnswer, NoIndex, TypeOK, Indexes, Kept, Stored,
           Removing, Half, Drafts, Staged, LockSteps, Swapping
  <2>5. Cached'
    BY <1>15, RecoveredTypes
       DEF CommitMovesOld, Overtakes, NoAnswer, NoIndex, TypeOK, Indexes, Cached,
           CacheIsCurrent, Swapping, Undone, Staged, LockSteps
  <2>6. Built'
    BY <1>15, RecoveredTypes
       DEF CommitMovesOld, Overtakes, NoAnswer, NoIndex, TypeOK, Indexes, Built, Wanted,
           Undone, Direct, Staged, Kept, Cached, Swapping, LockSteps
  <2>7. Tagged'
    <3> SUFFICES ASSUME ~Excused'
                 PROVE  /\ \A s \in index'.listed : Removing(s)' \/ Holds(s, index.tag[s])'
                        /\ \A b \in Actors : step'[b] \in Drafts => \A s \in draft'.listed : Holds(s, draft.tag[s])'
                        /\ \A b \in Actors : step'[b] = "swap" => got'[b][target'[b]] >= old'[target'[b]]
                        /\ \A b \in Actors : \A s \in Subs :
                             Ready(b, s)' /\ ~(step'[b] = "swap" /\ target'[b] = s) => old'[s] = None
      BY DEF Tagged
    <3>1. lock = a /\ ~Excused /\ ~Half /\ \A b \in Actors : b # a => step[b] \notin LockSteps /\ step'[b] = step[b]
      BY <1>15 DEF CommitMovesOld, Overtakes, Staged, LockSteps, Excused, Half, TypeOK
    <3> DEFINE body == Recovered(dir, old)
               after == Recovered(dir', old')
    <3>2. \A s \in Subs : /\ body[s] = IF dir[s] = None THEN old[s] ELSE dir[s]
                          /\ after[s] = IF dir'[s] = None THEN old'[s] ELSE dir'[s]
      BY <2>1, RecoveredTypes DEF TypeOK
    <3> HIDE DEF body, after

    <3>3. PICK s \in Subs : /\ got[a][s] \in Versions /\ dir[s] # None /\ old' = [old EXCEPT ![s] = dir[s]]
                            /\ dir' = [dir EXCEPT ![s] = None] /\ target' = [target EXCEPT ![a] = s]
                            /\ Overtakes(s, got[a][s])
      BY <1>15 DEF CommitMovesOld
    <3>4. /\ step[a] = "write" /\ step' = [step EXCEPT ![a] = "swap"] /\ UNCHANGED <<index, op, got, draft>>
          /\ op[a] # "remove"
      BY <1>15 DEF CommitMovesOld, Staged
    <3>5. \A t \in Subs : after[t] = body[t]
      BY <3>2, <3>3 DEF TypeOK
    <3>6. \A t \in index.listed : Holds(t, index.tag[t])'
      BY <3>1, <3>4, <3>5, Parts DEF Tagged, Holds, Removing, LockSteps, body, after
    <3>7. \A t \in draft.listed : Holds(t, draft.tag[t])'
      BY <3>1, <3>4, <3>5, Parts DEF Tagged, Holds, Drafts, body, after
    <3>8. target'[a] = s /\ old'[s] = dir[s] /\ got[a][s] >= dir[s]
      <4>1. ~(got[a][s] < dir[s])
        BY <3>3 DEF Overtakes, Excused
      <4>2. dir[s] \in Versions
        BY <3>3 DEF TypeOK, Bodies
      <4> QED
        BY <3>3, <4>1, <4>2 DEF TypeOK, Versions
    <3> QED
      BY <3>1, <3>3, <3>4, <3>6, <3>7, <3>8 DEF LockSteps, Drafts, Ready, Tagged, TypeOK
  <2> QED
    BY <2>1, <2>2, <2>3, <2>4, <2>5, <2>6, <2>7
<1>16. ASSUME NEW a \in Actors, CommitMovesNew(a) PROVE Inv'
  <2>1. TypeOK'
    <3>1. remote' \in [Subs -> Versions] /\ dir' \in [Subs -> Bodies] /\ old' \in [Subs -> Bodies]
      BY <1>16, RecoveredTypes
         DEF CommitMovesNew, Noted, Written, NewFile, NoAnswer, TypeOK, Bodies,
             Versions, Staged
    <3>2. index' \in Indexes /\ draft' \in Indexes
      <4>1. target[a] \in Subs /\ got[a][target[a]] \in Bodies
        BY <1>16 DEF CommitMovesNew, Staged, Bodies
      <4>2. /\ draft.listed \cup {target[a]} \in SUBSET Subs
            /\ (IF Does(a, "add") /\ draft.active = None THEN target[a] ELSE draft.active) \in Subs \cup {None}
            /\ [draft.tag EXCEPT ![target[a]] = got[a][target[a]]] \in [Subs -> Bodies]
        BY <4>1, Parts
      <4>3. draft' \in Indexes
        BY <1>16, <4>2 DEF CommitMovesNew, Noted, Indexes
      <4> QED
        BY <1>16, <4>3 DEF CommitMovesNew, TypeOK
    <3>3. step' \in [Actors -> Steps] /\ op' \in [Actors -> Ops] /\ target' \in [Actors -> Subs \cup {None}]
      BY <1>16 DEF CommitMovesNew, Noted, Written, NewFile, NoAnswer, TypeOK, Steps, Ops
    <3>4. got' \in [Actors -> [Subs -> Answers]]
      BY <1>16
         DEF CommitMovesNew, Noted, Written, NewFile, NoAnswer, TypeOK, Answers,
             Bodies, Versions
    <3>5. cache' \in Caches /\ ui' \in Reads
      BY <1>16, RecoveredTypes
         DEF CommitMovesNew, Noted, Written, NewFile, NoAnswer, TypeOK, Caches, Reads,
             Indexes, Bodies
    <3>6. applied' \in BOOLEAN
      BY <1>16, Zenon DEF CommitMovesNew, Noted, Written, NewFile, NoAnswer, TypeOK
    <3>7. config' \in Configs /\ lock' \in Actors \cup {"free"}
      BY <1>16, <3>5
         DEF CommitMovesNew, Noted, Written, NewFile, NoAnswer, TypeOK, Configs,
             Direct, Caches, Indexes, Bodies
    <3>8. gone' \subseteq Subs /\ slips' \subseteq Slips
      BY <1>16 DEF CommitMovesNew, Noted, Written, NewFile, NoAnswer, TypeOK, Slips, Indexes
    <3> QED
      BY <3>1, <3>2, <3>3, <3>4, <3>5, <3>6, <3>7, <3>8 DEF TypeOK
  <2>2. Staged'
    BY <1>16
       DEF CommitMovesNew, Noted, Written, NewFile, NoAnswer, NoIndex, TypeOK, Indexes,
           Staged, LockSteps
  <2>3. Fetching'
    BY <1>16
       DEF CommitMovesNew, Noted, Written, NewFile, NoAnswer, NoIndex, TypeOK, Indexes,
           Fetching, Ready, Drafts, Staged, LockSteps
  <2>4. Kept'
    <3> DEFINE s == target[a]
    <3>1. /\ s \in Subs /\ got[a][s] \in Versions /\ dir' = [dir EXCEPT ![s] = got[a][s]] /\ Noted(a, s, got[a][s])
          /\ old' = [old EXCEPT ![s] = None]
      BY <1>16 DEF CommitMovesNew, Staged

    <3>2. \A t \in Subs : Stored(t) => Stored(t)'
      BY <1>16, <3>1 DEF CommitMovesNew, Versions, Stored, TypeOK
    <3>3. /\ lock = a /\ Stored(s)' /\ draft'.listed = draft.listed \cup {s} /\ step'[a] = "write" /\ step[a] \in Drafts
          /\ UNCHANGED <<index, op, target, slips>>
      BY <1>16, <3>1
         DEF CommitMovesNew, Versions, Noted, Stored, Staged, LockSteps, Drafts,
             TypeOK
    <3>4. \A b \in Actors : b # a => step[b] \notin LockSteps /\ step'[b] = step[b]
      BY <1>16, <3>3 DEF CommitMovesNew, Versions, Staged, TypeOK
    <3>5. \A b \in Actors : step'[b] # "swap"
      BY <3>3, <3>4 DEF LockSteps
    <3>6. ~Half => \A t \in index.listed : Stored(t)' \/ Removing(t)'
      <4>1. ~Half => \A t \in index.listed : Stored(t)
        BY <1>16, <3>3, <3>4 DEF Kept, Removing, CommitMovesNew, Versions, LockSteps
      <4> QED
        BY <3>2, <4>1, Parts
    <3>7. ~Half => \A t \in draft.listed \cup {s} : Stored(t)'
      BY <3>2, <3>3, Parts DEF Kept
    <3> QED
      BY <3>3, <3>5, <3>6, <3>7 DEF Kept, Half
  <2>5. Cached'
    BY <1>16, RecoveredTypes
       DEF CommitMovesNew, Noted, Written, NewFile, NoAnswer, NoIndex, TypeOK, Indexes,
           Cached, CacheIsCurrent, Swapping, Undone, Staged, LockSteps
  <2>6. Built'
    <3> SUFFICES ASSUME applied', ~Undone'
                 PROVE  /\ lock' = "free" => config' = Wanted'
                        /\ \A b \in Actors :
                             /\ step'[b] \in {"remove", "release"} => config' = Wanted'
                             /\ op'[b] # "pass" /\ (\E s \in Subs : step'[b] = "write" /\ got'[b][s] \in Versions)
                                  => config' = Wanted'
      BY DEF Built

    <3>1. lock = a /\ lock' = a /\ target[a] \in Subs
      BY <1>16 DEF CommitMovesNew, Staged, LockSteps
    <3>2. op[a] # "pass" => \A s \in Subs : got'[a][s] \notin Versions
      BY <1>16, <3>1 DEF CommitMovesNew, Written, Fetching, TypeOK, Versions
    <3> QED
      BY <1>16, <3>1, <3>2 DEF CommitMovesNew, Staged, LockSteps, TypeOK
  <2>7. Tagged'
    <3> SUFFICES ASSUME ~Excused'
                 PROVE  /\ \A s \in index'.listed : Removing(s)' \/ Holds(s, index.tag[s])'
                        /\ \A b \in Actors : step'[b] \in Drafts => \A s \in draft'.listed : Holds(s, draft.tag[s])'
                        /\ \A b \in Actors : step'[b] = "swap" => got'[b][target'[b]] >= old'[target'[b]]
                        /\ \A b \in Actors : \A s \in Subs :
                             Ready(b, s)' /\ ~(step'[b] = "swap" /\ target'[b] = s) => old'[s] = None
      BY DEF Tagged
    <3>1. lock = a /\ ~Excused /\ ~Half /\ \A b \in Actors : b # a => step[b] \notin LockSteps /\ step'[b] = step[b]
      BY <1>16 DEF CommitMovesNew, Staged, LockSteps, Excused, Half, TypeOK
    <3> DEFINE body == Recovered(dir, old)
               after == Recovered(dir', old')
    <3>2. \A s \in Subs : /\ body[s] = IF dir[s] = None THEN old[s] ELSE dir[s]
                          /\ after[s] = IF dir'[s] = None THEN old'[s] ELSE dir'[s]
      BY <2>1, RecoveredTypes DEF TypeOK
    <3> HIDE DEF body, after

    <3> DEFINE s == target[a]
    <3>3. /\ s \in Subs /\ got[a][s] \in Versions /\ dir' = [dir EXCEPT ![s] = got[a][s]]
          /\ old' = [old EXCEPT ![s] = None] /\ Noted(a, s, got[a][s]) /\ Written(a, s)
      BY <1>16 DEF CommitMovesNew, Staged
    <3>4. /\ step[a] = "swap" /\ step' = [step EXCEPT ![a] = "write"] /\ UNCHANGED <<index, op, target>>
          /\ dir[s] = None /\ old[s] # None /\ old[s] \in Versions /\ got[a][s] >= old[s]
      BY <1>16, <3>1, <3>3 DEF CommitMovesNew, Tagged, Kept, TypeOK, Bodies
    <3>5. \A t \in Subs : t # s => after[t] = body[t]
      BY <3>2, <3>3 DEF TypeOK
    <3>6. after[s] = got[a][s] /\ after[s] # None /\ body[s] = old[s]
      <4>1. dir'[s] = got[a][s] /\ got[a][s] # None
        BY <3>3 DEF TypeOK, Versions
      <4> QED
        BY <3>2, <3>3, <3>4, <4>1
    <3>7. \A t \in index.listed : Holds(t, index.tag[t])
      BY <3>1, <3>4 DEF Tagged, Removing, LockSteps
    <3>8. ASSUME NEW t \in index.listed PROVE Holds(t, index.tag[t])'
      <4>1. t \in Subs /\ index.tag[t] \in Bodies /\ Holds(t, index.tag[t]) /\ index' = index
        BY <3>4, <3>7, Parts
      <4>2. CASE t = s
        <5>1. index.tag[s] # None => index.tag[s] \in Nat /\ old[s] \in Nat /\ got[a][s] \in Nat
          BY <3>3, <3>4, <4>1, <4>2 DEF Bodies, Versions
        <5>2. index.tag[s] # None => old[s] >= index.tag[s]
          BY <3>6, <4>1, <4>2 DEF Holds, body
        <5>3. index.tag[s] # None => got[a][s] >= index.tag[s]
          BY <3>4, <5>1, <5>2
        <5> QED
          BY <3>6, <4>1, <4>2, <5>3 DEF Holds, after
      <4>3. CASE t # s
        BY <3>5, <4>1, <4>3 DEF Holds, body, after
      <4> QED
        BY <4>2, <4>3
    <3>9. ASSUME NEW t \in draft'.listed PROVE Holds(t, draft.tag[t])'
      <4>1. CASE t = s
        BY <3>3, <3>6, <4>1, Parts DEF Holds, Noted, Versions, after
      <4>2. CASE t # s
        <5>1. t \in draft.listed /\ t \in Subs /\ draft'.tag[t] = draft.tag[t] /\ Holds(t, draft.tag[t])
          BY <3>1, <3>3, <3>4, <4>2, Parts DEF Tagged, Noted, Drafts
        <5> QED
          BY <3>5, <4>2, <5>1 DEF Holds, body, after
      <4> QED
        BY <4>1, <4>2
    <3>10. \A b \in Actors : \A t \in Subs : Ready(b, t)' /\ ~(step'[b] = "swap" /\ target'[b] = t) => old'[t] = None
      BY <1>16, <3>1, <3>3, <3>4 DEF Tagged, Ready, Written, TypeOK, Versions, LockSteps
    <3> QED
      BY <3>1, <3>4, <3>8, <3>9, <3>10 DEF LockSteps, Ready, TypeOK
  <2> QED
    BY <2>1, <2>2, <2>3, <2>4, <2>5, <2>6, <2>7
<1>17. ASSUME NEW a \in Actors, StagingFails(a) PROVE Inv'
  <2>1. TypeOK'
    <3>1. remote' \in [Subs -> Versions] /\ dir' \in [Subs -> Bodies] /\ old' \in [Subs -> Bodies]
      BY <1>17, RecoveredTypes
         DEF StagingFails, CommitFailed, Return, Written, NoAnswer, TypeOK, Bodies,
             Versions, Staged
    <3>2. index' \in Indexes /\ draft' \in Indexes
      BY <1>17
         DEF StagingFails, CommitFailed, Return, Written, NoAnswer, TypeOK, Indexes,
             NoIndex, Bodies
    <3>3. step' \in [Actors -> Steps] /\ op' \in [Actors -> Ops] /\ target' \in [Actors -> Subs \cup {None}]
      BY <1>17 DEF StagingFails, CommitFailed, Return, Written, NoAnswer, TypeOK, Steps, Ops
    <3>4. got' \in [Actors -> [Subs -> Answers]]
      BY <1>17
         DEF StagingFails, CommitFailed, Return, Written, NoAnswer, TypeOK, Answers,
             Bodies, Versions
    <3>5. cache' \in Caches /\ ui' \in Reads
      BY <1>17, RecoveredTypes
         DEF StagingFails, CommitFailed, Return, Written, NoAnswer, TypeOK, Caches,
             Reads, Indexes, Bodies
    <3>6. applied' \in BOOLEAN
      BY <1>17, Zenon DEF StagingFails, CommitFailed, Return, Written, NoAnswer, TypeOK
    <3>7. config' \in Configs /\ lock' \in Actors \cup {"free"}
      BY <1>17, <3>5
         DEF StagingFails, CommitFailed, Return, Written, NoAnswer, TypeOK, Configs,
             Direct, Caches, Indexes, Bodies
    <3>8. gone' \subseteq Subs /\ slips' \subseteq Slips
      BY <1>17 DEF StagingFails, CommitFailed, Return, Written, NoAnswer, TypeOK, Slips, Indexes
    <3> QED
      BY <3>1, <3>2, <3>3, <3>4, <3>5, <3>6, <3>7, <3>8 DEF TypeOK
  <2>2. Staged'
    BY <1>17
       DEF StagingFails, CommitFailed, Return, Written, NoAnswer, NoIndex, TypeOK,
           Indexes, Staged, LockSteps
  <2>3. Fetching'
    BY <1>17
       DEF StagingFails, CommitFailed, Return, Written, NoAnswer, NoIndex, TypeOK,
           Indexes, Fetching, Ready, Drafts, Staged, LockSteps
  <2>4. Kept'
    BY <1>17, RecoveredTypes
       DEF StagingFails, CommitFailed, Return, Written, NoAnswer, NoIndex, TypeOK,
           Indexes, Kept, Stored, Removing, Half, Drafts, Staged, LockSteps, Swapping
  <2>5. Cached'
    BY <1>17, RecoveredTypes
       DEF StagingFails, CommitFailed, Return, Written, NoAnswer, NoIndex, TypeOK,
           Indexes, Cached, CacheIsCurrent, Swapping, Undone, Staged, LockSteps
  <2>6. Built'
    BY <1>17, RecoveredTypes
       DEF StagingFails, CommitFailed, Return, Written, NoAnswer, NoIndex, TypeOK,
           Indexes, Built, Wanted, Undone, Direct, Staged, Kept, Cached, Swapping,
           LockSteps
  <2>7. Tagged'
    BY <1>17, RecoveredTypes
       DEF StagingFails, CommitFailed, Return, Written, NoAnswer, NoIndex, TypeOK,
           Indexes, Tagged, Ready, Excused, Holds, Removing, Kept, Half, Stored, Drafts,
           Cached, Undone, Swapping, Staged, LockSteps, Bodies, Versions
  <2> QED
    BY <2>1, <2>2, <2>3, <2>4, <2>5, <2>6, <2>7
<1>18. ASSUME NEW a \in Actors, RenameFails(a) PROVE Inv'
  <2>1. TypeOK'
    <3>1. remote' \in [Subs -> Versions] /\ dir' \in [Subs -> Bodies] /\ old' \in [Subs -> Bodies]
      BY <1>18, RecoveredTypes
         DEF RenameFails, CommitFailed, Return, Written, NoAnswer, TypeOK, Bodies,
             Versions, Staged
    <3>2. index' \in Indexes /\ draft' \in Indexes
      BY <1>18
         DEF RenameFails, CommitFailed, Return, Written, NoAnswer, TypeOK, Indexes,
             NoIndex, Bodies
    <3>3. step' \in [Actors -> Steps] /\ op' \in [Actors -> Ops] /\ target' \in [Actors -> Subs \cup {None}]
      BY <1>18 DEF RenameFails, CommitFailed, Return, Written, NoAnswer, TypeOK, Steps, Ops
    <3>4. got' \in [Actors -> [Subs -> Answers]]
      BY <1>18
         DEF RenameFails, CommitFailed, Return, Written, NoAnswer, TypeOK, Answers,
             Bodies, Versions
    <3>5. cache' \in Caches /\ ui' \in Reads
      BY <1>18, RecoveredTypes
         DEF RenameFails, CommitFailed, Return, Written, NoAnswer, TypeOK, Caches,
             Reads, Indexes, Bodies
    <3>6. applied' \in BOOLEAN
      BY <1>18, Zenon DEF RenameFails, CommitFailed, Return, Written, NoAnswer, TypeOK
    <3>7. config' \in Configs /\ lock' \in Actors \cup {"free"}
      BY <1>18, <3>5
         DEF RenameFails, CommitFailed, Return, Written, NoAnswer, TypeOK, Configs,
             Direct, Caches, Indexes, Bodies
    <3>8. gone' \subseteq Subs /\ slips' \subseteq Slips
      BY <1>18 DEF RenameFails, CommitFailed, Return, Written, NoAnswer, TypeOK, Slips, Indexes
    <3> QED
      BY <3>1, <3>2, <3>3, <3>4, <3>5, <3>6, <3>7, <3>8 DEF TypeOK
  <2>2. Staged'
    BY <1>18
       DEF RenameFails, CommitFailed, Return, Written, NoAnswer, NoIndex, TypeOK,
           Indexes, Staged, LockSteps
  <2>3. Fetching'
    BY <1>18
       DEF RenameFails, CommitFailed, Return, Written, NoAnswer, NoIndex, TypeOK,
           Indexes, Fetching, Ready, Drafts, Staged, LockSteps
  <2>4. Kept'
    BY <1>18, RecoveredTypes
       DEF RenameFails, CommitFailed, Return, Written, NoAnswer, NoIndex, TypeOK,
           Indexes, Kept, Stored, Removing, Half, Drafts, Staged, LockSteps, Swapping
  <2>5. Cached'
    BY <1>18, RecoveredTypes
       DEF RenameFails, CommitFailed, Return, Written, NoAnswer, NoIndex, TypeOK,
           Indexes, Cached, CacheIsCurrent, Swapping, Undone, Staged, LockSteps
  <2>6. Built'
    BY <1>18, RecoveredTypes
       DEF RenameFails, CommitFailed, Return, Written, NoAnswer, NoIndex, TypeOK,
           Indexes, Built, Wanted, Undone, Direct, Staged, Kept, Cached, Swapping,
           LockSteps
  <2>7. Tagged'
    <3> SUFFICES ASSUME ~Excused'
                 PROVE  /\ \A s \in index'.listed : Removing(s)' \/ Holds(s, index.tag[s])'
                        /\ \A b \in Actors : step'[b] \in Drafts => \A s \in draft'.listed : Holds(s, draft.tag[s])'
                        /\ \A b \in Actors : step'[b] = "swap" => got'[b][target'[b]] >= old'[target'[b]]
                        /\ \A b \in Actors : \A s \in Subs :
                             Ready(b, s)' /\ ~(step'[b] = "swap" /\ target'[b] = s) => old'[s] = None
      BY DEF Tagged
    <3>1. lock = a /\ ~Excused /\ ~Half /\ \A b \in Actors : b # a => step[b] \notin LockSteps /\ step'[b] = step[b]
      BY <1>18
         DEF RenameFails, CommitFailed, Return, Written, Staged, LockSteps, Excused,
             Half, TypeOK
    <3> DEFINE body == Recovered(dir, old)
               after == Recovered(dir', old')
    <3>2. \A s \in Subs : /\ body[s] = IF dir[s] = None THEN old[s] ELSE dir[s]
                          /\ after[s] = IF dir'[s] = None THEN old'[s] ELSE dir'[s]
      BY <2>1, RecoveredTypes DEF TypeOK
    <3> HIDE DEF body, after

    <3> DEFINE s == target[a]
    <3>3. /\ s \in Subs /\ step[a] = "swap" /\ dir[s] = None
          /\ \/ dir' = [dir EXCEPT ![s] = old[s]] /\ old' = [old EXCEPT ![s] = None]
             \/ UNCHANGED <<dir, old>>
          /\ UNCHANGED index
      BY <1>18 DEF RenameFails, Staged, Kept
    <3>4. \A t \in Subs : after[t] = body[t]
      BY <3>2, <3>3 DEF TypeOK
    <3>5. \A t \in index.listed : Holds(t, index.tag[t])'
      BY <3>1, <3>3, <3>4, Parts DEF Tagged, Holds, Removing, LockSteps, body, after
    <3>6. /\ step'[a] \in {"idle", "write"} /\ (step'[a] = "write" => draft' = draft /\ got'[a][s] = None)
          /\ \A t \in Subs : got'[a][t] = got[a][t] \/ got'[a][t] = None
      <4>1. CommitFailed(a, s)
        BY <1>18 DEF RenameFails
      <4>2. CASE Does(a, "pass")
        BY <3>3, <4>1, <4>2 DEF CommitFailed, Written, TypeOK
      <4>3. CASE ~Does(a, "pass")
        BY <3>3, <4>1, <4>3 DEF CommitFailed, Return, NoAnswer, TypeOK
      <4> QED
        BY <4>2, <4>3
    <3>7. \A b \in Actors : step'[b] \in Drafts => \A t \in draft'.listed : Holds(t, draft.tag[t])'
      BY <3>1, <3>3, <3>4, <3>6, Parts DEF Tagged, Holds, Drafts, LockSteps, body, after
    <3>8. \A b \in Actors : \A t \in Subs : Ready(b, t)' /\ ~(step'[b] = "swap" /\ target'[b] = t) => old'[t] = None
      BY <3>1, <3>3, <3>6 DEF Ready, Versions, LockSteps, TypeOK, Tagged
    <3> QED
      BY <3>1, <3>3, <3>5, <3>6, <3>7, <3>8 DEF LockSteps, Ready
  <2> QED
    BY <2>1, <2>2, <2>3, <2>4, <2>5, <2>6, <2>7
<1>19. ASSUME NEW a \in Actors, BeginRemove(a) PROVE Inv'
  <2>1. TypeOK'
    <3>1. remote' \in [Subs -> Versions] /\ dir' \in [Subs -> Bodies] /\ old' \in [Subs -> Bodies]
      BY <1>19, RecoveredTypes
         DEF BeginRemove, Begin, NoAnswer, TypeOK, Bodies, Versions, Staged
    <3>2. index' \in Indexes /\ draft' \in Indexes
      BY <1>19 DEF BeginRemove, Begin, NoAnswer, TypeOK, Indexes, NoIndex, Bodies
    <3>3. step' \in [Actors -> Steps] /\ op' \in [Actors -> Ops] /\ target' \in [Actors -> Subs \cup {None}]
      <4>1. PICK s \in index.listed : /\ target' = [target EXCEPT ![a] = s]
        BY <1>19 DEF BeginRemove
      <4>2. s \in Subs
        BY <4>1, Parts
      <4> QED
        BY <1>19, <4>1, <4>2 DEF BeginRemove, Begin, TypeOK, Steps, Ops
    <3>4. got' \in [Actors -> [Subs -> Answers]]
      BY <1>19 DEF BeginRemove, Begin, NoAnswer, TypeOK, Answers, Bodies, Versions
    <3>5. cache' \in Caches /\ ui' \in Reads
      BY <1>19, RecoveredTypes
         DEF BeginRemove, Begin, NoAnswer, TypeOK, Caches, Reads, Indexes, Bodies
    <3>6. applied' \in BOOLEAN
      BY <1>19, Zenon DEF BeginRemove, Begin, NoAnswer, TypeOK
    <3>7. config' \in Configs /\ lock' \in Actors \cup {"free"}
      BY <1>19, <3>5
         DEF BeginRemove, Begin, NoAnswer, TypeOK, Configs, Direct, Caches, Indexes,
             Bodies
    <3>8. gone' \subseteq Subs /\ slips' \subseteq Slips
      BY <1>19 DEF BeginRemove, Begin, NoAnswer, TypeOK, Slips, Indexes
    <3> QED
      BY <3>1, <3>2, <3>3, <3>4, <3>5, <3>6, <3>7, <3>8 DEF TypeOK
  <2>2. Staged'
    BY <1>19 DEF BeginRemove, Begin, NoAnswer, NoIndex, TypeOK, Indexes, Staged, LockSteps
  <2>3. Fetching'
    BY <1>19
       DEF BeginRemove, Begin, NoAnswer, NoIndex, TypeOK, Indexes, Fetching, Ready,
           Drafts, Staged, LockSteps
  <2>4. Kept'
    BY <1>19, RecoveredTypes
       DEF BeginRemove, Begin, NoAnswer, NoIndex, TypeOK, Indexes, Kept, Stored,
           Removing, Half, Drafts, Staged, LockSteps, Swapping
  <2>5. Cached'
    BY <1>19, RecoveredTypes
       DEF BeginRemove, Begin, NoAnswer, NoIndex, TypeOK, Indexes, Cached,
           CacheIsCurrent, Swapping, Undone, Staged, LockSteps
  <2>6. Built'
    BY <1>19, RecoveredTypes
       DEF BeginRemove, Begin, NoAnswer, NoIndex, TypeOK, Indexes, Built, Wanted,
           Undone, Direct, Staged, Kept, Cached, Swapping, LockSteps
  <2>7. Tagged'
    BY <1>19, RecoveredTypes
       DEF BeginRemove, Begin, NoAnswer, NoIndex, TypeOK, Indexes, Tagged, Ready,
           Excused, Holds, Removing, Kept, Half, Stored, Drafts, Cached, Undone,
           Swapping, Staged, LockSteps, Bodies, Versions
  <2> QED
    BY <2>1, <2>2, <2>3, <2>4, <2>5, <2>6, <2>7
<1>20. ASSUME NEW a \in Actors, RemoveDir(a) PROVE Inv'
  <2>1. TypeOK'
    <3>1. remote' \in [Subs -> Versions] /\ dir' \in [Subs -> Bodies] /\ old' \in [Subs -> Bodies]
      BY <1>20, RecoveredTypes DEF RemoveDir, NoAnswer, TypeOK, Bodies, Versions, Staged
    <3>2. index' \in Indexes /\ draft' \in Indexes
      BY <1>20 DEF RemoveDir, NoAnswer, TypeOK, Indexes, NoIndex, Bodies
    <3>3. step' \in [Actors -> Steps] /\ op' \in [Actors -> Ops] /\ target' \in [Actors -> Subs \cup {None}]
      BY <1>20 DEF RemoveDir, NoAnswer, TypeOK, Steps, Ops
    <3>4. got' \in [Actors -> [Subs -> Answers]]
      BY <1>20 DEF RemoveDir, NoAnswer, TypeOK, Answers, Bodies, Versions
    <3>5. cache' \in Caches /\ ui' \in Reads
      BY <1>20, RecoveredTypes DEF RemoveDir, NoAnswer, TypeOK, Caches, Reads, Indexes, Bodies
    <3>6. applied' \in BOOLEAN
      BY <1>20, Zenon DEF RemoveDir, NoAnswer, TypeOK
    <3>7. config' \in Configs /\ lock' \in Actors \cup {"free"}
      BY <1>20, <3>5 DEF RemoveDir, NoAnswer, TypeOK, Configs, Direct, Caches, Indexes, Bodies
    <3>8. gone' \subseteq Subs /\ slips' \subseteq Slips
      BY <1>20 DEF RemoveDir, NoAnswer, TypeOK, Slips, Indexes
    <3> QED
      BY <3>1, <3>2, <3>3, <3>4, <3>5, <3>6, <3>7, <3>8 DEF TypeOK
  <2>2. Staged'
    BY <1>20 DEF RemoveDir, NoAnswer, NoIndex, TypeOK, Indexes, Staged, LockSteps
  <2>3. Fetching'
    BY <1>20
       DEF RemoveDir, NoAnswer, NoIndex, TypeOK, Indexes, Fetching, Ready, Drafts,
           Staged, LockSteps
  <2>4. Kept'
    <3> DEFINE s == target[a]
    <3>1. /\ lock = a /\ s \in index.listed /\ s \in Subs /\ op[a] = "remove" /\ step[a] = "remove"
          /\ step' = [step EXCEPT ![a] = "save"] /\ draft'.listed = index.listed \ {s}
          /\ UNCHANGED <<index, op, target, slips>>
      BY <1>20, Parts DEF RemoveDir, Staged, LockSteps
    <3>2. \A b \in Actors : b # a => step[b] \notin LockSteps /\ step'[b] = step[b]
      BY <3>1 DEF Staged, TypeOK
    <3>3. \A b \in Actors : step[b] # "save" /\ step'[b] # "swap"
      BY <3>1, <3>2 DEF LockSteps, TypeOK
    <3>4. \A t \in Subs \ {s} : Stored(t) => Stored(t)'
      <4>1. [dir EXCEPT ![s] = None] \in [Subs -> Bodies]
        BY DEF TypeOK, Bodies
      <4> DEFINE d == [dir EXCEPT ![s] = None]
      <4>2. dir' = Recovered(d, old) /\ old \in [Subs -> Bodies] /\ \A t \in Subs \ {s} : d[t] = dir[t]
        BY <1>20 DEF RemoveDir, TypeOK
      <4> HIDE DEF d
      <4>3. \A t \in Subs : dir'[t] = IF d[t] = None THEN old[t] ELSE d[t]
        BY <4>1, <4>2, RecoveredTypes DEF d
      <4> QED
        BY <4>2, <4>3 DEF Stored
    <3>5. ~Half => \A t \in index.listed \ {s} : Stored(t)'
      BY <3>3, <3>4, Parts DEF Kept, Removing
    <3>6. Removing(s)'
      BY <3>1 DEF Removing, TypeOK
    <3>7. \A b \in Actors : step'[b] \in Drafts => b = a
      BY <3>2 DEF Drafts, LockSteps
    <3> QED
      BY <3>1, <3>3, <3>5, <3>6, <3>7 DEF Kept, Half
  <2>5. Cached'
    <3>1. lock = a /\ target[a] \in Subs /\ UNCHANGED <<cache, ui, slips>>
      BY <1>20, Parts DEF RemoveDir, Staged, LockSteps
    <3>2. [dir EXCEPT ![target[a]] = None] \in [Subs -> Bodies]
      BY DEF TypeOK, Bodies
    <3>3. \A t \in Subs : dir'[t] = (IF t = target[a] \/ dir[t] = None THEN old[t] ELSE dir[t])
      <4> DEFINE d == [dir EXCEPT ![target[a]] = None]
      <4>1. /\ dir' = Recovered(d, old) /\ old \in [Subs -> Bodies]
            /\ \A t \in Subs : d[t] = IF t = target[a] THEN None ELSE dir[t]
        BY <1>20, <3>1 DEF RemoveDir, TypeOK
      <4> HIDE DEF d
      <4>2. \A t \in Subs : dir'[t] = IF d[t] = None THEN old[t] ELSE d[t]
        BY <3>2, <4>1, RecoveredTypes DEF d
      <4> QED
        BY <4>1, <4>2
    <3>4. \A t \in Subs : old[t] # None => Undone
      BY <1>20, <3>1 DEF RemoveDir, Cached, Swapping, Staged, LockSteps
    <3>5. CacheIsCurrent'
      BY <3>1, <3>3, <3>4 DEF Cached, CacheIsCurrent, Undone
    <3>6. \A t \in Subs : old'[t] = None
      BY <1>20 DEF RemoveDir, NoAnswer
    <3> QED
      BY <3>1, <3>5, <3>6 DEF Cached
  <2>6. Built'
    BY <1>20, RecoveredTypes
       DEF RemoveDir, NoAnswer, NoIndex, TypeOK, Indexes, Built, Wanted, Undone, Direct,
           Staged, Kept, Cached, Swapping, LockSteps
  <2>7. Tagged'
    <3> SUFFICES ASSUME ~Excused'
                 PROVE  /\ \A s \in index'.listed : Removing(s)' \/ Holds(s, index.tag[s])'
                        /\ \A b \in Actors : step'[b] \in Drafts => \A s \in draft'.listed : Holds(s, draft.tag[s])'
                        /\ \A b \in Actors : step'[b] = "swap" => got'[b][target'[b]] >= old'[target'[b]]
                        /\ \A b \in Actors : \A s \in Subs :
                             Ready(b, s)' /\ ~(step'[b] = "swap" /\ target'[b] = s) => old'[s] = None
      BY DEF Tagged
    <3>1. lock = a /\ ~Excused /\ ~Half /\ \A b \in Actors : b # a => step[b] \notin LockSteps /\ step'[b] = step[b]
      BY <1>20 DEF RemoveDir, Staged, LockSteps, Excused, Half, TypeOK
    <3> DEFINE body == Recovered(dir, old)
               after == Recovered(dir', old')
    <3>2. \A s \in Subs : /\ body[s] = IF dir[s] = None THEN old[s] ELSE dir[s]
                          /\ after[s] = IF dir'[s] = None THEN old'[s] ELSE dir'[s]
      BY <2>1, RecoveredTypes DEF TypeOK
    <3> HIDE DEF body, after

    <3> DEFINE s == target[a]
    <3>3. /\ s \in index.listed /\ s \in Subs /\ op[a] = "remove" /\ step[a] = "remove"
          /\ step' = [step EXCEPT ![a] = "save"] /\ UNCHANGED <<index, op, target>>
          /\ draft'.listed = index.listed \ {s} /\ draft'.tag = [index.tag EXCEPT ![s] = None]
      BY <1>20, Parts DEF RemoveDir, Staged
    <3>4. \A t \in Subs : t # s => after[t] = body[t]
      <4> DEFINE d == [dir EXCEPT ![s] = None]
      <4>1. dir' = Recovered(d, old) /\ d \in [Subs -> Bodies] /\ \A t \in Subs : t # s => d[t] = dir[t]
        BY <1>20 DEF RemoveDir, TypeOK, Bodies
      <4>2. \A t \in Subs : old'[t] = None
        BY <1>20 DEF RemoveDir, NoAnswer
      <4> HIDE DEF d
      <4>3. \A t \in Subs : dir'[t] = IF d[t] = None THEN old[t] ELSE d[t]
        BY <4>1, RecoveredTypes DEF TypeOK
      <4> QED
        BY <3>2, <4>1, <4>2, <4>3
    <3>5. Removing(s)'
      BY <3>3 DEF Removing, TypeOK
    <3>6. \A t \in index.listed \ {s} : Holds(t, index.tag[t])
      BY <3>1, <3>3 DEF Tagged, Removing, LockSteps
    <3>7. \A t \in index.listed \ {s} : Holds(t, index.tag[t])' /\ Holds(t, draft.tag[t])'
      BY <3>3, <3>4, <3>6, Parts DEF Holds, body, after
    <3> QED
      BY <3>1, <3>3, <3>5, <3>7 DEF LockSteps, Drafts, Ready, TypeOK
  <2> QED
    BY <2>1, <2>2, <2>3, <2>4, <2>5, <2>6, <2>7
<1>21. ASSUME NEW a \in Actors, RemoveDirFails(a) PROVE Inv'
  <2>1. TypeOK'
    <3>1. remote' \in [Subs -> Versions] /\ dir' \in [Subs -> Bodies] /\ old' \in [Subs -> Bodies]
      BY <1>21, RecoveredTypes
         DEF RemoveDirFails, Return, NoAnswer, TypeOK, Bodies, Versions, Staged
    <3>2. index' \in Indexes /\ draft' \in Indexes
      BY <1>21 DEF RemoveDirFails, Return, NoAnswer, TypeOK, Indexes, NoIndex, Bodies
    <3>3. step' \in [Actors -> Steps] /\ op' \in [Actors -> Ops] /\ target' \in [Actors -> Subs \cup {None}]
      BY <1>21 DEF RemoveDirFails, Return, NoAnswer, TypeOK, Steps, Ops
    <3>4. got' \in [Actors -> [Subs -> Answers]]
      BY <1>21 DEF RemoveDirFails, Return, NoAnswer, TypeOK, Answers, Bodies, Versions
    <3>5. cache' \in Caches /\ ui' \in Reads
      BY <1>21, RecoveredTypes
         DEF RemoveDirFails, Return, NoAnswer, TypeOK, Caches, Reads, Indexes, Bodies
    <3>6. applied' \in BOOLEAN
      BY <1>21, Zenon DEF RemoveDirFails, Return, NoAnswer, TypeOK
    <3>7. config' \in Configs /\ lock' \in Actors \cup {"free"}
      BY <1>21, <3>5
         DEF RemoveDirFails, Return, NoAnswer, TypeOK, Configs, Direct, Caches,
             Indexes, Bodies
    <3>8. gone' \subseteq Subs /\ slips' \subseteq Slips
      BY <1>21 DEF RemoveDirFails, Return, NoAnswer, TypeOK, Slips, Indexes
    <3> QED
      BY <3>1, <3>2, <3>3, <3>4, <3>5, <3>6, <3>7, <3>8 DEF TypeOK
  <2>2. Staged'
    BY <1>21 DEF RemoveDirFails, Return, NoAnswer, NoIndex, TypeOK, Indexes, Staged, LockSteps
  <2>3. Fetching'
    BY <1>21
       DEF RemoveDirFails, Return, NoAnswer, NoIndex, TypeOK, Indexes, Fetching, Ready,
           Drafts, Staged, LockSteps
  <2>4. Kept'
    BY <1>21, RecoveredTypes
       DEF RemoveDirFails, Return, NoAnswer, NoIndex, TypeOK, Indexes, Kept, Stored,
           Removing, Half, Drafts, Staged, LockSteps, Swapping
  <2>5. Cached'
    BY <1>21, RecoveredTypes
       DEF RemoveDirFails, Return, NoAnswer, NoIndex, TypeOK, Indexes, Cached,
           CacheIsCurrent, Swapping, Undone, Staged, LockSteps
  <2>6. Built'
    <3> SUFFICES ASSUME applied', ~Undone'
                 PROVE  /\ lock' = "free" => config' = Wanted'
                        /\ \A b \in Actors :
                             /\ step'[b] \in {"remove", "release"} => config' = Wanted'
                             /\ op'[b] # "pass" /\ (\E s \in Subs : step'[b] = "write" /\ got'[b][s] \in Versions)
                                  => config' = Wanted'
      BY DEF Built

    <3>1. UNCHANGED <<dir, old, index, config>>
      <4>1. applied' # FALSE
        BY Zenon
      <4> QED
        BY <1>21, <4>1 DEF RemoveDirFails
    <3>2. applied /\ ~Undone
      <4>1. applied' # FALSE
        BY Zenon
      <4> QED
        BY <1>21, <4>1 DEF RemoveDirFails, Undone
    <3>3. config = Wanted
      BY <1>21, <3>2 DEF RemoveDirFails, Built
    <3> QED
      BY <3>1, <3>3 DEF Wanted
  <2>7. Tagged'
    BY <1>21, RecoveredTypes
       DEF RemoveDirFails, Return, NoAnswer, NoIndex, TypeOK, Indexes, Tagged, Ready,
           Excused, Holds, Removing, Kept, Half, Stored, Drafts, Cached, Undone,
           Swapping, Staged, LockSteps, Bodies, Versions
  <2> QED
    BY <2>1, <2>2, <2>3, <2>4, <2>5, <2>6, <2>7
<1>22. ASSUME NEW a \in Actors, Save(a) PROVE Inv'
  <2>1. TypeOK'
    <3>1. remote' \in [Subs -> Versions] /\ dir' \in [Subs -> Bodies] /\ old' \in [Subs -> Bodies]
      BY <1>22, RecoveredTypes DEF Save, ReadyToSave, NoAnswer, TypeOK, Bodies, Versions, Staged
    <3>2. index' \in Indexes /\ draft' \in Indexes
      BY <1>22 DEF Save, ReadyToSave, NoAnswer, TypeOK, Indexes, NoIndex, Bodies
    <3>3. step' \in [Actors -> Steps] /\ op' \in [Actors -> Ops] /\ target' \in [Actors -> Subs \cup {None}]
      BY <1>22 DEF Save, ReadyToSave, NoAnswer, TypeOK, Steps, Ops
    <3>4. got' \in [Actors -> [Subs -> Answers]]
      BY <1>22 DEF Save, ReadyToSave, NoAnswer, TypeOK, Answers, Bodies, Versions
    <3>5. cache' \in Caches /\ ui' \in Reads
      BY <1>22, RecoveredTypes
         DEF Save, ReadyToSave, NoAnswer, TypeOK, Caches, Reads, Indexes, Bodies
    <3>6. applied' \in BOOLEAN
      BY <1>22, Zenon DEF Save, ReadyToSave, NoAnswer, TypeOK
    <3>7. config' \in Configs /\ lock' \in Actors \cup {"free"}
      BY <1>22, <3>5
         DEF Save, ReadyToSave, NoAnswer, TypeOK, Configs, Direct, Caches, Indexes,
             Bodies
    <3>8. gone' \subseteq Subs /\ slips' \subseteq Slips
      BY <1>22 DEF Save, ReadyToSave, NoAnswer, TypeOK, Slips, Indexes
    <3> QED
      BY <3>1, <3>2, <3>3, <3>4, <3>5, <3>6, <3>7, <3>8 DEF TypeOK
  <2>2. Staged'
    BY <1>22 DEF Save, ReadyToSave, NoAnswer, NoIndex, TypeOK, Indexes, Staged, LockSteps
  <2>3. Fetching'
    BY <1>22
       DEF Save, ReadyToSave, NoAnswer, NoIndex, TypeOK, Indexes, Fetching, Ready,
           Drafts, Staged, LockSteps
  <2>4. Kept'
    BY <1>22, RecoveredTypes
       DEF Save, ReadyToSave, NoAnswer, NoIndex, TypeOK, Indexes, Kept, Stored,
           Removing, Half, Drafts, Staged, LockSteps, Swapping
  <2>5. Cached'
    BY <1>22, RecoveredTypes
       DEF Save, ReadyToSave, NoAnswer, NoIndex, TypeOK, Indexes, Cached,
           CacheIsCurrent, Swapping, Undone, Staged, LockSteps
  <2>6. Built'
    BY <1>22, RecoveredTypes
       DEF Save, ReadyToSave, NoAnswer, NoIndex, TypeOK, Indexes, Built, Wanted, Undone,
           Direct, Staged, Kept, Cached, Swapping, LockSteps
  <2>7. Tagged'
    BY <1>22, RecoveredTypes
       DEF Save, ReadyToSave, NoAnswer, NoIndex, TypeOK, Indexes, Tagged, Ready,
           Excused, Holds, Removing, Kept, Half, Stored, Drafts, Cached, Undone,
           Swapping, Staged, LockSteps, Bodies, Versions
  <2> QED
    BY <2>1, <2>2, <2>3, <2>4, <2>5, <2>6, <2>7
<1>23. ASSUME NEW a \in Actors, SaveFails(a) PROVE Inv'
  <2>1. TypeOK'
    <3>1. remote' \in [Subs -> Versions] /\ dir' \in [Subs -> Bodies] /\ old' \in [Subs -> Bodies]
      BY <1>23, RecoveredTypes
         DEF SaveFails, ReadyToSave, Return, NoAnswer, TypeOK, Bodies, Versions,
             Staged
    <3>2. index' \in Indexes /\ draft' \in Indexes
      BY <1>23 DEF SaveFails, ReadyToSave, Return, NoAnswer, TypeOK, Indexes, NoIndex, Bodies
    <3>3. step' \in [Actors -> Steps] /\ op' \in [Actors -> Ops] /\ target' \in [Actors -> Subs \cup {None}]
      BY <1>23 DEF SaveFails, ReadyToSave, Return, NoAnswer, TypeOK, Steps, Ops
    <3>4. got' \in [Actors -> [Subs -> Answers]]
      BY <1>23 DEF SaveFails, ReadyToSave, Return, NoAnswer, TypeOK, Answers, Bodies, Versions
    <3>5. cache' \in Caches /\ ui' \in Reads
      BY <1>23, RecoveredTypes
         DEF SaveFails, ReadyToSave, Return, NoAnswer, TypeOK, Caches, Reads, Indexes,
             Bodies
    <3>6. applied' \in BOOLEAN
      BY <1>23, Zenon DEF SaveFails, ReadyToSave, Return, NoAnswer, TypeOK
    <3>7. config' \in Configs /\ lock' \in Actors \cup {"free"}
      BY <1>23, <3>5
         DEF SaveFails, ReadyToSave, Return, NoAnswer, TypeOK, Configs, Direct,
             Caches, Indexes, Bodies
    <3>8. gone' \subseteq Subs /\ slips' \subseteq Slips
      BY <1>23 DEF SaveFails, ReadyToSave, Return, NoAnswer, TypeOK, Slips, Indexes
    <3> QED
      BY <3>1, <3>2, <3>3, <3>4, <3>5, <3>6, <3>7, <3>8 DEF TypeOK
  <2>2. Staged'
    BY <1>23
       DEF SaveFails, ReadyToSave, Return, NoAnswer, NoIndex, TypeOK, Indexes, Staged,
           LockSteps
  <2>3. Fetching'
    BY <1>23
       DEF SaveFails, ReadyToSave, Return, NoAnswer, NoIndex, TypeOK, Indexes, Fetching,
           Ready, Drafts, Staged, LockSteps
  <2>4. Kept'
    BY <1>23, RecoveredTypes
       DEF SaveFails, ReadyToSave, Return, NoAnswer, NoIndex, TypeOK, Indexes, Kept,
           Stored, Removing, Half, Drafts, Staged, LockSteps, Swapping
  <2>5. Cached'
    BY <1>23, RecoveredTypes
       DEF SaveFails, ReadyToSave, Return, NoAnswer, NoIndex, TypeOK, Indexes, Cached,
           CacheIsCurrent, Swapping, Undone, Staged, LockSteps
  <2>6. Built'
    <3> SUFFICES ASSUME applied', ~Undone'
                 PROVE  /\ lock' = "free" => config' = Wanted'
                        /\ \A b \in Actors :
                             /\ step'[b] \in {"remove", "release"} => config' = Wanted'
                             /\ op'[b] # "pass" /\ (\E s \in Subs : step'[b] = "write" /\ got'[b][s] \in Versions)
                                  => config' = Wanted'
      BY DEF Built

    <3>1. Does(a, "pass")
      BY <1>23, Zenon DEF SaveFails
    <3>2. lock = a /\ lock' = a /\ applied /\ ~Undone /\ step' = [step EXCEPT ![a] = "generate"]
      BY <1>23, <3>1 DEF SaveFails, ReadyToSave, Staged, LockSteps, Undone
    <3> QED
      BY <1>23, <3>1, <3>2 DEF SaveFails, Staged, LockSteps, TypeOK
  <2>7. Tagged'
    BY <1>23, RecoveredTypes
       DEF SaveFails, ReadyToSave, Return, NoAnswer, NoIndex, TypeOK, Indexes, Tagged,
           Ready, Excused, Holds, Removing, Kept, Half, Stored, Drafts, Cached, Undone,
           Swapping, Staged, LockSteps, Bodies, Versions
  <2> QED
    BY <2>1, <2>2, <2>3, <2>4, <2>5, <2>6, <2>7
<1>24. ASSUME NEW a \in Actors, Generate(a) PROVE Inv'
  <2>1. TypeOK'
    <3>1. remote' \in [Subs -> Versions] /\ dir' \in [Subs -> Bodies] /\ old' \in [Subs -> Bodies]
      BY <1>24, RecoveredTypes
         DEF Generate, LoadIndex, Loaded, Hit, Matches, NoAnswer, TypeOK, Bodies,
             Versions, Staged
    <3>2. index' \in Indexes /\ draft' \in Indexes
      BY <1>24
         DEF Generate, LoadIndex, Loaded, Hit, Matches, NoAnswer, TypeOK, Indexes,
             NoIndex, Bodies
    <3>3. step' \in [Actors -> Steps] /\ op' \in [Actors -> Ops] /\ target' \in [Actors -> Subs \cup {None}]
      BY <1>24 DEF Generate, LoadIndex, Loaded, Hit, Matches, NoAnswer, TypeOK, Steps, Ops
    <3>4. got' \in [Actors -> [Subs -> Answers]]
      BY <1>24
         DEF Generate, LoadIndex, Loaded, Hit, Matches, NoAnswer, TypeOK, Answers,
             Bodies, Versions
    <3>5. cache' \in Caches /\ ui' \in Reads
      <4>1. UNCHANGED cache \/ (index.active \in Subs /\ cache' = Loaded(index.active, TRUE, dir'[index.active]))
        BY <1>24, Parts DEF Generate
      <4>2. CASE index.active \in Subs /\ cache' = Loaded(index.active, TRUE, dir'[index.active])
        <5>1. dir'[index.active] \in Bodies /\ TRUE \in BOOLEAN
          BY <3>1, <4>2
        <5>2. Loaded(index.active, TRUE, dir'[index.active]) \in Caches
          BY <4>2, <5>1, LoadedTypes
        <5> QED
          BY <1>24, <4>2, <5>2 DEF Generate, TypeOK
      <4> QED
        BY <1>24, <4>1, <4>2 DEF Generate, TypeOK
    <3>6. applied' \in BOOLEAN
      BY <1>24, Zenon DEF Generate, LoadIndex, Loaded, Hit, Matches, NoAnswer, TypeOK
    <3>7. config' \in Configs /\ lock' \in Actors \cup {"free"}
      <4>1. cache'.slim \in BOOLEAN /\ cache'.body \in Bodies /\ (~cache'.slim) \in BOOLEAN
        <5>1. cache'.slim \in BOOLEAN /\ cache'.body \in Bodies
          BY <3>5 DEF Caches
        <5> QED
          BY <5>1, Zenon
      <4>2. CASE config' = Direct
        BY <1>24, <4>2 DEF Generate, TypeOK, Direct, Configs, Bodies
      <4>3. CASE index.active \in Subs /\ config' = [sub |-> index.active, body |-> cache'.body, full |-> ~cache'.slim]
        <5>1. config' \in Configs
          BY <4>1, <4>3 DEF Configs
        <5> QED
          BY <1>24, <5>1 DEF Generate, TypeOK
      <4> QED
        BY <1>24, <4>2, <4>3, Parts DEF Generate
    <3>8. gone' \subseteq Subs /\ slips' \subseteq Slips
      BY <1>24 DEF Generate, LoadIndex, Loaded, Hit, Matches, NoAnswer, TypeOK, Slips, Indexes
    <3> QED
      BY <3>1, <3>2, <3>3, <3>4, <3>5, <3>6, <3>7, <3>8 DEF TypeOK
  <2>2. Staged'
    BY <1>24
       DEF Generate, LoadIndex, Loaded, Hit, Matches, NoAnswer, NoIndex, TypeOK,
           Indexes, Staged, LockSteps
  <2>3. Fetching'
    BY <1>24
       DEF Generate, LoadIndex, Loaded, Hit, Matches, NoAnswer, NoIndex, TypeOK,
           Indexes, Fetching, Ready, Drafts, Staged, LockSteps
  <2>4. Kept'
    BY <1>24, RecoveredTypes
       DEF Generate, LoadIndex, Loaded, Hit, Matches, NoAnswer, NoIndex, TypeOK,
           Indexes, Kept, Stored, Removing, Half, Drafts, Staged, LockSteps, Swapping
  <2>5. Cached'
    BY <1>24, RecoveredTypes
       DEF Generate, LoadIndex, Loaded, Hit, Matches, NoAnswer, NoIndex, TypeOK,
           Indexes, Cached, CacheIsCurrent, Swapping, Undone, Staged, LockSteps
  <2>6. Built'
    <3> SUFFICES ASSUME applied', ~Undone'
                 PROVE  /\ lock' = "free" => config' = Wanted'
                        /\ \A b \in Actors :
                             /\ step'[b] \in {"remove", "release"} => config' = Wanted'
                             /\ op'[b] # "pass" /\ (\E s \in Subs : step'[b] = "write" /\ got'[b][s] \in Versions)
                                  => config' = Wanted'
      BY DEF Built

    <3>1. lock = a /\ lock' = a /\ step' = [step EXCEPT ![a] = "release"] /\ ~Undone
      BY <1>24 DEF Generate, Staged, LockSteps, Undone
    <3>2. config' = Wanted'
      <4>1. CASE index.active = None
        BY <1>24, <4>1 DEF Generate, Wanted
      <4>2. CASE index.active # None
        <5> DEFINE s == index.active
        <5>1. s \in Subs /\ dir'[s] # None /\ cache' = Loaded(s, TRUE, dir'[s])
              /\ config' = [sub |-> s, body |-> cache'.body, full |-> ~cache'.slim] /\ dir' = Recovered(dir, old) /\ old' = NoAnswer
          BY <1>24, <4>2, Parts DEF Generate, LoadIndex
        <5>2. Recovered(dir', old')[s] = dir'[s]
          BY <2>1, <5>1, RecoveredTypes DEF TypeOK
        <5>3. cache'.slim = FALSE /\ cache'.body = dir'[s]
          <6>1. CASE Hit(s, TRUE)
            <7>1. cache' = cache /\ cache.sub = s /\ cache.fits /\ cache.slim = FALSE
              BY <5>1, <6>1, Parts DEF Loaded, Hit, Matches
            <7>2. dir[s] # None
              BY <1>24, <3>1, <5>1, RecoveredTypes
                 DEF Generate, LoadIndex, Cached, Undone, TypeOK
            <7>3. dir'[s] = dir[s]
              BY <5>1, <7>2, RecoveredTypes DEF TypeOK
            <7>4. cache.body = dir[s]
              BY <3>1, <7>1, <7>2 DEF Cached, CacheIsCurrent, Undone
            <7> QED
              BY <7>1, <7>3, <7>4
          <6>2. CASE ~Hit(s, TRUE)
            BY <5>1, <6>2 DEF Loaded
          <6> QED
            BY <6>1, <6>2
        <5>4. Wanted' = [sub |-> s, body |-> dir'[s], full |-> TRUE]
          BY <1>24, <4>2, <5>2 DEF Generate, Wanted
        <5> QED
          BY <5>1, <5>3, <5>4
      <4> QED
        BY <4>1, <4>2
    <3> QED
      BY <3>2
  <2>7. Tagged'
    BY <1>24, RecoveredTypes
       DEF Generate, LoadIndex, Loaded, Hit, Matches, NoAnswer, NoIndex, TypeOK,
           Indexes, Tagged, Ready, Excused, Holds, Removing, Kept, Half, Stored, Drafts,
           Cached, Undone, Swapping, Staged, LockSteps, Bodies, Versions
  <2> QED
    BY <2>1, <2>2, <2>3, <2>4, <2>5, <2>6, <2>7
<1>25. ASSUME NEW a \in Actors, GenerateFails(a) PROVE Inv'
  <2>1. TypeOK'
    <3>1. remote' \in [Subs -> Versions] /\ dir' \in [Subs -> Bodies] /\ old' \in [Subs -> Bodies]
      BY <1>25, RecoveredTypes
         DEF GenerateFails, LoadIndex, NoAnswer, TypeOK, Bodies, Versions, Staged
    <3>2. index' \in Indexes /\ draft' \in Indexes
      BY <1>25 DEF GenerateFails, LoadIndex, NoAnswer, TypeOK, Indexes, NoIndex, Bodies
    <3>3. step' \in [Actors -> Steps] /\ op' \in [Actors -> Ops] /\ target' \in [Actors -> Subs \cup {None}]
      BY <1>25 DEF GenerateFails, LoadIndex, NoAnswer, TypeOK, Steps, Ops
    <3>4. got' \in [Actors -> [Subs -> Answers]]
      BY <1>25 DEF GenerateFails, LoadIndex, NoAnswer, TypeOK, Answers, Bodies, Versions
    <3>5. cache' \in Caches /\ ui' \in Reads
      BY <1>25, RecoveredTypes
         DEF GenerateFails, LoadIndex, NoAnswer, TypeOK, Caches, Reads, Indexes,
             Bodies
    <3>6. applied' \in BOOLEAN
      BY <1>25, Zenon DEF GenerateFails, LoadIndex, NoAnswer, TypeOK
    <3>7. config' \in Configs /\ lock' \in Actors \cup {"free"}
      BY <1>25, <3>5
         DEF GenerateFails, LoadIndex, NoAnswer, TypeOK, Configs, Direct, Caches,
             Indexes, Bodies
    <3>8. gone' \subseteq Subs /\ slips' \subseteq Slips
      BY <1>25 DEF GenerateFails, LoadIndex, NoAnswer, TypeOK, Slips, Indexes
    <3> QED
      BY <3>1, <3>2, <3>3, <3>4, <3>5, <3>6, <3>7, <3>8 DEF TypeOK
  <2>2. Staged'
    BY <1>25 DEF GenerateFails, LoadIndex, NoAnswer, NoIndex, TypeOK, Indexes, Staged, LockSteps
  <2>3. Fetching'
    BY <1>25
       DEF GenerateFails, LoadIndex, NoAnswer, NoIndex, TypeOK, Indexes, Fetching,
           Ready, Drafts, Staged, LockSteps
  <2>4. Kept'
    BY <1>25, RecoveredTypes
       DEF GenerateFails, LoadIndex, NoAnswer, NoIndex, TypeOK, Indexes, Kept, Stored,
           Removing, Half, Drafts, Staged, LockSteps, Swapping
  <2>5. Cached'
    BY <1>25, RecoveredTypes
       DEF GenerateFails, LoadIndex, NoAnswer, NoIndex, TypeOK, Indexes, Cached,
           CacheIsCurrent, Swapping, Undone, Staged, LockSteps
  <2>6. Built'
    BY <1>25, RecoveredTypes
       DEF GenerateFails, LoadIndex, NoAnswer, NoIndex, TypeOK, Indexes, Built, Wanted,
           Undone, Direct, Staged, Kept, Cached, Swapping, LockSteps
  <2>7. Tagged'
    BY <1>25, RecoveredTypes
       DEF GenerateFails, LoadIndex, NoAnswer, NoIndex, TypeOK, Indexes, Tagged, Ready,
           Excused, Holds, Removing, Kept, Half, Stored, Drafts, Cached, Undone,
           Swapping, Staged, LockSteps, Bodies, Versions
  <2> QED
    BY <2>1, <2>2, <2>3, <2>4, <2>5, <2>6, <2>7
<1>26. ASSUME NEW a \in Actors, Release(a) PROVE Inv'
  <2>1. TypeOK'
    <3>1. remote' \in [Subs -> Versions] /\ dir' \in [Subs -> Bodies] /\ old' \in [Subs -> Bodies]
      BY <1>26, RecoveredTypes DEF Release, Return, NoAnswer, TypeOK, Bodies, Versions, Staged
    <3>2. index' \in Indexes /\ draft' \in Indexes
      BY <1>26 DEF Release, Return, NoAnswer, TypeOK, Indexes, NoIndex, Bodies
    <3>3. step' \in [Actors -> Steps] /\ op' \in [Actors -> Ops] /\ target' \in [Actors -> Subs \cup {None}]
      BY <1>26 DEF Release, Return, NoAnswer, TypeOK, Steps, Ops
    <3>4. got' \in [Actors -> [Subs -> Answers]]
      BY <1>26 DEF Release, Return, NoAnswer, TypeOK, Answers, Bodies, Versions
    <3>5. cache' \in Caches /\ ui' \in Reads
      BY <1>26, RecoveredTypes
         DEF Release, Return, NoAnswer, TypeOK, Caches, Reads, Indexes, Bodies
    <3>6. applied' \in BOOLEAN
      BY <1>26, Zenon DEF Release, Return, NoAnswer, TypeOK
    <3>7. config' \in Configs /\ lock' \in Actors \cup {"free"}
      BY <1>26, <3>5
         DEF Release, Return, NoAnswer, TypeOK, Configs, Direct, Caches, Indexes,
             Bodies
    <3>8. gone' \subseteq Subs /\ slips' \subseteq Slips
      BY <1>26 DEF Release, Return, NoAnswer, TypeOK, Slips, Indexes
    <3> QED
      BY <3>1, <3>2, <3>3, <3>4, <3>5, <3>6, <3>7, <3>8 DEF TypeOK
  <2>2. Staged'
    BY <1>26 DEF Release, Return, NoAnswer, NoIndex, TypeOK, Indexes, Staged, LockSteps
  <2>3. Fetching'
    BY <1>26
       DEF Release, Return, NoAnswer, NoIndex, TypeOK, Indexes, Fetching, Ready, Drafts,
           Staged, LockSteps
  <2>4. Kept'
    BY <1>26, RecoveredTypes
       DEF Release, Return, NoAnswer, NoIndex, TypeOK, Indexes, Kept, Stored, Removing,
           Half, Drafts, Staged, LockSteps, Swapping
  <2>5. Cached'
    BY <1>26, RecoveredTypes
       DEF Release, Return, NoAnswer, NoIndex, TypeOK, Indexes, Cached, CacheIsCurrent,
           Swapping, Undone, Staged, LockSteps
  <2>6. Built'
    BY <1>26, RecoveredTypes
       DEF Release, Return, NoAnswer, NoIndex, TypeOK, Indexes, Built, Wanted, Undone,
           Direct, Staged, Kept, Cached, Swapping, LockSteps
  <2>7. Tagged'
    BY <1>26, RecoveredTypes
       DEF Release, Return, NoAnswer, NoIndex, TypeOK, Indexes, Tagged, Ready, Excused,
           Holds, Removing, Kept, Half, Stored, Drafts, Cached, Undone, Swapping,
           Staged, LockSteps, Bodies, Versions
  <2> QED
    BY <2>1, <2>2, <2>3, <2>4, <2>5, <2>6, <2>7
<1>27. CASE UNCHANGED vars
  BY <1>27
     DEF vars, TypeOK, Staged, Fetching, Kept, Cached, Built, LockSteps, Ready, Drafts,
         Stored, Removing, Undone, Half, Swapping, CacheIsCurrent, Wanted, Tagged,
         Excused, Holds
<1> QED
  BY <1>1, <1>2, <1>3, <1>4, <1>5, <1>6, <1>7, <1>8, <1>9, <1>10, <1>11, <1>12, <1>13,
     <1>14, <1>15, <1>16, <1>17, <1>18, <1>19, <1>20, <1>21, <1>22, <1>23, <1>24, <1>25,
     <1>26, <1>27
     DEF Next, UserBegins, Commit, Remove, Finish, Read

(* Who holds the lock, what may be written for whom, where the content is, *)
(* and what was built, at every step.                                      *)
THEOREM SubscriptionInvariant == Spec => []Inv
<1>1. Inv /\ UNCHANGED vars => Inv'
  BY Preserved
<1> QED
  BY Initially, Preserved, PTL DEF Spec

(* Every variable keeps its type: whatever the two actors and the UI's     *)
(* readers do, and wherever the app is killed.                             *)
THEOREM TypeCorrect == Spec => []TypeOK
<1>1. Inv => TypeOK
  BY DEF Inv
<1> QED
  BY <1>1, SubscriptionInvariant, PTL

(* A removed id never comes back, for any number of subscriptions, fetches *)
(* and crashes (apply_update, apply_all).                                  *)
THEOREM NoneComesBack == Spec => []NoneResurrected
<1>1. Inv => NoneResurrected
  BY DEF Inv, Fetching, NoneResurrected
<1> QED
  BY <1>1, SubscriptionInvariant, PTL

(* What a listed subscription stored is on disk at every step of its       *)
(* replacement (commit_staged_subscription, remove_subscription).          *)
THEOREM ContentKept == Spec => []ContentSurvives
<1>1. Inv => ContentSurvives
  BY DEF Inv, Kept, Half, Stored, Removing, ContentSurvives, BeingRemoved, Does
<1> QED
  BY <1>1, SubscriptionInvariant, PTL

(* The parsed profile is what its file says (ProfileCache).                *)
THEOREM CacheFollows == Spec => []CacheIsCurrent
<1>1. Inv => CacheIsCurrent
  BY DEF Inv, Cached
<1> QED
  BY <1>1, SubscriptionInvariant, PTL

(* A 304 never stands for a body that was not stored                       *)
(* (apply_success_to_index).                                               *)
THEOREM TagsFollow == Spec => []TagNeverAhead
<1>1. Inv => TagNeverAhead
  <2> SUFFICES ASSUME Inv, ~Excused, NEW s \in index.listed, index.tag[s] # None, ~BeingRemoved(s)
               PROVE  Recovered(dir, old)[s] >= index.tag[s]
    BY DEF TagNeverAhead, Excused
  <2> QED
    BY DEF Inv, Tagged, Holds, Removing, BeingRemoved, Does
<1> QED
  BY <1>1, SubscriptionInvariant, PTL

(* The configuration was built from what is on disk, whole, whenever the   *)
(* lock is free and no error was reported (apply_after_subscription_change).*)
THEOREM ConfigAlwaysFollows == Spec => []ConfigFollows
<1>1. Inv => ConfigFollows
  BY DEF Inv, Built, Undone, ConfigFollows
<1> QED
  BY <1>1, SubscriptionInvariant, PTL
-----------------------------------------------------------------------------
(***************************************************************************)
(* The abstract store                                                      *)
(***************************************************************************)

(* No subscription is in both of its directories; what is to be written    *)
(* finds no leftover.                                                      *)
Single == \A s \in Subs : dir[s] = None \/ old[s] = None
Fresh ==
  \A a \in Actors : \A s \in Subs :
    Ready(a, s) /\ ~(step[a] = "swap" /\ target[a] = s) => old[s] = None

(* What was fetched was served.                                            *)
Served ==
  \A a \in Actors : \A s \in Subs : got[a][s] \in Versions => got[a][s] <= remote[s]

(* A draft adds the one id whose body it has stored, or takes off the one  *)
(* whose removal was ordered, or has the ids of the index.                 *)
Drafted ==
  /\ op["user"] # "pass"
  /\ \A a \in Actors :
    /\ step[a] \in {"write", "swap"} =>
         \/ draft.listed = index.listed
         \/ /\ a = "user" /\ target[a] \in Subs \ gone
            /\ Recovered(dir, old)[target[a]] # None
            /\ draft.listed = index.listed \cup {target[a]}
    /\ step[a] = "save" =>
         draft.listed = IF op[a] = "remove" THEN index.listed \ {target[a]} ELSE index.listed

StoreInv == Single /\ Fresh /\ Served /\ Drafted

LEMMA StoreInitially == Init => StoreInv
BY NoneAssumption, MaxVersionAssumption
   DEF Init, NoAnswer, NoIndex, StoreInv, Single, Fresh, Ready, Served, Drafted, Versions, Actors

(* load_index changes what is in which directory, not what is kept.        *)
LEMMA Loads ==
  ASSUME TypeOK, LoadIndex
  PROVE  Recovered(dir, old)' = Recovered(dir, old) /\ \A s \in Subs : old'[s] = None
BY DEF TypeOK, LoadIndex, Recovered, NoAnswer

LEMMA StorePreserved == Inv /\ StoreInv /\ [Next]_vars => StoreInv'
<1> SUFFICES ASSUME Inv, StoreInv, [Next]_vars PROVE StoreInv'
  OBVIOUS
<1> USE NoneAssumption, MaxVersionAssumption
    DEF Inv, StoreInv, disk, actors, built, memory, history, At, Goto, Does, Can, Actors
<1>1. CASE ProviderChanges
  <2>1. Single' /\ Fresh'
    BY <1>1
       DEF ProviderChanges, NoAnswer, NoIndex, TypeOK, Indexes, Single, Fresh, Ready,
           Staged, LockSteps
  <2>2. Served'
    BY <1>1
       DEF ProviderChanges, NoAnswer, NoIndex, TypeOK, Indexes, Served, Versions,
           Answers, Bodies
  <2>3. Drafted'
    BY <1>1, RecoveredTypes
       DEF ProviderChanges, NoAnswer, NoIndex, TypeOK, Indexes, Drafted, Ready, Staged,
           LockSteps, Single
  <2> QED
    BY <2>1, <2>2, <2>3
<1>2. CASE FetchAdd
  <2>1. Single' /\ Fresh'
    BY <1>2
       DEF FetchAdd, Begin, NoAnswer, NoIndex, TypeOK, Indexes, Single, Fresh, Ready,
           Staged, LockSteps
  <2>2. Served'
    BY <1>2
       DEF FetchAdd, Begin, NoAnswer, NoIndex, TypeOK, Indexes, Served, Versions,
           Answers, Bodies
  <2>3. Drafted'
    BY <1>2, RecoveredTypes
       DEF FetchAdd, Begin, NoAnswer, NoIndex, TypeOK, Indexes, Drafted, Ready, Staged,
           LockSteps, Single
  <2> QED
    BY <2>1, <2>2, <2>3
<1>3. CASE FetchUpdate
  <2>0. Recovered(dir, old)' = Recovered(dir, old) /\ \A s \in Subs : old'[s] = None
    BY <1>3, Loads DEF FetchUpdate
  <2>1. Single' /\ Fresh'
    BY <1>3, <2>0
       DEF FetchUpdate, Begin, Fetched, NoAnswer, NoIndex, TypeOK, Indexes, Single,
           Fresh, Ready, Staged, LockSteps
  <2>2. Served'
    BY <1>3, <2>0
       DEF FetchUpdate, Begin, Fetched, NoAnswer, NoIndex, TypeOK, Indexes, Served,
           Versions, Answers, Bodies
  <2>3. Drafted'
    BY <1>3, <2>0
       DEF FetchUpdate, Begin, Fetched, NoAnswer, NoIndex, TypeOK, Indexes, Drafted,
           Ready, Staged, LockSteps, Single
  <2> QED
    BY <2>1, <2>2, <2>3
<1>4. CASE BeginActivate
  <2>0. Recovered(dir, old)' = Recovered(dir, old) /\ \A s \in Subs : old'[s] = None
    BY <1>4, Loads DEF BeginActivate
  <2>1. Single' /\ Fresh'
    BY <1>4, <2>0
       DEF BeginActivate, Begin, NoAnswer, NoIndex, TypeOK, Indexes, Single, Fresh,
           Ready, Staged, LockSteps
  <2>2. Served'
    BY <1>4, <2>0
       DEF BeginActivate, Begin, NoAnswer, NoIndex, TypeOK, Indexes, Served, Versions,
           Answers, Bodies
  <2>3. Drafted'
    BY <1>4, <2>0
       DEF BeginActivate, Begin, NoAnswer, NoIndex, TypeOK, Indexes, Drafted, Ready,
           Staged, LockSteps, Single
  <2> QED
    BY <2>1, <2>2, <2>3
<1>5. CASE BeginApply
  <2>1. Single' /\ Fresh'
    BY <1>5
       DEF BeginApply, Begin, NoAnswer, NoIndex, TypeOK, Indexes, Single, Fresh, Ready,
           Staged, LockSteps
  <2>2. Served'
    BY <1>5
       DEF BeginApply, Begin, NoAnswer, NoIndex, TypeOK, Indexes, Served, Versions,
           Answers, Bodies
  <2>3. Drafted'
    BY <1>5, RecoveredTypes
       DEF BeginApply, Begin, NoAnswer, NoIndex, TypeOK, Indexes, Drafted, Ready,
           Staged, LockSteps, Single
  <2> QED
    BY <2>1, <2>2, <2>3
<1>6. CASE FetchDue
  <2>0. Recovered(dir, old)' = Recovered(dir, old) /\ \A s \in Subs : old'[s] = None
    BY <1>6, Loads DEF FetchDue
  <2>1. Single' /\ Fresh'
    BY <1>6, <2>0
       DEF FetchDue, Begin, Fetched, NoAnswer, NoIndex, TypeOK, Indexes, Single, Fresh,
           Ready, Staged, LockSteps
  <2>2. Served'
    BY <1>6, <2>0
       DEF FetchDue, Begin, Fetched, NoAnswer, NoIndex, TypeOK, Indexes, Served,
           Versions, Answers, Bodies
  <2>3. Drafted'
    BY <1>6, <2>0
       DEF FetchDue, Begin, Fetched, NoAnswer, NoIndex, TypeOK, Indexes, Drafted, Ready,
           Staged, LockSteps, Single
  <2> QED
    BY <2>1, <2>2, <2>3
<1>7. CASE Defer
  <2>1. Single' /\ Fresh'
    BY <1>7
       DEF Defer, NoAnswer, NoIndex, TypeOK, Indexes, Single, Fresh, Ready, Staged,
           LockSteps
  <2>2. Served'
    BY <1>7
       DEF Defer, NoAnswer, NoIndex, TypeOK, Indexes, Served, Versions, Answers, Bodies
  <2>3. Drafted'
    BY <1>7, RecoveredTypes
       DEF Defer, NoAnswer, NoIndex, TypeOK, Indexes, Drafted, Ready, Staged, LockSteps,
           Single
  <2> QED
    BY <2>1, <2>2, <2>3
<1>8. CASE UpdateGone
  <2>0. Recovered(dir, old)' = Recovered(dir, old) /\ \A s \in Subs : old'[s] = None
    BY <1>8, Loads DEF UpdateGone
  <2>1. Single' /\ Fresh'
    BY <1>8, <2>0
       DEF UpdateGone, Return, NoAnswer, NoIndex, TypeOK, Indexes, Single, Fresh, Ready,
           Staged, LockSteps
  <2>2. Served'
    BY <1>8, <2>0
       DEF UpdateGone, Return, NoAnswer, NoIndex, TypeOK, Indexes, Served, Versions,
           Answers, Bodies
  <2>3. Drafted'
    BY <1>8, <2>0
       DEF UpdateGone, Return, NoAnswer, NoIndex, TypeOK, Indexes, Drafted, Ready,
           Staged, LockSteps, Single
  <2> QED
    BY <2>1, <2>2, <2>3
<1>9. CASE UiLook
  <2>1. Single' /\ Fresh'
    BY <1>9
       DEF UiLook, NoAnswer, NoIndex, TypeOK, Indexes, Single, Fresh, Ready, Staged,
           LockSteps
  <2>2. Served'
    BY <1>9
       DEF UiLook, NoAnswer, NoIndex, TypeOK, Indexes, Served, Versions, Answers, Bodies
  <2>3. Drafted'
    BY <1>9, RecoveredTypes
       DEF UiLook, NoAnswer, NoIndex, TypeOK, Indexes, Drafted, Ready, Staged,
           LockSteps, Single
  <2> QED
    BY <2>1, <2>2, <2>3
<1>10. CASE UiLoad
  <2>1. Single' /\ Fresh'
    BY <1>10
       DEF UiLoad, NoAnswer, NoIndex, TypeOK, Indexes, Single, Fresh, Ready, Staged,
           LockSteps
  <2>2. Served'
    BY <1>10
       DEF UiLoad, NoAnswer, NoIndex, TypeOK, Indexes, Served, Versions, Answers, Bodies
  <2>3. Drafted'
    BY <1>10, RecoveredTypes
       DEF UiLoad, NoAnswer, NoIndex, TypeOK, Indexes, Drafted, Ready, Staged,
           LockSteps, Single
  <2> QED
    BY <2>1, <2>2, <2>3
<1>11. CASE UiTrim
  <2>1. Single' /\ Fresh'
    BY <1>11
       DEF UiTrim, NoAnswer, NoIndex, TypeOK, Indexes, Single, Fresh, Ready, Staged,
           LockSteps
  <2>2. Served'
    BY <1>11
       DEF UiTrim, NoAnswer, NoIndex, TypeOK, Indexes, Served, Versions, Answers, Bodies
  <2>3. Drafted'
    BY <1>11, RecoveredTypes
       DEF UiTrim, NoAnswer, NoIndex, TypeOK, Indexes, Drafted, Ready, Staged,
           LockSteps, Single
  <2> QED
    BY <2>1, <2>2, <2>3
<1>12. CASE Restart
  <2>1. Single' /\ Fresh'
    BY <1>12
       DEF Restart, NoAnswer, NoIndex, TypeOK, Indexes, Single, Fresh, Ready, Staged,
           LockSteps, Recovered
  <2>2. Served'
    BY <1>12
       DEF Restart, NoAnswer, NoIndex, TypeOK, Indexes, Served, Versions, Answers,
           Bodies
  <2>3. Drafted'
    BY <1>12, RecoveredTypes
       DEF Restart, NoAnswer, NoIndex, TypeOK, Indexes, Drafted, Ready, Staged,
           LockSteps, Single
  <2> QED
    BY <2>1, <2>2, <2>3
<1>13. ASSUME NEW a \in Actors, WriteFetched(a) PROVE StoreInv'
  <2>0. Recovered(dir, old)' = Recovered(dir, old) /\ \A s \in Subs : old'[s] = None
    BY <1>13, Loads DEF WriteFetched, Take
  <2>1. Single' /\ Fresh'
    BY <1>13, <2>0
       DEF WriteFetched, Take, StillListed, NoAnswer, NoIndex, TypeOK, Indexes, Single,
           Fresh, Ready, Staged, LockSteps
  <2>2. Served'
    BY <1>13, <2>0
       DEF WriteFetched, Take, StillListed, NoAnswer, NoIndex, TypeOK, Indexes, Served,
           Versions, Answers, Bodies
  <2>3. Drafted'
    BY <1>13, <2>0
       DEF WriteFetched, Take, StillListed, NoAnswer, NoIndex, TypeOK, Indexes, Drafted,
           Ready, Staged, LockSteps, Single
  <2> QED
    BY <2>1, <2>2, <2>3
<1>14. ASSUME NEW a \in Actors, CommitNew(a) PROVE StoreInv'
  <2>1. Single' /\ Fresh'
    BY <1>14
       DEF CommitNew, Noted, Written, NoAnswer, NoIndex, TypeOK, Indexes, Single, Fresh,
           Ready, Staged, LockSteps
  <2>2. Served'
    BY <1>14
       DEF CommitNew, Noted, Written, NoAnswer, NoIndex, TypeOK, Indexes, Served,
           Versions, Answers, Bodies
  <2>3. Drafted'
    <3>1. PICK s \in Subs :
            /\ got[a][s] \in Versions /\ dir[s] = None /\ dir' = [dir EXCEPT ![s] = got[a][s]]
            /\ Noted(a, s, got[a][s])
      BY <1>14 DEF CommitNew
    <3>1a. draft'.listed = draft.listed \cup {s}
      BY <3>1 DEF Noted
    <3>2. step[a] = "write" /\ Ready(a, s) /\ UNCHANGED <<old, index, lock, step, op, target, gone>>
      BY <1>14, <3>1 DEF CommitNew, Ready
    <3>3. step'[a] = "write" /\ \A b \in Actors \ {a} : step'[b] \notin {"write", "swap", "save"}
      BY <3>2 DEF Staged, LockSteps, TypeOK
    <3>4. Recovered(dir, old)'[s] # None
      BY <3>1 DEF Recovered, Versions, TypeOK
    <3>5. CASE a = "other"
      <4>1. s \in index.listed /\ draft.listed = index.listed
        BY <3>2, <3>5 DEF Fetching, Drafted, Ready
      <4> QED
        BY <4>1, <3>1, <3>2, <3>3, <3>5, <3>1a DEF Drafted
    <3>6. CASE a = "user"
      <4>1. s = target[a]
        BY <3>1, <3>2, <3>6 DEF Fetching, Drafted, Ready, Staged, Versions
      <4>2. s \notin gone /\ draft.listed \in {index.listed, index.listed \cup {s}}
        BY <4>1, <3>2, <3>6 DEF Fetching, Drafted, Ready
      <4> QED
        BY <4>1, <4>2, <3>1, <3>2, <3>3, <3>4, <3>6, <3>1a DEF Drafted
    <3> QED
      BY <3>5, <3>6
  <2> QED
    BY <2>1, <2>2, <2>3
<1>15. ASSUME NEW a \in Actors, CommitMovesOld(a) PROVE StoreInv'
  <2>1. Single' /\ Fresh'
    BY <1>15
       DEF CommitMovesOld, NoAnswer, NoIndex, TypeOK, Indexes, Single, Fresh, Ready,
           Staged, LockSteps
  <2>2. Served'
    BY <1>15
       DEF CommitMovesOld, NoAnswer, NoIndex, TypeOK, Indexes, Served, Versions,
           Answers, Bodies
  <2>3. Drafted'
    <3>1. PICK s \in Subs :
            /\ got[a][s] \in Versions /\ dir[s] # None /\ target' = [target EXCEPT ![a] = s]
            /\ old' = [old EXCEPT ![s] = dir[s]] /\ dir' = [dir EXCEPT ![s] = None]
      BY <1>15 DEF CommitMovesOld
    <3>2. /\ step[a] = "write" /\ Ready(a, s) /\ step' = [step EXCEPT ![a] = "swap"]
          /\ UNCHANGED <<index, lock, op, draft, gone>>
      BY <1>15, <3>1 DEF CommitMovesOld, Ready
    <3>3. step'[a] = "swap" /\ \A b \in Actors \ {a} : step'[b] \notin {"write", "swap", "save"}
      BY <3>2 DEF Staged, LockSteps, TypeOK
    <3>4. Recovered(dir, old)'[s] # None
      BY <3>1 DEF Recovered, TypeOK
    <3>5. CASE draft.listed = index.listed
      BY <3>2, <3>3, <3>5 DEF Drafted
    <3>6. CASE draft.listed # index.listed
      <4>1. a = "user" /\ target[a] \in Subs \ gone /\ draft.listed = index.listed \cup {target[a]}
        BY <3>2, <3>6 DEF Drafted
      <4>2. s = target[a]
        BY <4>1, <3>1, <3>2 DEF Fetching, Drafted, Ready, Staged, Versions
      <4>3. target'[a] = s
        BY <3>1 DEF TypeOK
      <4> QED
        BY <4>1, <4>2, <4>3, <3>2, <3>3, <3>4 DEF Drafted
    <3> QED
      BY <3>5, <3>6
  <2> QED
    BY <2>1, <2>2, <2>3
<1>16. ASSUME NEW a \in Actors, CommitMovesNew(a) PROVE StoreInv'
  <2>1. Single' /\ Fresh'
    <3>1. PICK s \in Subs :
            /\ s = target[a] /\ old' = [old EXCEPT ![s] = None]
            /\ dir' = [dir EXCEPT ![s] = got[a][s]] /\ got' = [got EXCEPT ![a][s] = None]
      BY <1>16 DEF CommitMovesNew, Written, Staged
    <3>2. step[a] = "swap" /\ step' = [step EXCEPT ![a] = "write"] /\ UNCHANGED <<lock, target>>
      BY <1>16 DEF CommitMovesNew
    <3>3. \A b \in Actors \ {a} : step'[b] \notin {"write", "swap"}
      BY <3>2 DEF Staged, LockSteps, TypeOK
    <3>4. got'[a][s] \notin Versions /\ \A t \in Subs \ {s} : got'[a][t] = got[a][t]
      BY <3>1 DEF TypeOK, Versions
    <3>5. \A t \in Subs \ {s} : old'[t] = old[t] /\ dir'[t] = dir[t]
      BY <3>1 DEF TypeOK
    <3>6. Single'
      BY <3>1, <3>5 DEF Single, TypeOK
    <3>7. Fresh'
      BY <3>1, <3>2, <3>3, <3>4, <3>5 DEF Fresh, Ready
    <3> QED
      BY <3>6, <3>7
  <2>2. Served'
    BY <1>16
       DEF CommitMovesNew, Noted, Written, NoAnswer, NoIndex, TypeOK, Indexes, Served,
           Versions, Answers, Bodies
  <2>3. Drafted'
    <3>1. PICK s \in Subs :
            /\ s = target[a] /\ got[a][s] \in Versions /\ dir' = [dir EXCEPT ![s] = got[a][s]]
            /\ draft'.listed = draft.listed \cup {s}
      BY <1>16 DEF CommitMovesNew, Noted, Staged
    <3>2. /\ step[a] = "swap" /\ Ready(a, s) /\ step' = [step EXCEPT ![a] = "write"]
          /\ UNCHANGED <<index, lock, op, target, gone>>
      BY <1>16, <3>1 DEF CommitMovesNew, Ready
    <3>3. step'[a] = "write" /\ \A b \in Actors \ {a} : step'[b] \notin {"write", "swap", "save"}
      BY <3>2 DEF Staged, LockSteps, TypeOK
    <3>4. Recovered(dir, old)'[s] # None
      BY <3>1 DEF Recovered, Versions, TypeOK
    <3>5. CASE a = "other"
      <4>1. s \in index.listed /\ draft.listed = index.listed
        BY <3>2, <3>5 DEF Fetching, Drafted, Ready
      <4> QED
        BY <4>1, <3>1, <3>2, <3>3, <3>5 DEF Drafted
    <3>6. CASE a = "user"
      <4>1. s = target[a]
        BY <3>1, <3>2, <3>6 DEF Fetching, Drafted, Ready, Staged, Versions
      <4>2. s \notin gone /\ draft.listed \in {index.listed, index.listed \cup {s}}
        BY <4>1, <3>2, <3>6 DEF Fetching, Drafted, Ready
      <4> QED
        BY <4>1, <4>2, <3>1, <3>2, <3>3, <3>4, <3>6 DEF Drafted
    <3> QED
      BY <3>5, <3>6
  <2> QED
    BY <2>1, <2>2, <2>3
<1>17. ASSUME NEW a \in Actors, StagingFails(a) PROVE StoreInv'
  <2>1. Single' /\ Fresh'
    BY <1>17
       DEF StagingFails, CommitFailed, Return, Written, NoAnswer, NoIndex, TypeOK,
           Indexes, Single, Fresh, Ready, Staged, LockSteps
  <2>2. Served'
    BY <1>17
       DEF StagingFails, CommitFailed, Return, Written, NoAnswer, NoIndex, TypeOK,
           Indexes, Served, Versions, Answers, Bodies
  <2>3. Drafted'
    BY <1>17, RecoveredTypes
       DEF StagingFails, CommitFailed, Return, Written, NoAnswer, NoIndex, TypeOK,
           Indexes, Drafted, Ready, Staged, LockSteps, Single
  <2> QED
    BY <2>1, <2>2, <2>3
<1>18. ASSUME NEW a \in Actors, RenameFails(a) PROVE StoreInv'
  <2>1. Single' /\ Fresh'
    <3>1. PICK s \in Subs :
            /\ s = target[a]
            /\ \/ dir' = [dir EXCEPT ![s] = old[s]] /\ old' = [old EXCEPT ![s] = None]
               \/ UNCHANGED <<dir, old>>
            /\ CommitFailed(a, s)
      BY <1>18 DEF RenameFails, Staged
    <3>2. Single'
      BY <3>1 DEF Single, TypeOK
    <3>3. \A t \in Subs \ {s} : old'[t] = old[t]
      BY <3>1 DEF TypeOK
    <3>4. step[a] = "swap"
      BY <1>18 DEF RenameFails
    <3>5. \A b \in Actors \ {a} : step[b] \notin {"write", "swap"}
      BY <3>4 DEF Staged, LockSteps
    <3>6. CASE op[a] = "pass"
      <4>1. got' = [got EXCEPT ![a][s] = None] /\ step' = [step EXCEPT ![a] = "write"]
        BY <3>1, <3>6 DEF CommitFailed, Written
      <4>2. got'[a][s] \notin Versions /\ \A t \in Subs \ {s} : got'[a][t] = got[a][t]
        BY <3>1, <4>1, TypeOK DEF TypeOK, Versions
      <4>3. Fresh'
        BY <3>1, <3>3, <3>4, <3>5, <4>1, <4>2 DEF Fresh, Ready, TypeOK
      <4> QED
        BY <3>2, <4>3
    <3>7. CASE op[a] # "pass"
      <4>1. step' = [step EXCEPT ![a] = "idle"]
        BY <3>1, <3>7 DEF CommitFailed, Return
      <4> QED
        BY <3>2, <3>5, <4>1 DEF Fresh, Ready, TypeOK
    <3> QED
      BY <3>6, <3>7
  <2>2. Served'
    BY <1>18
       DEF RenameFails, CommitFailed, Return, Written, NoAnswer, NoIndex, TypeOK,
           Indexes, Served, Versions, Answers, Bodies
  <2>3. Drafted'
    <3>1. PICK s \in Subs :
            /\ s = target[a]
            /\ \/ dir' = [dir EXCEPT ![s] = old[s]] /\ old' = [old EXCEPT ![s] = None]
               \/ UNCHANGED <<dir, old>>
            /\ CommitFailed(a, s) /\ UNCHANGED <<index, gone>>
      BY <1>18 DEF RenameFails, Staged
    <3>2. step[a] = "swap" /\ dir[s] = None
      BY <1>18, <3>1 DEF RenameFails, Kept
    <3>3. Recovered(dir, old)' = Recovered(dir, old)
      BY <3>1, <3>2 DEF Recovered, TypeOK
    <3>4. \A b \in Actors \ {a} : step[b] \notin {"write", "swap", "save"}
      BY <3>2 DEF Staged, LockSteps
    <3>5. CASE op[a] = "pass"
      <4>1. step' = [step EXCEPT ![a] = "write"] /\ UNCHANGED <<op, target, draft>>
        BY <3>1, <3>5 DEF CommitFailed
      <4> QED
        BY <3>1, <3>2, <3>3, <3>4, <4>1 DEF Drafted, TypeOK
    <3>6. CASE op[a] # "pass"
      <4>1. step' = [step EXCEPT ![a] = "idle"] /\ op' = [op EXCEPT ![a] = "none"]
        BY <3>1, <3>6 DEF CommitFailed, Return
      <4> QED
        BY <3>1, <3>4, <4>1 DEF Drafted, TypeOK
    <3> QED
      BY <3>5, <3>6
  <2> QED
    BY <2>1, <2>2, <2>3
<1>19. ASSUME NEW a \in Actors, BeginRemove(a) PROVE StoreInv'
  <2>1. Single' /\ Fresh'
    BY <1>19
       DEF BeginRemove, Begin, NoAnswer, NoIndex, TypeOK, Indexes, Single, Fresh, Ready,
           Staged, LockSteps
  <2>2. Served'
    BY <1>19
       DEF BeginRemove, Begin, NoAnswer, NoIndex, TypeOK, Indexes, Served, Versions,
           Answers, Bodies
  <2>3. Drafted'
    BY <1>19, RecoveredTypes
       DEF BeginRemove, Begin, NoAnswer, NoIndex, TypeOK, Indexes, Drafted, Ready,
           Staged, LockSteps, Single
  <2> QED
    BY <2>1, <2>2, <2>3
<1>20. ASSUME NEW a \in Actors, RemoveDir(a) PROVE StoreInv'
  <2>1. Single' /\ Fresh'
    BY <1>20
       DEF RemoveDir, NoAnswer, NoIndex, TypeOK, Indexes, Single, Fresh, Ready, Staged,
           LockSteps, Recovered
  <2>2. Served'
    BY <1>20
       DEF RemoveDir, NoAnswer, NoIndex, TypeOK, Indexes, Served, Versions, Answers,
           Bodies
  <2>3. Drafted'
    BY <1>20, RecoveredTypes
       DEF RemoveDir, NoAnswer, NoIndex, TypeOK, Indexes, Drafted, Ready, Staged,
           LockSteps, Single
  <2> QED
    BY <2>1, <2>2, <2>3
<1>21. ASSUME NEW a \in Actors, RemoveDirFails(a) PROVE StoreInv'
  <2>1. Single' /\ Fresh'
    BY <1>21
       DEF RemoveDirFails, Return, NoAnswer, NoIndex, TypeOK, Indexes, Single, Fresh,
           Ready, Staged, LockSteps
  <2>2. Served'
    BY <1>21
       DEF RemoveDirFails, Return, NoAnswer, NoIndex, TypeOK, Indexes, Served, Versions,
           Answers, Bodies
  <2>3. Drafted'
    BY <1>21, RecoveredTypes
       DEF RemoveDirFails, Return, NoAnswer, NoIndex, TypeOK, Indexes, Drafted, Ready,
           Staged, LockSteps, Single
  <2> QED
    BY <2>1, <2>2, <2>3
<1>22. ASSUME NEW a \in Actors, Save(a) PROVE StoreInv'
  <2>1. Single' /\ Fresh'
    BY <1>22
       DEF Save, ReadyToSave, NoAnswer, NoIndex, TypeOK, Indexes, Single, Fresh, Ready,
           Staged, LockSteps
  <2>2. Served'
    BY <1>22
       DEF Save, ReadyToSave, NoAnswer, NoIndex, TypeOK, Indexes, Served, Versions,
           Answers, Bodies
  <2>3. Drafted'
    BY <1>22, RecoveredTypes
       DEF Save, ReadyToSave, NoAnswer, NoIndex, TypeOK, Indexes, Drafted, Ready,
           Staged, LockSteps, Single
  <2> QED
    BY <2>1, <2>2, <2>3
<1>23. ASSUME NEW a \in Actors, SaveFails(a) PROVE StoreInv'
  <2>1. Single' /\ Fresh'
    BY <1>23
       DEF SaveFails, ReadyToSave, Return, NoAnswer, NoIndex, TypeOK, Indexes, Single,
           Fresh, Ready, Staged, LockSteps
  <2>2. Served'
    BY <1>23
       DEF SaveFails, ReadyToSave, Return, NoAnswer, NoIndex, TypeOK, Indexes, Served,
           Versions, Answers, Bodies
  <2>3. Drafted'
    BY <1>23, RecoveredTypes
       DEF SaveFails, ReadyToSave, Return, NoAnswer, NoIndex, TypeOK, Indexes, Drafted,
           Ready, Staged, LockSteps, Single
  <2> QED
    BY <2>1, <2>2, <2>3
<1>24. ASSUME NEW a \in Actors, Generate(a) PROVE StoreInv'
  <2>0. Recovered(dir, old)' = Recovered(dir, old) /\ \A s \in Subs : old'[s] = None
    BY <1>24, Loads DEF Generate
  <2>1. Single' /\ Fresh'
    BY <1>24, <2>0
       DEF Generate, NoAnswer, NoIndex, TypeOK, Indexes, Single, Fresh, Ready, Staged,
           LockSteps
  <2>2. Served'
    BY <1>24, <2>0
       DEF Generate, NoAnswer, NoIndex, TypeOK, Indexes, Served, Versions, Answers,
           Bodies
  <2>3. Drafted'
    BY <1>24, <2>0
       DEF Generate, NoAnswer, NoIndex, TypeOK, Indexes, Drafted, Ready, Staged,
           LockSteps, Single
  <2> QED
    BY <2>1, <2>2, <2>3
<1>25. ASSUME NEW a \in Actors, GenerateFails(a) PROVE StoreInv'
  <2>0. Recovered(dir, old)' = Recovered(dir, old) /\ \A s \in Subs : old'[s] = None
    <3>1. LoadIndex
      BY <1>25 DEF GenerateFails
    <3> QED
      BY <3>1, Loads
  <2>1. Single' /\ Fresh'
    BY <1>25, <2>0
       DEF GenerateFails, NoAnswer, NoIndex, TypeOK, Indexes, Single, Fresh, Ready,
           Staged, LockSteps
  <2>2. Served'
    BY <1>25, <2>0
       DEF GenerateFails, NoAnswer, NoIndex, TypeOK, Indexes, Served, Versions, Answers,
           Bodies
  <2>3. Drafted'
    BY <1>25, <2>0
       DEF GenerateFails, NoAnswer, NoIndex, TypeOK, Indexes, Drafted, Ready, Staged,
           LockSteps, Single
  <2> QED
    BY <2>1, <2>2, <2>3
<1>26. ASSUME NEW a \in Actors, Release(a) PROVE StoreInv'
  <2>1. Single' /\ Fresh'
    BY <1>26
       DEF Release, Return, NoAnswer, NoIndex, TypeOK, Indexes, Single, Fresh, Ready,
           Staged, LockSteps
  <2>2. Served'
    BY <1>26
       DEF Release, Return, NoAnswer, NoIndex, TypeOK, Indexes, Served, Versions,
           Answers, Bodies
  <2>3. Drafted'
    BY <1>26, RecoveredTypes
       DEF Release, Return, NoAnswer, NoIndex, TypeOK, Indexes, Drafted, Ready, Staged,
           LockSteps, Single
  <2> QED
    BY <2>1, <2>2, <2>3
<1>27. CASE UNCHANGED vars
  BY <1>27 DEF vars, Single, Fresh, Ready, Served, Drafted
<1> QED
  BY <1>1, <1>2, <1>3, <1>4, <1>5, <1>6, <1>7, <1>8, <1>9, <1>10, <1>11, <1>12, <1>13, <1>14, <1>15, <1>16, <1>17, <1>18, <1>19, <1>20, <1>21, <1>22, <1>23, <1>24, <1>25, <1>26, <1>27
     DEF Next, UserBegins, Commit, Remove, Finish, Read

(* Which directory holds what is kept, what may be written, and what a     *)
(* draft of the index may add or take off, at every step.                  *)
THEOREM StoreInvariant == Spec => []StoreInv
BY StoreInitially, StorePreserved, SubscriptionInvariant, PTL DEF Spec

(* Only the holder of the lock has a removal on its hands.                 *)
Doomed == {s \in Subs : BeingRemoved(s)}

LEMMA RemoverHolds ==
  ASSUME Inv, NEW a \in Actors, op[a] = "remove"
  PROVE  lock = a /\ target[a] \in Subs /\ Doomed = {target[a]}
<1>1. lock = a /\ target[a] \in Subs
  BY DEF Inv, TypeOK, Staged, LockSteps, Steps
<1>2. \A b \in Actors \ {a} : op[b] # "remove"
  BY <1>1 DEF Inv, TypeOK, Staged, LockSteps, Steps
<1> QED
  BY <1>1, <1>2 DEF Doomed, BeingRemoved, Does

LEMMA NobodyRemoves ==
  ASSUME \A a \in Actors : op[a] # "remove"
  PROVE  Doomed = {}
BY DEF Doomed, BeingRemoved, Does

(* Who has no removal on its hands, before or after, does not change what  *)
(* is doomed.                                                              *)
LEMMA OthersRemove ==
  ASSUME NEW a \in Actors, op[a] # "remove", op'[a] # "remove",
         \A b \in Actors \ {a} : op'[b] = op[b] /\ target'[b] = target[b]
  PROVE  Doomed' = Doomed
BY DEF Doomed, BeingRemoved, Does

LEMMA StoreStep == Inv /\ StoreInv /\ Inv' /\ [Next]_vars => [Store!Next]_(Store!vars)
<1> SUFFICES ASSUME Inv, StoreInv, Inv', [Next]_vars PROVE [Store!Next]_(Store!vars)
  OBVIOUS
<1> USE NoneAssumption, MaxVersionAssumption
    DEF Inv, StoreInv, disk, actors, built, memory, history, At, Goto, Does, Can, Actors
<1>1. CASE FetchAdd
  <2>1. UNCHANGED <<index, remote, gone>>
    BY <1>1
       DEF FetchAdd, Begin
  <2>2. Recovered(dir, old)' = Recovered(dir, old)
    BY <1>1 DEF FetchAdd
  <2>3. Doomed' = Doomed
    <3>1. /\ op["user"] # "remove" /\ op'["user"] # "remove"
          /\ \A b \in Actors \ {"user"} : op'[b] = op[b] /\ target'[b] = target[b]
      BY <1>1
         DEF FetchAdd, Begin, TypeOK, Staged
    <3> QED
      BY <3>1, OthersRemove
  <2> QED
    BY <2>1, <2>2, <2>3 DEF Store!vars, Doomed
<1>2. CASE FetchUpdate
  <2>1. UNCHANGED <<index, remote, gone>>
    BY <1>2
       DEF FetchUpdate, Begin, Fetched
  <2>2. Recovered(dir, old)' = Recovered(dir, old)
    <3>1. LoadIndex
      BY <1>2 DEF FetchUpdate
    <3> QED
      BY <3>1, Loads
  <2>3. Doomed' = Doomed
    <3>1. /\ op["user"] # "remove" /\ op'["user"] # "remove"
          /\ \A b \in Actors \ {"user"} : op'[b] = op[b] /\ target'[b] = target[b]
      BY <1>2
         DEF FetchUpdate, Begin, Fetched, TypeOK, Staged
    <3> QED
      BY <3>1, OthersRemove
  <2> QED
    BY <2>1, <2>2, <2>3 DEF Store!vars, Doomed
<1>3. CASE BeginActivate
  <2>1. UNCHANGED <<index, remote, gone>>
    BY <1>3
       DEF BeginActivate, Begin
  <2>2. Recovered(dir, old)' = Recovered(dir, old)
    <3>1. LoadIndex
      BY <1>3 DEF BeginActivate
    <3> QED
      BY <3>1, Loads
  <2>3. Doomed' = Doomed
    <3>1. /\ op["user"] # "remove" /\ op'["user"] # "remove"
          /\ \A b \in Actors \ {"user"} : op'[b] = op[b] /\ target'[b] = target[b]
      BY <1>3
         DEF BeginActivate, Begin, TypeOK, Staged
    <3> QED
      BY <3>1, OthersRemove
  <2> QED
    BY <2>1, <2>2, <2>3 DEF Store!vars, Doomed
<1>4. CASE BeginApply
  <2>1. UNCHANGED <<index, remote, gone>>
    BY <1>4
       DEF BeginApply, Begin
  <2>2. Recovered(dir, old)' = Recovered(dir, old)
    BY <1>4 DEF BeginApply
  <2>3. Doomed' = Doomed
    <3>1. /\ op["user"] # "remove" /\ op'["user"] # "remove"
          /\ \A b \in Actors \ {"user"} : op'[b] = op[b] /\ target'[b] = target[b]
      BY <1>4
         DEF BeginApply, Begin, TypeOK, Staged
    <3> QED
      BY <3>1, OthersRemove
  <2> QED
    BY <2>1, <2>2, <2>3 DEF Store!vars, Doomed
<1>5. CASE FetchDue
  <2>1. UNCHANGED <<index, remote, gone>>
    BY <1>5
       DEF FetchDue, Begin, Fetched
  <2>2. Recovered(dir, old)' = Recovered(dir, old)
    <3>1. LoadIndex
      BY <1>5 DEF FetchDue
    <3> QED
      BY <3>1, Loads
  <2>3. Doomed' = Doomed
    <3>1. /\ op["other"] # "remove" /\ op'["other"] # "remove"
          /\ \A b \in Actors \ {"other"} : op'[b] = op[b] /\ target'[b] = target[b]
      BY <1>5
         DEF FetchDue, Begin, Fetched, TypeOK, Staged
    <3> QED
      BY <3>1, OthersRemove
  <2> QED
    BY <2>1, <2>2, <2>3 DEF Store!vars, Doomed
<1>6. CASE Defer
  <2>1. UNCHANGED <<index, remote, gone>>
    BY <1>6
       DEF Defer
  <2>2. Recovered(dir, old)' = Recovered(dir, old)
    BY <1>6 DEF Defer
  <2>3. Doomed' = Doomed
    <3>1. /\ op["other"] # "remove" /\ op'["other"] # "remove"
          /\ \A b \in Actors \ {"other"} : op'[b] = op[b] /\ target'[b] = target[b]
      BY <1>6
         DEF Defer, TypeOK, Staged
    <3> QED
      BY <3>1, OthersRemove
  <2> QED
    BY <2>1, <2>2, <2>3 DEF Store!vars, Doomed
<1>7. CASE UpdateGone
  <2>1. UNCHANGED <<index, remote, gone>>
    BY <1>7
       DEF UpdateGone, Return
  <2>2. Recovered(dir, old)' = Recovered(dir, old)
    <3>1. LoadIndex
      BY <1>7 DEF UpdateGone
    <3> QED
      BY <3>1, Loads
  <2>3. Doomed' = Doomed
    <3>1. /\ op["user"] # "remove" /\ op'["user"] # "remove"
          /\ \A b \in Actors \ {"user"} : op'[b] = op[b] /\ target'[b] = target[b]
      BY <1>7
         DEF UpdateGone, Return, TypeOK, Staged
    <3> QED
      BY <3>1, OthersRemove
  <2> QED
    BY <2>1, <2>2, <2>3 DEF Store!vars, Doomed
<1>8. CASE UiLook
  <2>1. UNCHANGED <<index, remote, gone>>
    BY <1>8
       DEF UiLook
  <2>2. Recovered(dir, old)' = Recovered(dir, old)
    BY <1>8 DEF UiLook
  <2>3. Doomed' = Doomed
    BY <1>8 DEF UiLook, Doomed, BeingRemoved
  <2> QED
    BY <2>1, <2>2, <2>3 DEF Store!vars, Doomed
<1>9. CASE UiLoad
  <2>1. UNCHANGED <<index, remote, gone>>
    BY <1>9
       DEF UiLoad
  <2>2. Recovered(dir, old)' = Recovered(dir, old)
    BY <1>9 DEF UiLoad
  <2>3. Doomed' = Doomed
    BY <1>9 DEF UiLoad, Doomed, BeingRemoved
  <2> QED
    BY <2>1, <2>2, <2>3 DEF Store!vars, Doomed
<1>10. CASE UiTrim
  <2>1. UNCHANGED <<index, remote, gone>>
    BY <1>10
       DEF UiTrim
  <2>2. Recovered(dir, old)' = Recovered(dir, old)
    BY <1>10 DEF UiTrim
  <2>3. Doomed' = Doomed
    BY <1>10 DEF UiTrim, Doomed, BeingRemoved
  <2> QED
    BY <2>1, <2>2, <2>3 DEF Store!vars, Doomed
<1>11. ASSUME NEW a \in Actors, WriteFetched(a) PROVE [Store!Next]_(Store!vars)
  <2>1. UNCHANGED <<index, remote, gone>>
    BY <1>11
       DEF WriteFetched, Take, StillListed
  <2>2. Recovered(dir, old)' = Recovered(dir, old)
    <3>1. LoadIndex
      BY <1>11 DEF WriteFetched, Take
    <3> QED
      BY <3>1, Loads
  <2>3. Doomed' = Doomed
    BY <1>11 DEF WriteFetched, Doomed, BeingRemoved
  <2> QED
    BY <2>1, <2>2, <2>3 DEF Store!vars, Doomed
<1>12. ASSUME NEW a \in Actors, CommitMovesOld(a) PROVE [Store!Next]_(Store!vars)
  <2>1. UNCHANGED <<index, remote, gone>>
    BY <1>12
       DEF CommitMovesOld
  <2>2. Recovered(dir, old)' = Recovered(dir, old)
    <3>1. PICK s \in Subs : old' = [old EXCEPT ![s] = dir[s]] /\ dir' = [dir EXCEPT ![s] = None] /\ dir[s] # None
      BY <1>12 DEF CommitMovesOld
    <3>2. old'[s] = dir[s] /\ dir'[s] = None /\ \A t \in Subs \ {s} : old'[t] = old[t] /\ dir'[t] = dir[t]
      BY <3>1 DEF TypeOK
    <3> QED
      BY <3>1, <3>2 DEF Recovered
  <2>3. Doomed' = Doomed
    <3>1. /\ op[a] # "remove" /\ op'[a] # "remove"
          /\ \A b \in Actors \ {a} : op'[b] = op[b] /\ target'[b] = target[b]
      BY <1>12
         DEF CommitMovesOld, TypeOK, Staged
    <3> QED
      BY <3>1, OthersRemove
  <2> QED
    BY <2>1, <2>2, <2>3 DEF Store!vars, Doomed
<1>13. ASSUME NEW a \in Actors, StagingFails(a) PROVE [Store!Next]_(Store!vars)
  <2>1. UNCHANGED <<index, remote, gone>>
    BY <1>13
       DEF StagingFails, CommitFailed, Return, Written
  <2>2. Recovered(dir, old)' = Recovered(dir, old)
    BY <1>13 DEF StagingFails
  <2>3. Doomed' = Doomed
    <3>1. /\ op[a] # "remove" /\ op'[a] # "remove"
          /\ \A b \in Actors \ {a} : op'[b] = op[b] /\ target'[b] = target[b]
      BY <1>13
         DEF StagingFails, CommitFailed, Return, Written, TypeOK, Staged
    <3> QED
      BY <3>1, OthersRemove
  <2> QED
    BY <2>1, <2>2, <2>3 DEF Store!vars, Doomed
<1>14. ASSUME NEW a \in Actors, RenameFails(a) PROVE [Store!Next]_(Store!vars)
  <2>1. UNCHANGED <<index, remote, gone>>
    BY <1>14
       DEF RenameFails, CommitFailed, Return, Written
  <2>2. Recovered(dir, old)' = Recovered(dir, old)
    <3>1. target[a] \in Subs /\ dir[target[a]] = None
      BY <1>14 DEF RenameFails, Staged, Kept
    <3>2. \/ dir' = [dir EXCEPT ![target[a]] = old[target[a]]] /\ old' = [old EXCEPT ![target[a]] = None]
          \/ UNCHANGED <<dir, old>>
      BY <1>14 DEF RenameFails
    <3> QED
      BY <3>1, <3>2 DEF Recovered, TypeOK
  <2>3. Doomed' = Doomed
    <3>1. /\ op[a] # "remove" /\ op'[a] # "remove"
          /\ \A b \in Actors \ {a} : op'[b] = op[b] /\ target'[b] = target[b]
      BY <1>14
         DEF RenameFails, CommitFailed, Return, Written, TypeOK, Staged
    <3> QED
      BY <3>1, OthersRemove
  <2> QED
    BY <2>1, <2>2, <2>3 DEF Store!vars, Doomed
<1>15. ASSUME NEW a \in Actors, Generate(a) PROVE [Store!Next]_(Store!vars)
  <2>1. UNCHANGED <<index, remote, gone>>
    BY <1>15
       DEF Generate
  <2>2. Recovered(dir, old)' = Recovered(dir, old)
    <3>1. LoadIndex
      BY <1>15 DEF Generate
    <3> QED
      BY <3>1, Loads
  <2>3. Doomed' = Doomed
    BY <1>15 DEF Generate, Doomed, BeingRemoved
  <2> QED
    BY <2>1, <2>2, <2>3 DEF Store!vars, Doomed
<1>16. ASSUME NEW a \in Actors, GenerateFails(a) PROVE [Store!Next]_(Store!vars)
  <2>1. UNCHANGED <<index, remote, gone>>
    BY <1>16
       DEF GenerateFails
  <2>2. Recovered(dir, old)' = Recovered(dir, old)
    <3>1. LoadIndex
      BY <1>16 DEF GenerateFails
    <3> QED
      BY <3>1, Loads
  <2>3. Doomed' = Doomed
    BY <1>16 DEF GenerateFails, Doomed, BeingRemoved
  <2> QED
    BY <2>1, <2>2, <2>3 DEF Store!vars, Doomed
<1>17. CASE ProviderChanges
  <2>1. PICK s \in index.listed : remote' = [remote EXCEPT ![s] = @ + 1]
    BY <1>17 DEF ProviderChanges
  <2>2. s \in Subs /\ UNCHANGED <<index, gone, dir, old, op, target>>
    BY <1>17, Parts DEF ProviderChanges
  <2>3. Store!Publish(s)
    BY <2>1, <2>2 DEF Store!Publish, BeingRemoved
  <2> QED
    BY <2>2, <2>3 DEF Store!Next
<1>18. ASSUME NEW a \in Actors, CommitNew(a) PROVE [Store!Next]_(Store!vars)
  <2>1. PICK s \in Subs : got[a][s] \in Versions /\ dir' = [dir EXCEPT ![s] = got[a][s]]
    BY <1>18 DEF CommitNew
  <2>2. step[a] = "write" /\ UNCHANGED <<remote, index, gone, op, target, old>>
    BY <1>18 DEF CommitNew
  <2>3. old'[s] \in Bodies /\ \A t \in Subs \ {s} : dir'[t] = dir[t] /\ old'[t] = old[t]
    BY <2>1, <2>2 DEF TypeOK
  <2>4. Recovered(dir, old)' = [Recovered(dir, old) EXCEPT ![s] = got[a][s]]
    <3>1. dir'[s] = got[a][s] /\ got[a][s] # None
      BY <2>1 DEF TypeOK, Versions
    <3> QED
      BY <2>3, <3>1 DEF Recovered
  <2>5. Doomed = {} /\ Doomed' = Doomed
    <3>1. \A b \in Actors : op[b] # "remove"
      BY <2>2, RemoverHolds DEF Staged, LockSteps
    <3> QED
      BY <2>2, <3>1, NobodyRemoves DEF Doomed, BeingRemoved
  <2>6. s \notin gone
    <3>1. Ready(a, s)
      BY <2>1, <2>2 DEF Ready
    <3> QED
      BY <3>1 DEF Fetching
  <2>7. got[a][s] \in 0..remote[s]
    BY <2>1 DEF Served, Versions, TypeOK
  <2>8. Store!Put(s, got[a][s])
    BY <2>2, <2>4, <2>5, <2>6, <2>7 DEF Store!Put, Doomed
  <2> QED
    BY <2>7, <2>8 DEF Store!Next
<1>19. ASSUME NEW a \in Actors, CommitMovesNew(a) PROVE [Store!Next]_(Store!vars)
  <2>1. PICK s \in Subs :
          /\ s = target[a] /\ got[a][s] \in Versions
          /\ dir' = [dir EXCEPT ![s] = got[a][s]] /\ old' = [old EXCEPT ![s] = None]
    BY <1>19 DEF CommitMovesNew, Staged
  <2>2. step[a] = "swap" /\ UNCHANGED <<remote, index, gone, op, target>>
    BY <1>19 DEF CommitMovesNew
  <2>3. \A t \in Subs \ {s} : dir'[t] = dir[t] /\ old'[t] = old[t]
    BY <2>1 DEF TypeOK
  <2>4. Recovered(dir, old)' = [Recovered(dir, old) EXCEPT ![s] = got[a][s]]
    <3>1. dir'[s] = got[a][s] /\ got[a][s] # None
      BY <2>1 DEF TypeOK, Versions
    <3> QED
      BY <2>3, <3>1 DEF Recovered
  <2>5. Doomed = {} /\ Doomed' = Doomed
    <3>1. \A b \in Actors : op[b] # "remove"
      BY <2>2, RemoverHolds DEF Staged, LockSteps
    <3> QED
      BY <2>2, <3>1, NobodyRemoves DEF Doomed, BeingRemoved
  <2>6. s \notin gone
    <3>1. Ready(a, s)
      BY <2>1, <2>2 DEF Ready
    <3> QED
      BY <3>1 DEF Fetching
  <2>7. got[a][s] \in 0..remote[s]
    BY <2>1 DEF Served, Versions, TypeOK
  <2>8. Store!Put(s, got[a][s])
    BY <2>2, <2>4, <2>5, <2>6, <2>7 DEF Store!Put, Doomed
  <2> QED
    BY <2>7, <2>8 DEF Store!Next
<1>20. ASSUME NEW a \in Actors, BeginRemove(a) PROVE [Store!Next]_(Store!vars)
  <2>1. PICK s \in index.listed : target' = [target EXCEPT ![a] = s]
    BY <1>20 DEF BeginRemove
  <2>2. s \in Subs /\ op' = [op EXCEPT ![a] = "remove"] /\ UNCHANGED <<remote, index, gone, dir, old>>
    BY <1>20, <2>1, Parts DEF BeginRemove, Begin
  <2>3. \A b \in Actors : op[b] # "remove"
    BY <1>20, RemoverHolds DEF BeginRemove
  <2>4. Doomed = {}
    BY <2>3, NobodyRemoves
  <2>5. Doomed' = {s}
    BY <2>1, <2>2, <2>3 DEF Doomed, BeingRemoved, TypeOK
  <2>6. Store!Order(s)
    BY <2>1, <2>2, <2>4, <2>5 DEF Store!Order, Doomed
  <2> QED
    BY <2>2, <2>6 DEF Store!Next
<1>21. ASSUME NEW a \in Actors, RemoveDir(a) PROVE [Store!Next]_(Store!vars)
  <2>1. op[a] = "remove" /\ UNCHANGED <<remote, index, gone, op, target>>
    BY <1>21 DEF RemoveDir, Staged
  <2>2. target[a] \in Subs /\ Doomed = {target[a]}
    BY <2>1, RemoverHolds
  <2>3. Doomed' = Doomed
    BY <2>1 DEF Doomed, BeingRemoved
  <2>4. dir' = Recovered([dir EXCEPT ![target[a]] = None], old) /\ old' = NoAnswer
    BY <1>21 DEF RemoveDir
  <2>5. CASE dir[target[a]] = None
    <3>1. Recovered(dir, old)' = Recovered(dir, old)
      BY <2>2, <2>4, <2>5 DEF Recovered, NoAnswer, TypeOK
    <3> QED
      BY <2>1, <2>3, <3>1 DEF Store!vars, Doomed
  <2>6. CASE dir[target[a]] # None
    <3>1. Recovered(dir, old)' = [Recovered(dir, old) EXCEPT ![target[a]] = None]
      BY <2>2, <2>4, <2>6 DEF Recovered, NoAnswer, TypeOK, Single
    <3>2. Store!Drop(target[a])
      BY <2>1, <2>2, <2>3, <3>1 DEF Store!Drop, Doomed
    <3> QED
      BY <2>2, <3>2 DEF Store!Next
  <2> QED
    BY <2>5, <2>6
<1>22. ASSUME NEW a \in Actors, RemoveDirFails(a) PROVE [Store!Next]_(Store!vars)
  <2>1. op[a] = "remove" /\ op' = [op EXCEPT ![a] = "none"] /\ UNCHANGED <<remote, index, gone, old>>
    BY <1>22 DEF RemoveDirFails, Return, Staged
  <2>2. target[a] \in Subs /\ Doomed = {target[a]} /\ lock = a
    BY <2>1, RemoverHolds
  <2>3. \A b \in Actors : op'[b] # "remove"
    BY <2>1, <2>2, RemoverHolds DEF TypeOK
  <2>4. Doomed' = {}
    BY <2>3 DEF Doomed, BeingRemoved
  <2>5. dir' = [dir EXCEPT ![target[a]] = None] \/ UNCHANGED dir
    BY <1>22 DEF RemoveDirFails
  <2>6. CASE UNCHANGED dir \/ dir[target[a]] = None
    <3>1. Recovered(dir, old)' = Recovered(dir, old)
      BY <2>1, <2>2, <2>5, <2>6 DEF Recovered, TypeOK
    <3>2. Store!Settle
      BY <2>1, <2>4, <3>1 DEF Store!Settle, Doomed
    <3> QED
      BY <3>2 DEF Store!Next
  <2>7. CASE dir' = [dir EXCEPT ![target[a]] = None] /\ dir[target[a]] # None
    <3>1. Recovered(dir, old)' = [Recovered(dir, old) EXCEPT ![target[a]] = None]
      BY <2>1, <2>2, <2>7 DEF Recovered, TypeOK, Single
    <3>2. Store!Drop(target[a])
      BY <2>1, <2>2, <2>4, <3>1 DEF Store!Drop, Doomed
    <3> QED
      BY <2>2, <3>2 DEF Store!Next
  <2> QED
    BY <2>5, <2>6, <2>7
<1>23. ASSUME NEW a \in Actors, Save(a) PROVE [Store!Next]_(Store!vars)
  <2>1. /\ step[a] \in {"write", "save"} /\ index' = draft /\ gone' = gone \cup (index.listed \ draft.listed)
        /\ UNCHANGED <<remote, dir, old, op, target>>
    BY <1>23 DEF Save, ReadyToSave
  <2>2. Recovered(dir, old)' = Recovered(dir, old) /\ Doomed' = Doomed
    BY <2>1 DEF Recovered, Doomed, BeingRemoved
  <2>3. CASE draft.listed = index.listed
    BY <2>1, <2>2, <2>3 DEF Store!vars, Doomed
  <2>4. CASE step[a] = "write" /\ draft.listed # index.listed
    <3>1. /\ target[a] \in Subs \ gone /\ Recovered(dir, old)[target[a]] # None
          /\ draft.listed = index.listed \cup {target[a]}
      BY <2>4 DEF Drafted
    <3>2. \A b \in Actors : op[b] # "remove"
      BY <2>4, RemoverHolds DEF Staged, LockSteps
    <3>3. Store!List(target[a])
      BY <2>1, <2>2, <3>1, <3>2, NobodyRemoves DEF Store!List, Doomed
    <3> QED
      BY <3>1, <3>3 DEF Store!Next
  <2>5. CASE step[a] = "save" /\ draft.listed # index.listed
    <3>1. op[a] = "remove" /\ draft.listed = index.listed \ {target[a]}
      BY <2>5 DEF Drafted
    <3>2. target[a] \in Subs /\ Doomed = {target[a]}
      BY <3>1, RemoverHolds
    <3>3. index.listed \ draft.listed = {target[a]}
      BY <2>5, <3>1
    <3>4. Store!Unlist(target[a])
      BY <2>1, <2>2, <3>1, <3>2, <3>3 DEF Store!Unlist, Doomed
    <3> QED
      BY <3>2, <3>4 DEF Store!Next
  <2> QED
    BY <2>1, <2>3, <2>4, <2>5
<1>24. ASSUME NEW a \in Actors, SaveFails(a) PROVE [Store!Next]_(Store!vars)
  <2>1. UNCHANGED <<remote, index, gone, dir, old>>
    BY <1>24 DEF SaveFails
  <2>2. \/ UNCHANGED <<op, target>>
        \/ op' = [op EXCEPT ![a] = "none"] /\ target' = [target EXCEPT ![a] = None]
    BY <1>24 DEF SaveFails, Return
  <2>3. Recovered(dir, old)' = Recovered(dir, old)
    BY <2>1
  <2>4. Doomed' \in {Doomed, {}}
    <3>1. CASE op[a] = "remove" /\ op' = [op EXCEPT ![a] = "none"]
      <4>1. \A b \in Actors : op'[b] # "remove"
        BY <3>1, RemoverHolds DEF TypeOK
      <4> QED
        BY <4>1 DEF Doomed, BeingRemoved
    <3>2. CASE UNCHANGED <<op, target>>
      BY <3>2 DEF Doomed, BeingRemoved
    <3>3. CASE /\ op[a] # "remove" /\ op' = [op EXCEPT ![a] = "none"]
               /\ target' = [target EXCEPT ![a] = None]
      <4>1. op'[a] # "remove" /\ \A b \in Actors \ {a} : op'[b] = op[b] /\ target'[b] = target[b]
        BY <3>3 DEF TypeOK
      <4> QED
        BY <3>3, <4>1, OthersRemove
    <3> QED
      BY <2>2, <3>1, <3>2, <3>3
  <2>5. CASE Doomed' = Doomed
    BY <2>1, <2>3, <2>5 DEF Store!vars, Doomed
  <2>6. CASE Doomed' = {}
    <3>1. Store!Settle
      BY <2>1, <2>3, <2>6 DEF Store!Settle, Doomed
    <3> QED
      BY <3>1 DEF Store!Next
  <2> QED
    BY <2>4, <2>5, <2>6
<1>25. ASSUME NEW a \in Actors, Release(a) PROVE [Store!Next]_(Store!vars)
  <2>1. UNCHANGED <<remote, index, gone, dir, old>>
    BY <1>25 DEF Release
  <2>2. \/ UNCHANGED <<op, target>>
        \/ op' = [op EXCEPT ![a] = "none"] /\ target' = [target EXCEPT ![a] = None]
    BY <1>25 DEF Release, Return
  <2>3. Recovered(dir, old)' = Recovered(dir, old)
    BY <2>1
  <2>4. Doomed' \in {Doomed, {}}
    <3>1. CASE op[a] = "remove" /\ op' = [op EXCEPT ![a] = "none"]
      <4>1. \A b \in Actors : op'[b] # "remove"
        BY <3>1, RemoverHolds DEF TypeOK
      <4> QED
        BY <4>1 DEF Doomed, BeingRemoved
    <3>2. CASE UNCHANGED <<op, target>>
      BY <3>2 DEF Doomed, BeingRemoved
    <3>3. CASE /\ op[a] # "remove" /\ op' = [op EXCEPT ![a] = "none"]
               /\ target' = [target EXCEPT ![a] = None]
      <4>1. op'[a] # "remove" /\ \A b \in Actors \ {a} : op'[b] = op[b] /\ target'[b] = target[b]
        BY <3>3 DEF TypeOK
      <4> QED
        BY <3>3, <4>1, OthersRemove
    <3> QED
      BY <2>2, <3>1, <3>2, <3>3
  <2>5. CASE Doomed' = Doomed
    BY <2>1, <2>3, <2>5 DEF Store!vars, Doomed
  <2>6. CASE Doomed' = {}
    <3>1. Store!Settle
      BY <2>1, <2>3, <2>6 DEF Store!Settle, Doomed
    <3> QED
      BY <3>1 DEF Store!Next
  <2> QED
    BY <2>4, <2>5, <2>6
<1>26. CASE Restart
  <2>1. UNCHANGED <<remote, index, gone>>
    BY <1>26 DEF Restart
  <2>2. Recovered(dir, old)' = Recovered(dir, old)
    BY <1>26 DEF Restart, Recovered, NoAnswer, TypeOK
  <2>3. Doomed' = {}
    BY <1>26 DEF Restart, Doomed, BeingRemoved
  <2>4. Store!Settle
    BY <2>1, <2>2, <2>3 DEF Store!Settle, Doomed
  <2> QED
    BY <2>4 DEF Store!Next
<1>27. CASE UNCHANGED vars
  BY <1>27 DEF vars, Store!vars, BeingRemoved, Recovered
<1> QED
  BY <1>1, <1>2, <1>3, <1>4, <1>5, <1>6, <1>7, <1>8, <1>9, <1>10, <1>11, <1>12,
    <1>13, <1>14, <1>15, <1>16, <1>17, <1>18, <1>19, <1>20, <1>21, <1>22, <1>23, <1>24,
    <1>25, <1>26, <1>27
     DEF Next, UserBegins, Commit, Remove, Finish, Read

(* For any number of subscriptions, any faults and any crashes, the store  *)
(* behaves as the abstract table of bodies: what is kept of a subscription *)
(* is replaced at once by what its provider served, lost only to a removal *)
(* that was ordered, and off the list for good after one                   *)
(* (commit_staged_subscription, remove_subscription, load_index).          *)
THEOREM KeepsTheStore == Spec => ImplementsStore
<1>1. Init => Store!Init
  BY DEF Init, Store!Init, NoIndex, NoAnswer, Recovered, BeingRemoved, Does, Actors
<1>2. Inv /\ StoreInv /\ Inv' /\ [Next]_vars => [Store!Next]_(Store!vars)
  BY StoreStep
<1> QED
  BY <1>1, <1>2, SubscriptionInvariant, StoreInvariant, PTL DEF Spec, ImplementsStore, Store!Spec
=============================================================================
