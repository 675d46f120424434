---------------------------- MODULE NodeSelection ---------------------------
(***************************************************************************)
(* Picking a node (application/nodes.rs), and the short-lived reads of     *)
(* what the core really uses (LiveCache in application/common.rs).         *)
(*                                                                         *)
(* A pick is written in three files and then switched live in the core, in *)
(* that order, under the orchestrate lock; a refused switch takes the      *)
(* files back.  Readers ask the core over HTTP without that lock and keep  *)
(* the answer; a pick writes its own result over theirs.  The profile is   *)
(* flat (one "proxy" selector) or has a strategy group that holds every    *)
(* node.  Samples of an earlier core generation never match again, so a    *)
(* sample says only whether its generation is the current one.             *)
(***************************************************************************)
CONSTANTS
  Nodes,
  NoNode,
  Faults      (* what can fail: a subset of FaultKinds                     *)

FaultKinds == {"selections", "settings", "config", "core"}

ASSUME NodesAssumption == NoNode \notin Nodes /\ Nodes # {}
ASSUME FaultsAssumption == Faults \subseteq FaultKinds

VARIABLES
  grouped,    (* does the profile have a strategy group?                   *)
  selected,   (* settings.json: selected_tag                               *)
  selection,  (* group selections file: the member picked for the group    *)
  config,     (* config.json: the selector's default                       *)
  running,    (* is the core running?                                      *)
  live,       (* the core: the member its selector uses                    *)
  pick,       (* the pick in progress: operation, node, next step          *)
  before,     (* what the files said when it began                         *)
  broken,     (* history: a refused pick left a file behind it             *)
  promised,   (* history: the node the user was last promised              *)
  groups, now,            (* samples of the core: LiveCache.groups and     *)
                          (* selected_now                                  *)
  groupsFetch, nowFetch   (* reads in flight, which hold their fetch lock  *)

files == <<selected, selection, config>>
core == <<running, live>>
samples == <<groups, now>>
fetches == <<groupsFetch, nowFetch>>
history == <<broken, promised>>
vars == <<grouped, files, core, pick, before, history, samples, fetches>>

Maybe == Nodes \cup {NoNode}
NoPick == [op |-> "none", node |-> NoNode, pc |-> "idle"]
NoSample == [now |-> NoNode, current |-> FALSE]
NoFetch == [pc |-> "idle", now |-> NoNode, current |-> FALSE]

Can(fault) == fault \in Faults
At(step) == pick.pc = step
Goto(step) == pick' = [pick EXCEPT !.pc = step]
Done == pick' = NoPick
Promise == promised' = pick.node /\ broken' = FALSE

(* What a rebuild bakes in: the group's selection, else the selected tag,  *)
(* else some node (build_config).                                          *)
Generated(s, g) ==
  IF grouped /\ g # NoNode THEN {g}
  ELSE IF ~grouped /\ s # NoNode THEN {s}
  ELSE {CHOOSE n \in Nodes : TRUE}

Init ==
  /\ grouped \in BOOLEAN
  /\ selected = NoNode /\ selection = NoNode
  /\ config \in Generated(NoNode, NoNode)
  /\ running = FALSE /\ live = config
  /\ pick = NoPick
  /\ before = [selected |-> NoNode, selection |-> NoNode]
  /\ broken = FALSE /\ promised = NoNode
  /\ groups = NoSample /\ now = NoSample
  /\ groupsFetch = NoFetch /\ nowFetch = NoFetch
-----------------------------------------------------------------------------
(***************************************************************************)
(* select_node, select_group_member                                        *)
(***************************************************************************)
PickBegins ==
  /\ At("idle")
  /\ \E n \in Nodes, op \in {"node"} \cup (IF grouped THEN {"member"} ELSE {}) :
       pick' = [op |-> op, node |-> n, pc |-> IF grouped THEN "selection" ELSE "settings"]
  /\ before' = [selected |-> selected, selection |-> selection]
  /\ UNCHANGED <<grouped, files, core, history, samples, fetches>>

(* Mutant: a node pick keeps the group's selection to itself.              *)
SaveSelectionOfMembers ==
  /\ At("selection")
  /\ IF pick.op = "node"
       THEN Goto("settings") /\ UNCHANGED <<selection, history>>
       ELSE selection' = pick.node /\ Goto("live") /\ Promise
  /\ UNCHANGED <<grouped, selected, config, core, before, samples, fetches>>

(* A member pick is meant to survive whatever happens to the live switch.  *)
SaveSelection ==
  /\ At("selection")
  /\ \/ /\ selection' = pick.node
        /\ IF pick.op = "node"
             THEN Goto("settings") /\ UNCHANGED history
             ELSE Goto("live") /\ Promise
     \/ /\ Can("selections")
        /\ Done
        /\ UNCHANGED <<selection, history>>
  /\ UNCHANGED <<grouped, selected, config, core, before, samples, fetches>>

(* The early return leaves the group's selection as it is.                 *)
SaveSettings ==
  /\ At("settings")
  /\ \/ selected' = pick.node /\ Goto("config") /\ UNCHANGED broken
     \/ /\ Can("settings")
        /\ Done
        /\ broken' = (broken \/ selection # before.selection)
        /\ UNCHANGED selected
  /\ UNCHANGED <<grouped, selection, config, core, before, promised, samples, fetches>>

(* Mutant: only the settings are taken back.                               *)
RollBackSettings ==
  /\ selected' = before.selected
  /\ UNCHANGED <<selection, broken>>

(* Take back the settings and the group's selection, each if it can be     *)
(* written.                                                                *)
RollBack ==
  /\ \/ selected' = before.selected
     \/ Can("settings") /\ UNCHANGED selected
  /\ \/ selection' = IF grouped THEN before.selection ELSE selection
     \/ Can("selections") /\ grouped /\ UNCHANGED selection
  /\ broken' = (broken \/ selected' # before.selected
                       \/ selection' # before.selection)

(* The selector's default is patched; without a config it is rebuilt.      *)
SaveConfig ==
  /\ At("config")
  /\ \/ /\ config' = pick.node
        /\ Goto("live")
        /\ UNCHANGED <<selected, selection, broken>>
     \/ /\ Can("config")
        /\ RollBack
        /\ Done
        /\ UNCHANGED config
  /\ UNCHANGED <<grouped, core, before, promised, samples, fetches>>

(* select_group and select_outbound over the Clash API.                    *)
SwitchLive ==
  /\ At("live") /\ running
  /\ \/ /\ live' = pick.node
        /\ Goto("record")
        /\ UNCHANGED <<files, broken>>
     \/ /\ Can("core")
        /\ Done
        /\ IF pick.op = "node"
             THEN /\ RollBack
                  /\ \/ config' \in Generated(before.selected, selection')
                     \/ Can("config") /\ UNCHANGED config
             ELSE UNCHANGED <<files, broken>>
        /\ UNCHANGED live
  /\ UNCHANGED <<grouped, running, before, promised, samples, fetches>>

(* Without a core, a member pick goes into the config instead.             *)
SkipLive ==
  /\ At("live") /\ ~running
  /\ \/ /\ config' = pick.node
        /\ Promise
     \/ /\ pick.op = "member" /\ Can("config")
        /\ UNCHANGED <<config, history>>
  /\ Done
  /\ UNCHANGED <<grouped, selected, selection, core, before, samples, fetches>>

(* Mutant: the record does not wait for reads in flight.                   *)
RecordNowAtOnce ==
  /\ At("record")
  /\ groups' = IF groups.current THEN [groups EXCEPT !.now = pick.node] ELSE groups
  /\ now' = [now |-> pick.node, current |-> TRUE]
  /\ Promise
  /\ Done
  /\ UNCHANGED <<grouped, files, core, before, fetches>>

(* record_group_now holds both fetch locks; it corrects a groups sample of *)
(* this core and replaces the other one.                                   *)
RecordNow ==
  /\ At("record")
  /\ groupsFetch.pc = "idle" /\ nowFetch.pc = "idle"
  /\ groups' = IF groups.current THEN [groups EXCEPT !.now = pick.node] ELSE groups
  /\ now' = [now |-> pick.node, current |-> TRUE]
  /\ Promise
  /\ Done
  /\ UNCHANGED <<grouped, files, core, before, fetches>>

Pick == PickBegins \/ SaveSelection \/ SaveSettings \/ SaveConfig \/ SwitchLive
          \/ SkipLive \/ RecordNow
-----------------------------------------------------------------------------
(***************************************************************************)
(* Reads: load_proxy_groups and load_selected_now, each single-flight.  A  *)
(* sample can be too old at any time, so a read can begin at any time.     *)
(***************************************************************************)
Outdated(s) == [s EXCEPT !.current = FALSE]

GroupsFetchBegins ==
  /\ running /\ groupsFetch.pc = "idle"
  /\ groupsFetch' = [NoFetch EXCEPT !.pc = "ask", !.current = TRUE]
  /\ UNCHANGED <<grouped, files, core, pick, before, history, samples, nowFetch>>

NowFetchBegins ==
  /\ running /\ nowFetch.pc = "idle"
  /\ nowFetch' = [NoFetch EXCEPT !.pc = "ask", !.current = TRUE]
  /\ UNCHANGED <<grouped, files, core, pick, before, history, samples, groupsFetch>>

(* The core answers with the member in use, or the request fails.          *)
GroupsAsked ==
  /\ groupsFetch.pc = "ask"
  /\ \/ running /\ groupsFetch' = [groupsFetch EXCEPT !.pc = "keep", !.now = live]
     \/ groupsFetch' = NoFetch
  /\ UNCHANGED <<grouped, files, core, pick, before, history, samples, nowFetch>>

NowAsked ==
  /\ nowFetch.pc = "ask"
  /\ \/ running /\ nowFetch' = [nowFetch EXCEPT !.pc = "keep", !.now = live]
     \/ nowFetch' = NoFetch
  /\ UNCHANGED <<grouped, files, core, pick, before, history, samples, groupsFetch>>

GroupsKept ==
  /\ groupsFetch.pc = "keep"
  /\ groups' = [now |-> groupsFetch.now, current |-> groupsFetch.current]
  /\ groupsFetch' = NoFetch
  /\ UNCHANGED <<grouped, files, core, pick, before, history, now, nowFetch>>

NowKept ==
  /\ nowFetch.pc = "keep"
  /\ now' = [now |-> nowFetch.now, current |-> nowFetch.current]
  /\ nowFetch' = NoFetch
  /\ UNCHANGED <<grouped, files, core, pick, before, history, groups, groupsFetch>>

Reads == GroupsFetchBegins \/ NowFetchBegins \/ GroupsAsked \/ NowAsked
           \/ GroupsKept \/ NowKept

(* What a reader is given while samples are fresh: the groups sample of    *)
(* this core first (load_selected_now).                                    *)
Shown == IF groups.current THEN groups.now
         ELSE IF now.current THEN now.now ELSE NoNode
-----------------------------------------------------------------------------
(* The core starts on a rebuilt config, under the orchestrate lock.        *)
CoreStarts ==
  /\ At("idle") /\ ~running
  /\ config' \in Generated(selected, selection)
  /\ running' = TRUE /\ live' = config'
  /\ groups' = Outdated(groups) /\ now' = Outdated(now)
  /\ groupsFetch' = Outdated(groupsFetch) /\ nowFetch' = Outdated(nowFetch)
  /\ UNCHANGED <<grouped, selected, selection, pick, before, history>>

(* A new generation is published; samples of the old one stay in memory.   *)
CoreStops ==
  /\ At("idle") /\ running
  /\ running' = FALSE
  /\ groups' = Outdated(groups) /\ now' = Outdated(now)
  /\ groupsFetch' = Outdated(groupsFetch) /\ nowFetch' = Outdated(nowFetch)
  /\ UNCHANGED <<grouped, files, live, pick, before, history>>

Next == Pick \/ Reads \/ CoreStarts \/ CoreStops

Spec == Init /\ [][Next]_vars
-----------------------------------------------------------------------------
(***************************************************************************)
(* Properties                                                              *)
(***************************************************************************)
TypeOK ==
  /\ grouped \in BOOLEAN /\ running \in BOOLEAN /\ broken \in BOOLEAN
  /\ {selected, selection, promised} \subseteq Maybe
  /\ {config, live} \subseteq Nodes
  /\ pick \in [op : {"none", "node", "member"}, node : Maybe,
               pc : {"idle", "selection", "settings", "config", "live", "record"}]
  /\ before \in [selected : Maybe, selection : Maybe]
  /\ {groups, now} \subseteq [now : Maybe, current : BOOLEAN]
  /\ {groupsFetch, nowFetch} \subseteq
       [pc : {"idle", "ask", "keep"}, now : Maybe, current : BOOLEAN]

(* Once a pick is recorded, no reader is shown the member it replaced, not *)
(* even by a read that asked the core before the switch (record_group_now: *)
(* "an in-flight read ... cannot publish the old member afterwards").      *)
ShownIsLive == ~At("record") /\ running /\ Shown # NoNode => Shown = live

(* A node pick the core refuses, or whose config cannot be written, leaves *)
(* settings and selection as they were, unless an earlier or the present   *)
(* refusal could not take its files back.                                  *)
RefusedPickIsUndone ==
  [][pick.op = "node" /\ pick.pc \in {"config", "live"} /\ pick'.pc = "idle" /\ ~broken'
       => \/ promised' = pick.node
          \/ selected' = before.selected /\ selection' = before.selection]_vars

(* The node a pick promised is the one the core comes back with after a    *)
(* restart (select_group_member: the pick "always survives restarts").     *)
PromiseSurvivesRestart ==
  [][~running /\ running' /\ promised # NoNode /\ ~broken => live' = promised]_vars
=============================================================================
