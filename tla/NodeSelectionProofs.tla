------------------------- MODULE NodeSelectionProofs -------------------------
(***************************************************************************)
(* Proofs about NodeSelection for any set of nodes and any faults: the     *)
(* types, what a reader is shown, and what a pick does to the files.       *)
(***************************************************************************)
EXTENDS NodeSelection, TLAPS

Picks == [op : {"none", "node", "member"}, node : Maybe,
          pc : {"idle", "selection", "settings", "config", "live", "record"}]
Befores == [selected : Maybe, selection : Maybe]
SampleType == [now : Maybe, current : BOOLEAN]
FetchType == [pc : {"idle", "ask", "keep"}, now : Maybe, current : BOOLEAN]

Typed ==
  /\ grouped \in BOOLEAN /\ running \in BOOLEAN /\ broken \in BOOLEAN
  /\ selected \in Maybe /\ selection \in Maybe /\ promised \in Maybe
  /\ config \in Nodes /\ live \in Nodes
  /\ pick \in Picks /\ before \in Befores
  /\ groups \in SampleType /\ now \in SampleType
  /\ groupsFetch \in FetchType /\ nowFetch \in FetchType

(* Which steps a pick goes through.                                        *)
Staged ==
  /\ pick.pc # "idle" => pick.node \in Nodes /\ pick.op # "none"
  /\ pick.op = "member" => grouped /\ pick.pc \in {"selection", "live", "record"}
  /\ pick.pc = "selection" => grouped

(* What was read of the present core is what it uses, but for the step     *)
(* between a switch and its record.                                        *)
Read ==
  /\ groups.current => running
  /\ now.current => running
  /\ groupsFetch.current => running
  /\ nowFetch.current => running
  /\ pick.pc = "record" => running /\ live = pick.node
  /\ pick.pc # "record" =>
       /\ groups.current => groups.now = live
       /\ now.current => now.now = live
       /\ groupsFetch.current /\ groupsFetch.pc = "keep" => groupsFetch.now = live
       /\ nowFetch.current /\ nowFetch.pc = "keep" => nowFetch.now = live

(* The files at each step of a pick.                                       *)
Filed ==
  /\ pick.pc \in {"selection", "settings"} => selected = before.selected
  /\ pick.pc = "selection" => selection = before.selection
  /\ pick.pc # "idle" /\ ~grouped => selection = before.selection
  /\ pick.pc \in {"settings", "config", "live", "record"} /\ grouped => selection = pick.node
  /\ pick.op = "node" /\ pick.pc \in {"config", "live", "record"} => selected = pick.node

(* The last promise is in the files, or in the copy taken of them.         *)
Backed(s, g) == promised # NoNode /\ ~broken => promised = IF grouped THEN g ELSE s
Promised ==
  /\ pick.pc = "idle" => Backed(selected, selection)
  /\ pick.pc # "idle" /\ (pick.op = "node" \/ pick.pc = "selection")
       => Backed(before.selected, before.selection)
  /\ pick.op = "member" /\ pick.pc \in {"live", "record"} => promised = pick.node

Inv == Typed /\ Staged /\ Read /\ Filed /\ Promised

-----------------------------------------------------------------------------
LEMMA Initially == Init => Inv
<1> SUFFICES ASSUME Init PROVE Inv
  OBVIOUS
<1> USE NodesAssumption DEF Init, Maybe, NoPick, NoSample, NoFetch, Generated
<1>1. config \in Nodes
  OBVIOUS
<1>2. Typed
  BY <1>1 DEF Typed, Picks, Befores, SampleType, FetchType
<1>3. Staged /\ Read /\ Filed
  BY DEF Staged, Read, Filed
<1>4. Promised
  BY DEF Promised, Backed
<1> QED
  BY <1>2, <1>3, <1>4 DEF Inv

LEMMA GeneratedIsNode ==
  ASSUME NEW s \in Maybe, NEW g \in Maybe
  PROVE  Generated(s, g) \subseteq Nodes
BY NodesAssumption DEF Generated, Maybe

LEMMA StepTypes ==
  /\ \A p \in Picks, s \in {"idle", "selection", "settings", "config", "live", "record"} :
       [p EXCEPT !.pc = s] \in Picks
  /\ NoPick \in Picks
  /\ NoSample \in SampleType /\ NoFetch \in FetchType
  /\ \A f \in FetchType, n \in Maybe : [f EXCEPT !.pc = "keep", !.now = n] \in FetchType
  /\ \A f \in FetchType : [f EXCEPT !.pc = "ask", !.current = TRUE] \in FetchType
  /\ \A f \in FetchType : Outdated(f) \in FetchType
  /\ \A m \in SampleType : Outdated(m) \in SampleType
  /\ \A m \in SampleType, n \in Maybe : [m EXCEPT !.now = n] \in SampleType
BY DEF Picks, SampleType, FetchType, NoPick, NoSample, NoFetch, Outdated, Maybe

LEMMA Preserved == Inv /\ [Next]_vars => Inv'
<1> SUFFICES ASSUME Inv, [Next]_vars PROVE Inv'
  OBVIOUS
<1> USE NodesAssumption DEF Inv, Staged, Read, Filed,
        Promised, Backed, files, core, samples, fetches, history,
        Maybe, NoPick, NoFetch, Can, At, Goto, Done, Promise, Outdated
<1>1. CASE PickBegins
  <2>1. Typed'
    BY <1>1 DEF PickBegins, Typed, Picks, Befores, SampleType, FetchType
  <2>2. Staged' /\ Read' /\ Filed' /\ Promised'
    BY <1>1 DEF PickBegins, Typed, Picks, Befores, SampleType, FetchType
  <2> QED
    BY <2>1, <2>2
<1>2. CASE SaveSelection
  <2>1. Typed'
    <3>1. broken' \in BOOLEAN
      BY <1>2, Zenon DEF SaveSelection, Typed, Picks, Befores, SampleType, FetchType
    <3>2. pick' \in Picks
      BY <1>2, StepTypes DEF SaveSelection, Typed
    <3>3. /\ groups' \in SampleType /\ now' \in SampleType
          /\ groupsFetch' \in FetchType /\ nowFetch' \in FetchType
      BY <1>2, StepTypes DEF SaveSelection, Typed
    <3>4. grouped' \in BOOLEAN /\ running' \in BOOLEAN /\ before' \in Befores
      BY <1>2 DEF SaveSelection, Typed, Picks, Befores, SampleType, FetchType
    <3>5. /\ selected' \in Maybe /\ selection' \in Maybe /\ promised' \in Maybe
          /\ config' \in Nodes /\ live' \in Nodes
      BY <1>2, GeneratedIsNode DEF SaveSelection, Typed, Picks, Befores, SampleType, FetchType
    <3> QED
      BY <3>1, <3>2, <3>3, <3>4, <3>5 DEF Typed
  <2>2. Staged' /\ Read' /\ Filed' /\ Promised'
    BY <1>2 DEF SaveSelection, Typed, Picks, Befores, SampleType, FetchType
  <2> QED
    BY <2>1, <2>2
<1>3. CASE SaveSettings
  <2>1. Typed'
    BY <1>3 DEF SaveSettings, Typed, Picks, Befores, SampleType, FetchType
  <2>2. Staged' /\ Read' /\ Filed' /\ Promised'
    BY <1>3 DEF SaveSettings, Typed, Picks, Befores, SampleType, FetchType
  <2> QED
    BY <2>1, <2>2
<1>4. CASE SaveConfig
  <2>1. Typed'
    <3>1. broken' \in BOOLEAN
      BY <1>4, Zenon DEF SaveConfig, RollBack, Typed, Picks, Befores, SampleType, FetchType
    <3>2. pick' \in Picks
      BY <1>4, StepTypes DEF SaveConfig, RollBack, Typed
    <3>3. /\ groups' \in SampleType /\ now' \in SampleType
          /\ groupsFetch' \in FetchType /\ nowFetch' \in FetchType
      BY <1>4, StepTypes DEF SaveConfig, RollBack, Typed
    <3>4. grouped' \in BOOLEAN /\ running' \in BOOLEAN /\ before' \in Befores
      BY <1>4 DEF SaveConfig, RollBack, Typed, Picks, Befores, SampleType, FetchType
    <3>5. /\ selected' \in Maybe /\ selection' \in Maybe /\ promised' \in Maybe
          /\ config' \in Nodes /\ live' \in Nodes
      BY <1>4, GeneratedIsNode DEF SaveConfig, RollBack, Typed, Picks, Befores, SampleType, FetchType
    <3> QED
      BY <3>1, <3>2, <3>3, <3>4, <3>5 DEF Typed
  <2>2. Staged'
    BY <1>4 DEF SaveConfig, RollBack, Typed, Picks, Befores, SampleType, FetchType
  <2>3. Read'
    BY <1>4 DEF SaveConfig, RollBack, Typed, Picks, Befores, SampleType, FetchType
  <2>4. Filed'
    BY <1>4 DEF SaveConfig, RollBack, Typed, Picks, Befores, SampleType, FetchType
  <2>5. Promised'
    <3>1. CASE RollBack /\ pick' = NoPick
      <4>1. ~broken' => ~broken /\ selected' = before.selected /\ selection' = before.selection
        BY <3>1 DEF RollBack
      <4> QED
        BY <1>4, <3>1, <4>1 DEF SaveConfig, Typed, Picks, Befores, SampleType, FetchType
    <3>2. CASE ~(RollBack /\ pick' = NoPick)
      BY <1>4, <3>2 DEF SaveConfig, Typed, Picks, Befores, SampleType, FetchType
    <3> QED
      BY <3>1, <3>2
  <2> QED
    BY <2>1, <2>2, <2>3, <2>4, <2>5
<1>5. CASE SwitchLive
  <2>1. Typed'
    <3>1. broken' \in BOOLEAN
      BY <1>5, Zenon DEF SwitchLive, RollBack, Typed, Picks, Befores, SampleType, FetchType
    <3>2. pick' \in Picks
      BY <1>5, StepTypes DEF SwitchLive, RollBack, Typed
    <3>3. /\ groups' \in SampleType /\ now' \in SampleType
          /\ groupsFetch' \in FetchType /\ nowFetch' \in FetchType
      BY <1>5, StepTypes DEF SwitchLive, RollBack, Typed
    <3>4. grouped' \in BOOLEAN /\ running' \in BOOLEAN /\ before' \in Befores
      BY <1>5 DEF SwitchLive, RollBack, Typed, Picks, Befores, SampleType, FetchType
    <3>5. /\ selected' \in Maybe /\ selection' \in Maybe /\ promised' \in Maybe
          /\ config' \in Nodes /\ live' \in Nodes
      BY <1>5, GeneratedIsNode DEF SwitchLive, RollBack, Typed, Picks, Befores, SampleType, FetchType
    <3> QED
      BY <3>1, <3>2, <3>3, <3>4, <3>5 DEF Typed
  <2>2. Staged'
    BY <1>5 DEF SwitchLive, RollBack, Typed, Picks, Befores, SampleType, FetchType
  <2>3. Read'
    BY <1>5 DEF SwitchLive, RollBack, Typed, Picks, Befores, SampleType, FetchType
  <2>4. Filed'
    BY <1>5 DEF SwitchLive, RollBack, Typed, Picks, Befores, SampleType, FetchType
  <2>5. Promised'
    <3>1. CASE RollBack /\ pick' = NoPick
      <4>1. ~broken' => ~broken /\ selected' = before.selected /\ selection' = before.selection
        BY <3>1 DEF RollBack
      <4> QED
        BY <1>5, <3>1, <4>1 DEF SwitchLive, Typed, Picks, Befores, SampleType, FetchType
    <3>2. CASE ~(RollBack /\ pick' = NoPick)
      BY <1>5, <3>2 DEF SwitchLive, Typed, Picks, Befores, SampleType, FetchType
    <3> QED
      BY <3>1, <3>2
  <2> QED
    BY <2>1, <2>2, <2>3, <2>4, <2>5
<1>6. CASE SkipLive
  <2>1. Typed'
    <3>1. broken' \in BOOLEAN
      BY <1>6, Zenon DEF SkipLive, Typed, Picks, Befores, SampleType, FetchType
    <3>2. pick' \in Picks
      BY <1>6, StepTypes DEF SkipLive, Typed
    <3>3. /\ groups' \in SampleType /\ now' \in SampleType
          /\ groupsFetch' \in FetchType /\ nowFetch' \in FetchType
      BY <1>6, StepTypes DEF SkipLive, Typed
    <3>4. grouped' \in BOOLEAN /\ running' \in BOOLEAN /\ before' \in Befores
      BY <1>6 DEF SkipLive, Typed, Picks, Befores, SampleType, FetchType
    <3>5. /\ selected' \in Maybe /\ selection' \in Maybe /\ promised' \in Maybe
          /\ config' \in Nodes /\ live' \in Nodes
      BY <1>6, GeneratedIsNode DEF SkipLive, Typed, Picks, Befores, SampleType, FetchType
    <3> QED
      BY <3>1, <3>2, <3>3, <3>4, <3>5 DEF Typed
  <2>2. Staged' /\ Read' /\ Filed' /\ Promised'
    BY <1>6 DEF SkipLive, Typed, Picks, Befores, SampleType, FetchType
  <2> QED
    BY <2>1, <2>2
<1>7. CASE RecordNow
  <2>1. Typed'
    BY <1>7 DEF RecordNow, Typed, Picks, Befores, SampleType, FetchType
  <2>2. Staged' /\ Read' /\ Filed' /\ Promised'
    BY <1>7 DEF RecordNow, Typed, Picks, Befores, SampleType, FetchType
  <2> QED
    BY <2>1, <2>2
<1>8. CASE GroupsFetchBegins
  <2>1. Typed'
    <3>1. broken' \in BOOLEAN
      BY <1>8, Zenon DEF GroupsFetchBegins, Typed, Picks, Befores, SampleType, FetchType
    <3>2. pick' \in Picks
      BY <1>8, StepTypes DEF GroupsFetchBegins, Typed
    <3>3. /\ groups' \in SampleType /\ now' \in SampleType
          /\ groupsFetch' \in FetchType /\ nowFetch' \in FetchType
      BY <1>8, StepTypes DEF GroupsFetchBegins, Typed
    <3>4. grouped' \in BOOLEAN /\ running' \in BOOLEAN /\ before' \in Befores
      BY <1>8 DEF GroupsFetchBegins, Typed, Picks, Befores, SampleType, FetchType
    <3>5. /\ selected' \in Maybe /\ selection' \in Maybe /\ promised' \in Maybe
          /\ config' \in Nodes /\ live' \in Nodes
      BY <1>8, GeneratedIsNode DEF GroupsFetchBegins, Typed, Picks, Befores, SampleType, FetchType
    <3> QED
      BY <3>1, <3>2, <3>3, <3>4, <3>5 DEF Typed
  <2>2. Staged' /\ Read' /\ Filed' /\ Promised'
    BY <1>8 DEF GroupsFetchBegins, Typed, Picks, Befores, SampleType, FetchType
  <2> QED
    BY <2>1, <2>2
<1>9. CASE NowFetchBegins
  <2>1. Typed'
    <3>1. broken' \in BOOLEAN
      BY <1>9, Zenon DEF NowFetchBegins, Typed, Picks, Befores, SampleType, FetchType
    <3>2. pick' \in Picks
      BY <1>9, StepTypes DEF NowFetchBegins, Typed
    <3>3. /\ groups' \in SampleType /\ now' \in SampleType
          /\ groupsFetch' \in FetchType /\ nowFetch' \in FetchType
      BY <1>9, StepTypes DEF NowFetchBegins, Typed
    <3>4. grouped' \in BOOLEAN /\ running' \in BOOLEAN /\ before' \in Befores
      BY <1>9 DEF NowFetchBegins, Typed, Picks, Befores, SampleType, FetchType
    <3>5. /\ selected' \in Maybe /\ selection' \in Maybe /\ promised' \in Maybe
          /\ config' \in Nodes /\ live' \in Nodes
      BY <1>9, GeneratedIsNode DEF NowFetchBegins, Typed, Picks, Befores, SampleType, FetchType
    <3> QED
      BY <3>1, <3>2, <3>3, <3>4, <3>5 DEF Typed
  <2>2. Staged' /\ Read' /\ Filed' /\ Promised'
    BY <1>9 DEF NowFetchBegins, Typed, Picks, Befores, SampleType, FetchType
  <2> QED
    BY <2>1, <2>2
<1>10. CASE GroupsAsked
  <2>1. Typed'
    <3>1. broken' \in BOOLEAN
      BY <1>10, Zenon DEF GroupsAsked, Typed, Picks, Befores, SampleType, FetchType
    <3>2. pick' \in Picks
      BY <1>10, StepTypes DEF GroupsAsked, Typed
    <3>3. /\ groups' \in SampleType /\ now' \in SampleType
          /\ groupsFetch' \in FetchType /\ nowFetch' \in FetchType
      BY <1>10, StepTypes DEF GroupsAsked, Typed
    <3>4. grouped' \in BOOLEAN /\ running' \in BOOLEAN /\ before' \in Befores
      BY <1>10 DEF GroupsAsked, Typed, Picks, Befores, SampleType, FetchType
    <3>5. /\ selected' \in Maybe /\ selection' \in Maybe /\ promised' \in Maybe
          /\ config' \in Nodes /\ live' \in Nodes
      BY <1>10, GeneratedIsNode DEF GroupsAsked, Typed, Picks, Befores, SampleType, FetchType
    <3> QED
      BY <3>1, <3>2, <3>3, <3>4, <3>5 DEF Typed
  <2>2. Staged'
    BY <1>10 DEF GroupsAsked, Typed, Picks, Befores, SampleType, FetchType
  <2>3. Read'
    <3>1. CASE groupsFetch' = NoFetch
      BY <1>10, <3>1 DEF GroupsAsked, Typed, Picks, Befores, SampleType, FetchType
    <3>2. CASE groupsFetch' = [groupsFetch EXCEPT !.pc = "keep", !.now = live]
      <4>1. groupsFetch'.current = groupsFetch.current /\ groupsFetch'.now = live
        BY <3>2 DEF Typed, Picks, Befores, SampleType, FetchType
      <4> QED
        BY <1>10, <4>1 DEF GroupsAsked
    <3> QED
      BY <1>10, <3>1, <3>2 DEF GroupsAsked
  <2>4. Filed'
    BY <1>10 DEF GroupsAsked, Typed, Picks, Befores, SampleType, FetchType
  <2>5. Promised'
    BY <1>10 DEF GroupsAsked, Typed, Picks, Befores, SampleType, FetchType
  <2> QED
    BY <2>1, <2>2, <2>3, <2>4, <2>5
<1>11. CASE NowAsked
  <2>1. Typed'
    <3>1. broken' \in BOOLEAN
      BY <1>11, Zenon DEF NowAsked, Typed, Picks, Befores, SampleType, FetchType
    <3>2. pick' \in Picks
      BY <1>11, StepTypes DEF NowAsked, Typed
    <3>3. /\ groups' \in SampleType /\ now' \in SampleType
          /\ groupsFetch' \in FetchType /\ nowFetch' \in FetchType
      BY <1>11, StepTypes DEF NowAsked, Typed
    <3>4. grouped' \in BOOLEAN /\ running' \in BOOLEAN /\ before' \in Befores
      BY <1>11 DEF NowAsked, Typed, Picks, Befores, SampleType, FetchType
    <3>5. /\ selected' \in Maybe /\ selection' \in Maybe /\ promised' \in Maybe
          /\ config' \in Nodes /\ live' \in Nodes
      BY <1>11, GeneratedIsNode DEF NowAsked, Typed, Picks, Befores, SampleType, FetchType
    <3> QED
      BY <3>1, <3>2, <3>3, <3>4, <3>5 DEF Typed
  <2>2. Staged'
    BY <1>11 DEF NowAsked, Typed, Picks, Befores, SampleType, FetchType
  <2>3. Read'
    <3>1. CASE nowFetch' = NoFetch
      BY <1>11, <3>1 DEF NowAsked, Typed, Picks, Befores, SampleType, FetchType
    <3>2. CASE nowFetch' = [nowFetch EXCEPT !.pc = "keep", !.now = live]
      <4>1. nowFetch'.current = nowFetch.current /\ nowFetch'.now = live
        BY <3>2 DEF Typed, Picks, Befores, SampleType, FetchType
      <4> QED
        BY <1>11, <4>1 DEF NowAsked
    <3> QED
      BY <1>11, <3>1, <3>2 DEF NowAsked
  <2>4. Filed'
    BY <1>11 DEF NowAsked, Typed, Picks, Befores, SampleType, FetchType
  <2>5. Promised'
    BY <1>11 DEF NowAsked, Typed, Picks, Befores, SampleType, FetchType
  <2> QED
    BY <2>1, <2>2, <2>3, <2>4, <2>5
<1>12. CASE GroupsKept
  <2>1. Typed'
    BY <1>12 DEF GroupsKept, Typed, Picks, Befores, SampleType, FetchType
  <2>2. Staged' /\ Read' /\ Filed' /\ Promised'
    BY <1>12 DEF GroupsKept, Typed, Picks, Befores, SampleType, FetchType
  <2> QED
    BY <2>1, <2>2
<1>13. CASE NowKept
  <2>1. Typed'
    BY <1>13 DEF NowKept, Typed, Picks, Befores, SampleType, FetchType
  <2>2. Staged' /\ Read' /\ Filed' /\ Promised'
    BY <1>13 DEF NowKept, Typed, Picks, Befores, SampleType, FetchType
  <2> QED
    BY <2>1, <2>2
<1>14. CASE CoreStarts
  <2>1. Typed'
    <3>1. broken' \in BOOLEAN
      BY <1>14, Zenon DEF CoreStarts, Typed, Picks, Befores, SampleType, FetchType
    <3>2. pick' \in Picks
      BY <1>14, StepTypes DEF CoreStarts, Typed
    <3>3. /\ groups' \in SampleType /\ now' \in SampleType
          /\ groupsFetch' \in FetchType /\ nowFetch' \in FetchType
      BY <1>14, StepTypes DEF CoreStarts, Typed
    <3>4. grouped' \in BOOLEAN /\ running' \in BOOLEAN /\ before' \in Befores
      BY <1>14 DEF CoreStarts, Typed, Picks, Befores, SampleType, FetchType
    <3>5. /\ selected' \in Maybe /\ selection' \in Maybe /\ promised' \in Maybe
          /\ config' \in Nodes /\ live' \in Nodes
      BY <1>14, GeneratedIsNode DEF CoreStarts, Typed, Picks, Befores, SampleType, FetchType
    <3> QED
      BY <3>1, <3>2, <3>3, <3>4, <3>5 DEF Typed
  <2>2. Staged' /\ Read' /\ Filed' /\ Promised'
    BY <1>14 DEF CoreStarts, Typed, Picks, Befores, SampleType, FetchType
  <2> QED
    BY <2>1, <2>2
<1>15. CASE CoreStops
  <2>1. Typed'
    BY <1>15 DEF CoreStops, Typed, Picks, Befores, SampleType, FetchType
  <2>2. Staged' /\ Read' /\ Filed' /\ Promised'
    BY <1>15 DEF CoreStops, Typed, Picks, Befores, SampleType, FetchType
  <2> QED
    BY <2>1, <2>2
<1>16. CASE UNCHANGED vars
  BY <1>16 DEF vars, Typed, Picks, Befores, SampleType, FetchType
<1> QED
  BY <1>1, <1>2, <1>3, <1>4, <1>5, <1>6, <1>7, <1>8, <1>9, <1>10, <1>11, <1>12, <1>13, <1>14, <1>15, <1>16 DEF Next, Pick, Reads

-----------------------------------------------------------------------------
(* At every step of a pick, the files, what was read of the core and the   *)
(* last promise stand to each other as Staged, Read, Filed and Promised    *)
(* say.                                                                    *)
THEOREM SelectionInvariant == Spec => []Inv
BY Initially, Preserved, PTL DEF Spec

(* Every variable keeps its type, for any nodes and any faults.            *)
THEOREM TypeCorrect == Spec => []TypeOK
<1>1. Inv => TypeOK
  BY DEF Inv, Typed, Picks, Befores, SampleType, FetchType, TypeOK
<1> QED
  BY <1>1, SelectionInvariant, PTL

(* With any number of nodes, no reader is shown a member that a recorded   *)
(* pick replaced (record_group_now).                                       *)
THEOREM ShownAlwaysLive == Spec => []ShownIsLive
<1>1. Inv => ShownIsLive
  BY DEF Inv, Read, ShownIsLive, Shown, At
<1> QED
  BY <1>1, SelectionInvariant, PTL

(* A node pick that was refused leaves the files as it found them, or says *)
(* that it could not (select_node's rollbacks).                            *)
THEOREM RefusalUndone == Spec => RefusedPickIsUndone
<1> DEFINE Undone ==
      pick.op = "node" /\ pick.pc \in {"config", "live"} /\ pick'.pc = "idle" /\ ~broken'
        => \/ promised' = pick.node
           \/ selected' = before.selected /\ selection' = before.selection
<1>1. Inv /\ [Next]_vars => [Undone]_vars
  <2> SUFFICES ASSUME Inv, Next, pick.op = "node", pick.pc \in {"config", "live"},
                      pick'.pc = "idle", ~broken'
               PROVE  \/ promised' = pick.node
                      \/ selected' = before.selected /\ selection' = before.selection
    OBVIOUS
  <2>1. CASE RollBack
    BY <2>1 DEF RollBack
  <2>2. CASE SkipLive
    BY <2>2 DEF SkipLive, Promise
  <2>3. CASE ~RollBack /\ ~SkipLive
    BY <2>3 DEF Inv, Typed, Picks, NoPick, Next, Pick, Reads, At, Goto, Done, PickBegins, SaveSelection, SaveSettings,
         SaveConfig, SwitchLive, RecordNow, GroupsFetchBegins, NowFetchBegins, GroupsAsked,
         NowAsked, GroupsKept, NowKept, CoreStarts, CoreStops
  <2> QED
    BY <2>1, <2>2, <2>3
<1> QED
  BY <1>1, SelectionInvariant, PTL DEF Spec, RefusedPickIsUndone

(* The node that was promised last is the one the core starts on, unless a *)
(* refused pick was left behind in the files (build_config after a pick).  *)
THEOREM PromiseKept == Spec => PromiseSurvivesRestart
<1> DEFINE Kept == ~running /\ running' /\ promised # NoNode /\ ~broken => live' = promised
<1>1. Inv /\ [Next]_vars => [Kept]_vars
  <2> SUFFICES ASSUME Inv, Next, ~running, running', promised # NoNode, ~broken
               PROVE  live' = promised
    OBVIOUS
  <2>1. CoreStarts
    BY DEF Next, Pick, Reads, core, samples, fetches, PickBegins, SaveSelection, SaveSettings,
         SaveConfig, SwitchLive, SkipLive, RecordNow, GroupsFetchBegins, NowFetchBegins,
         GroupsAsked, NowAsked, GroupsKept, NowKept, CoreStops
  <2>2. Generated(selected, selection) = {promised}
    BY <2>1 DEF CoreStarts, At, Inv, Promised, Backed, Typed, Generated
  <2> QED
    BY <2>1, <2>2 DEF CoreStarts
<1> QED
  BY <1>1, SelectionInvariant, PTL DEF Spec, PromiseSurvivesRestart
=============================================================================
