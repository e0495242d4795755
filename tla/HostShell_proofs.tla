-------------------------- MODULE HostShell_proofs --------------------------
(***************************************************************************)
(* Proofs about the web application: the viewer, the upload panel, the     *)
(* launcher with the ground control it starts, the live monitor, and the   *)
(* pages with their forms, each for any values of its constants. The five  *)
(* modules share no state; they are proved side by side.                   *)
(***************************************************************************)
EXTENDS Viewer, MissionPage, GroundControl, Progress, Pages,
        FiniteSetTheorems, SequenceTheorems, TLAPS

-----------------------------------------------------------------------------
(* The viewer.  The invariant says what the cloud effect, which runs       *)
(* after its render, may rely on: whatever has been loaded since that      *)
(* render was being loaded in it.                                          *)

RenderIsRecent ==
  render.pending =>
    /\ live \subseteq render.loading
    /\ render.loaded \subseteq loaded
    /\ loaded \subseteq render.loaded \cup render.loading

SightedLoadsHaveAPlace ==
  \A c \in (live \cap Clouds) \ blind : HasRegion \/ loaded \cap Rasters # {}

ViewerInv ==
  /\ ViewerTypeOK
  /\ NothingLoadedTwice
  /\ CloudsHaveTheirZone
  /\ RenderIsRecent
  /\ SightedLoadsHaveAPlace

LEMMA ViewerInit == Init => ViewerInv
<1> SUFFICES ASSUME Init PROVE ViewerInv
  OBVIOUS
<1> USE DEF Init
<1>1. blind \subseteq Clouds /\ (HasRegion \/ blind = Clouds)
  BY ViewerAssumption
<1>2. ViewerTypeOK
  BY <1>1 DEF ViewerTypeOK, NoRender, Layers
<1>3. NothingLoadedTwice /\ CloudsHaveTheirZone /\ RenderIsRecent
  BY DEF NothingLoadedTwice, CloudsHaveTheirZone, RenderIsRecent, NoRender
<1>4. SightedLoadsHaveAPlace
  BY <1>1 DEF SightedLoadsHaveAPlace
<1> QED BY <1>2, <1>3, <1>4 DEF ViewerInv

\* The answer of a load: it is over, and what it brings was not there.
LEMMA ViewerAnswer ==
  ASSUME ViewerInv, NEW o \in Layers, Answer(o)
  PROVE  ViewerInv'
<1> USE DEF ViewerInv
<1>1. Ends(o)
  BY DEF Answer, PreviewArrives, PreviewMissing, CloudDecoded, LoadFails
<1>2. /\ loaded' = loaded \/ loaded' = loaded \cup {o}
      /\ missing' = missing \/ (o \in Rasters /\ missing' = missing \cup {o})
      /\ changed' \in BOOLEAN
      /\ o \in loaded' \ loaded /\ o \in Projected => o \notin blind
  BY ViewerAssumption
     DEF Answer, PreviewArrives, PreviewMissing, CloudDecoded, LoadFails,
         ViewerTypeOK
<1>3. ViewerTypeOK'
  BY <1>1, <1>2 DEF Ends, ViewerTypeOK, Layers
<1>4. NothingLoadedTwice'
  BY <1>1, <1>2 DEF Ends, NothingLoadedTwice
<1>5. CloudsHaveTheirZone'
  BY <1>1, <1>2, ViewerAssumption
     DEF Ends, CloudsHaveTheirZone, SightedLoadsHaveAPlace
<1>6. RenderIsRecent'
  BY <1>1, <1>2 DEF Ends, RenderIsRecent
<1>7. SightedLoadsHaveAPlace'
  BY <1>1, <1>2 DEF Ends, SightedLoadsHaveAPlace
<1> QED BY <1>3, <1>4, <1>5, <1>6, <1>7

LEMMA ViewerRender ==
  ASSUME ViewerInv, Render
  PROVE  ViewerInv'
<1> USE DEF ViewerInv, Render
<1>1. ViewerTypeOK'
  BY DEF ViewerTypeOK, Rendered
<1>2. NothingLoadedTwice' /\ CloudsHaveTheirZone' /\ SightedLoadsHaveAPlace'
  BY DEF NothingLoadedTwice, CloudsHaveTheirZone, SightedLoadsHaveAPlace
<1>3. RenderIsRecent'
  BY DEF RenderIsRecent, Rendered, ViewerTypeOK
<1> QED BY <1>1, <1>2, <1>3

LEMMA ViewerCloudEffect ==
  ASSUME ViewerInv, CloudEffect
  PROVE  ViewerInv'
<1> DEFINE starts == Wanted(render.visible \cap Clouds, render.loaded,
                            render.loading)
<1> USE DEF ViewerInv, CloudEffect
<1>1. /\ starts \subseteq Clouds
      /\ starts \cap (render.loaded \cup render.loading) = {}
  BY DEF Wanted
<1>2. /\ live' = (live \ Clouds) \cup starts
      /\ loading' = loading \cup starts
      /\ blind' = (blind \ starts) \cup
                    {c \in starts \cap Clouds : ~PlaceKnown(render.loaded)}
  BY DEF Start
<1> HIDE DEF starts
<1>3. ViewerTypeOK'
  BY <1>1, <1>2 DEF ViewerTypeOK, NoRender, Layers
<1>4. NothingLoadedTwice'
  BY <1>1, <1>2 DEF NothingLoadedTwice, RenderIsRecent
<1>5. CloudsHaveTheirZone' /\ RenderIsRecent'
  BY DEF CloudsHaveTheirZone, RenderIsRecent, NoRender
<1>6. SightedLoadsHaveAPlace'
  BY <1>1, <1>2, ViewerAssumption
     DEF SightedLoadsHaveAPlace, RenderIsRecent, PlaceKnown
<1> QED BY <1>3, <1>4, <1>5, <1>6

LEMMA ViewerToggle ==
  ASSUME ViewerInv, NEW o \in Layers, Toggle(o)
  PROVE  ViewerInv'
<1> DEFINE layersOn == IF o \in visible THEN visible \ {o} ELSE visible \cup {o}
           starts == Wanted(layersOn \ missing, loaded, loading)
<1> USE DEF ViewerInv, Toggle
<1>1. /\ layersOn \subseteq Layers
      /\ starts \subseteq Layers
      /\ starts \cap loaded = {}
  BY DEF Wanted, ViewerTypeOK
<1>2. /\ visible' = layersOn
      /\ live' = starts
      /\ loading' = loading \cup starts
      /\ blind' = (blind \ starts) \cup
                    {c \in starts \cap Clouds : ~PlaceKnown(loaded)}
  BY DEF Start
<1> HIDE DEF layersOn, starts
<1>3. ViewerTypeOK'
  BY <1>1, <1>2 DEF ViewerTypeOK, Layers
<1>4. NothingLoadedTwice'
  BY <1>1, <1>2 DEF NothingLoadedTwice
<1>5. CloudsHaveTheirZone' /\ RenderIsRecent'
  BY DEF CloudsHaveTheirZone, RenderIsRecent
<1>6. SightedLoadsHaveAPlace'
  BY <1>1, <1>2, ViewerAssumption DEF SightedLoadsHaveAPlace, PlaceKnown
<1> QED BY <1>3, <1>4, <1>5, <1>6

LEMMA ViewerStutter ==
  ASSUME ViewerInv, UNCHANGED vars
  PROVE  ViewerInv'
  BY DEF ViewerInv, vars, ViewerTypeOK, NothingLoadedTwice, CloudsHaveTheirZone,
         RenderIsRecent, SightedLoadsHaveAPlace

LEMMA ViewerInvariant == Spec => []ViewerInv
<1>1. ViewerInv /\ [Next]_vars => ViewerInv'
  BY ViewerAnswer, ViewerRender, ViewerCloudEffect, ViewerToggle, ViewerStutter
     DEF Next
<1> QED BY <1>1, ViewerInit, PTL DEF Spec

\* Type correctness of the viewer: above all, that what is being fetched is
\* always marked as loading.
THEOREM ViewerTyping == Spec => []ViewerTypeOK
  BY ViewerInvariant, PTL DEF ViewerInv

\* The effects never fetch what is on the map already, though they decide with
\* the state of an earlier render.
THEOREM ViewerLoadsOnce == Spec => []NothingLoadedTwice
  BY ViewerInvariant, PTL DEF ViewerInv

\* No projected cloud is on the map without a place to infer its zone from.
THEOREM ViewerZones == Spec => []CloudsHaveTheirZone
  BY ViewerInvariant, PTL DEF ViewerInv

-----------------------------------------------------------------------------
(* The upload panel.                                                       *)

Places == {"away", "loading", "idle", "initiating", "putting", "completing", "answered"}
Asking == {None, Asked} \cup Nat
Instances ==
  [at : Places, page : Asking, seen : Asking,
   pending : SUBSET Files, listed : BOOLEAN, queue : SUBSET Files, memory : SUBSET Files,
   offered : BOOLEAN, summary : BOOLEAN, error : BOOLEAN]
PanelTypeOK ==
  /\ tab \in [Tabs -> Instances]
  /\ cache \subseteq Files /\ uploaded \subseteq Files /\ ingested \subseteq Files
  /\ second \in BOOLEAN /\ disturbed \in BOOLEAN

\* An instance that is away holds nothing; one that loads has shown no count.
AwayHoldsNothing == \A t \in Tabs : tab[t].at = "away" => tab[t] = Away
LoadingIsBlank ==
  \A t \in Tabs : tab[t].at = "loading" => tab[t].seen = None /\ ~tab[t].summary /\ ~tab[t].error
\* What an answered run was about is ingested.
AnsweredIsIngested == \A t \in Tabs : tab[t].at = "answered" => tab[t].memory \subseteq ingested
\* Undisturbed, one run at most goes on, and it holds what the cache does.
OneRunAtMost ==
  ~disturbed => \A t \in Tabs : Running(t) =>
    /\ cache = tab[t].memory
    /\ \A u \in Tabs : Running(u) => u = t
OneInstance ==
  ~second => \A t, u \in Tabs : tab[t] # Away /\ tab[u] # Away => t = u
PanelInv ==
  /\ PanelTypeOK /\ AwayHoldsNothing /\ LoadingIsBlank /\ AnsweredIsIngested
  /\ OneRunAtMost /\ OneInstance /\ Remembered /\ Offered

LEMMA FilesCounted ==
  ASSUME NEW S \in SUBSET Files
  PROVE  Cardinality(S) \in Nat
<1>1. IsFiniteSet(S)
  BY MissionPageAssumption, FS_Subset
<1> QED  BY <1>1, FS_CardinalityType

LEMMA PutTyped ==
  ASSUME PanelTypeOK, NEW t \in Tabs, NEW q \in Instances, tab' = [tab EXCEPT ![t] = q]
  PROVE  /\ tab' \in [Tabs -> Instances]
         /\ tab'[t] = q
         /\ \A u \in Tabs : u # t => tab'[u] = tab[u]
BY DEF PanelTypeOK

LEMMA CountsAreAskable == Counts \subseteq Asking
BY DEF Counts, Asking

\* Each action's new record, and that it is one.
LEMMA PanelStarts == PanelInit => PanelInv
<1> SUFFICES ASSUME PanelInit  PROVE PanelInv
  OBVIOUS
<1>1. Away \in Instances
  BY DEF Away, Instances, Places, Asking
<1>2. tab = [t \in Tabs |-> Away] /\ \A t \in Tabs : tab[t] = Away
  BY DEF PanelInit
<1>3. PanelTypeOK
  BY <1>1 DEF PanelInit, PanelTypeOK
<1>4. AwayHoldsNothing /\ LoadingIsBlank /\ AnsweredIsIngested /\ OneRunAtMost /\ OneInstance
  BY <1>2 DEF AwayHoldsNothing, LoadingIsBlank, AnsweredIsIngested, OneRunAtMost,
     OneInstance, Running, Away
<1>5. Remembered /\ Offered
  BY <1>2 DEF Remembered, Offered, PanelInit, Away
<1> QED  BY <1>3, <1>4, <1>5 DEF PanelInv

\* What a step that disturbs nothing else does to one instance.
LEMMA PanelStutters == PanelInv /\ UNCHANGED panelVars => PanelInv'
BY DEF PanelInv, panelVars, PanelTypeOK, AwayHoldsNothing, LoadingIsBlank,
   AnsweredIsIngested,
       OneRunAtMost, OneInstance, Remembered, Offered, StartEnabled, NeedsIngest, Running

LEMMA OpenKeeps ==
  ASSUME PanelInv, NEW t \in Tabs, Open(t)
  PROVE  PanelInv'
<1> PICK q : q = [Away EXCEPT !.at = "loading", !.page = Asked]
  OBVIOUS
<1>1. /\ q \in Instances /\ q.at = "loading" /\ q.seen = None
      /\ ~q.summary /\ ~q.error /\ q # Away
  BY DEF Away, Instances, Places, Asking
<1>2. tab' = [tab EXCEPT ![t] = q]
  BY DEF Open, Put
<1>3. /\ tab' \in [Tabs -> Instances]
      /\ tab'[t] = q
      /\ \A u \in Tabs : u # t => tab'[u] = tab[u]
  BY <1>1, <1>2, PutTyped DEF PanelInv
<1>4. PanelTypeOK'
  BY <1>3 DEF PanelInv, PanelTypeOK, Open, Server
<1>5. (AwayHoldsNothing /\ LoadingIsBlank /\ AnsweredIsIngested)'
  BY <1>1, <1>3 DEF PanelInv, AwayHoldsNothing, LoadingIsBlank, AnsweredIsIngested,
     Open, Server
<1>6. (OneRunAtMost /\ OneInstance)'
  BY <1>1, <1>3 DEF PanelInv, OneRunAtMost, OneInstance, Open, Server, Running
<1>7. (Remembered /\ Offered)'
  BY <1>1, <1>3 DEF PanelInv, Remembered, Offered, Open, Server, StartEnabled, NeedsIngest
<1> QED  BY <1>4, <1>5, <1>6, <1>7 DEF PanelInv

LEMMA ReadCountKeeps ==
  ASSUME PanelInv, NEW t \in Tabs, ReadCount(t)
  PROVE  PanelInv'
<1>0. tab[t] \in Instances /\ cache \subseteq Files /\ ingested \subseteq Files
  BY DEF PanelInv, PanelTypeOK
<1>a. tab[t].at # "away" /\ tab[t].page = Asked /\ tab[t] # Away
  <2>1. tab[t].page = Asked
    BY DEF ReadCount
  <2>2. tab[t] # Away
    BY <2>1 DEF Away, None, Asked
  <2> QED  BY <2>1, <2>2 DEF PanelInv, AwayHoldsNothing
<1>p. PICK q : q = [tab[t] EXCEPT !.page = Cardinality(ingested)]
  OBVIOUS
<1>b. q \in Instances
  BY <1>0, <1>a, <1>p, FilesCounted DEF Instances, Places, Asking, ReadCount, Server, history
<1>c. /\ q.at = tab[t].at
      /\ q.seen = tab[t].seen
      /\ q.memory = tab[t].memory
      /\ q.pending = tab[t].pending
      /\ q.offered = tab[t].offered
      /\ q.summary = tab[t].summary
      /\ q.error = tab[t].error
  BY <1>0, <1>a, <1>p DEF Instances
<1>d. q # Away
  BY <1>a, <1>c DEF Away
<1>1. /\ tab[t].at # "away" /\ tab[t].page = Asked
      /\ tab[t] # Away
      /\ q \in Instances
      /\ q # Away
      /\ q.at = tab[t].at
      /\ q.seen = tab[t].seen
      /\ q.memory = tab[t].memory
      /\ q.pending = tab[t].pending
      /\ q.offered = tab[t].offered
      /\ q.summary = tab[t].summary
      /\ q.error = tab[t].error
  BY <1>a, <1>b, <1>c, <1>d
<1>2. tab' = [tab EXCEPT ![t] = q]
  BY <1>p DEF ReadCount, Put
<1>3. /\ tab' \in [Tabs -> Instances]
      /\ tab'[t] = q
      /\ \A u \in Tabs : u # t => tab'[u] = tab[u]
  BY <1>1, <1>2, PutTyped DEF PanelInv
<1>4. PanelTypeOK'
  BY <1>0, <1>1, <1>3 DEF PanelInv, PanelTypeOK, ReadCount, Server, history
<1>5. (AwayHoldsNothing /\ LoadingIsBlank /\ AnsweredIsIngested)'
  <2>1. AwayHoldsNothing'
    BY <1>1, <1>3 DEF PanelInv, AwayHoldsNothing
  <2>2. LoadingIsBlank'
    <3>1. ASSUME NEW u \in Tabs, tab'[u].at = "loading"
          PROVE  tab'[u].seen = None /\ ~tab'[u].summary /\ ~tab'[u].error
      <4>1. \A v \in Tabs : tab[v].at = "loading"
              => tab[v].seen = None /\ ~tab[v].summary /\ ~tab[v].error
        BY DEF PanelInv, LoadingIsBlank
      <4>2. CASE u = t
        <5>1. q.at = "loading" /\ tab[t].at = "loading"
          BY <1>1, <1>3, <3>1, <4>2
        <5>2. tab[t].seen = None /\ ~tab[t].summary /\ ~tab[t].error
          BY <4>1, <5>1
        <5> QED  BY <1>1, <1>3, <4>2, <5>2
      <4>3. CASE u # t
        <5>1. tab'[u] = tab[u]
          BY <1>3, <4>3
        <5> QED  BY <3>1, <4>1, <5>1
      <4> QED  BY <4>2, <4>3
    <3> QED  BY <3>1 DEF LoadingIsBlank
  <2>3. AnsweredIsIngested'
    BY <1>1, <1>3 DEF PanelInv, AnsweredIsIngested, ReadCount, Server, history
  <2> QED  BY <2>1, <2>2, <2>3
<1>6. (OneRunAtMost /\ OneInstance)'
  <2>1. OneRunAtMost'
    <3>1. \A u \in Tabs : tab'[u].at = tab[u].at /\ tab'[u].memory = tab[u].memory
      BY <1>1, <1>3
    <3>2. \A u \in Tabs : Running(u)' <=> Running(u)
      BY <3>1 DEF Running
    <3> QED  BY <3>1, <3>2 DEF PanelInv, OneRunAtMost, ReadCount, Server, history
  <2>2. OneInstance'
    BY <1>1, <1>3 DEF PanelInv, OneInstance, ReadCount, Server, history
  <2> QED  BY <2>1, <2>2
<1>7. Remembered'
  BY <1>1, <1>3 DEF PanelInv, Remembered, OneRunAtMost, AnsweredIsIngested, ReadCount,
     Server, history, Running
<1>8. Offered'
  <2> SUFFICES ASSUME ~disturbed', ~second', NEW u \in Tabs, tab'[u].at = "idle",
                      ~(uploaded' \subseteq ingested')
               PROVE  StartEnabled(u)'
    BY DEF Offered
  <2>1. CASE u = t
    BY <2>1, <1>1, <1>3, <1>7 DEF PanelInv, Offered, Remembered, AnsweredIsIngested,
       OneRunAtMost, ReadCount, Server, history, StartEnabled, NeedsIngest, Running
  <2>2. CASE u # t
    BY <2>2, <1>1, <1>3, <1>6 DEF PanelInv, Offered, OneInstance, ReadCount, Server,
       history, StartEnabled, NeedsIngest, Away
  <2> QED  BY <2>1, <2>2
<1> QED  BY <1>4, <1>5, <1>6, <1>7, <1>8 DEF PanelInv

LEMMA AddFilesKeeps ==
  ASSUME PanelInv, NEW t \in Tabs, NEW f \in Files, AddFiles(t, f)
  PROVE  PanelInv'
<1>0. tab[t] \in Instances /\ cache \subseteq Files /\ ingested \subseteq Files
  BY DEF PanelInv, PanelTypeOK
<1>a. tab[t].at # "away" /\ tab[t].at # "loading" /\ tab[t] # Away
  BY <1>0 DEF Away, AddFiles, Server, history, Mounted, Running, None, Asked
<1> PICK q : q = [tab[t] EXCEPT !.pending = @ \cup {f}, !.listed = TRUE]
  OBVIOUS
<1>b. q \in Instances
  BY <1>0, <1>a DEF Instances, Places, Asking, AddFiles, Server, history, Mounted, Running
<1>c. /\ q.at = tab[t].at
      /\ q.seen = tab[t].seen
      /\ q.memory = tab[t].memory
      /\ f \in q.pending
      /\ q.offered = tab[t].offered
      /\ q.summary = tab[t].summary
      /\ q.error = tab[t].error
  BY <1>0, <1>a DEF Instances, AddFiles, Server, history, Mounted, Running
<1>d. q # Away
  BY <1>a, <1>c DEF Away
<1>1. /\ tab[t].at # "away" /\ tab[t].at # "loading"
      /\ tab[t] # Away
      /\ q \in Instances
      /\ q # Away
      /\ q.at = tab[t].at
      /\ q.seen = tab[t].seen
      /\ q.memory = tab[t].memory
      /\ f \in q.pending
      /\ q.offered = tab[t].offered
      /\ q.summary = tab[t].summary
      /\ q.error = tab[t].error
  BY <1>a, <1>b, <1>c, <1>d
<1>2. tab' = [tab EXCEPT ![t] = q]
  BY DEF AddFiles, Put
<1>3. /\ tab' \in [Tabs -> Instances]
      /\ tab'[t] = q
      /\ \A u \in Tabs : u # t => tab'[u] = tab[u]
  BY <1>1, <1>2, PutTyped DEF PanelInv
<1>4. PanelTypeOK'
  BY <1>0, <1>1, <1>3 DEF PanelInv, PanelTypeOK, AddFiles, Server, history, Mounted, Running
<1>5. (AwayHoldsNothing /\ LoadingIsBlank /\ AnsweredIsIngested)'
  <2>1. AwayHoldsNothing'
    <3> SUFFICES ASSUME NEW u \in Tabs, tab'[u].at = "away"
                 PROVE  tab'[u] = Away
      BY DEF AwayHoldsNothing
    <3>1. u # t
      BY <1>1, <1>3
    <3>2. tab'[u] = tab[u]
      BY <3>1, <1>3
    <3> QED  BY <3>2 DEF PanelInv, AwayHoldsNothing
  <2>2. LoadingIsBlank'
    <3> SUFFICES ASSUME NEW u \in Tabs, tab'[u].at = "loading"
                 PROVE  tab'[u].seen = None /\ ~tab'[u].summary /\ ~tab'[u].error
      BY DEF LoadingIsBlank
    <3>1. u # t
      BY <1>1, <1>3
    <3>2. tab'[u] = tab[u]
      BY <3>1, <1>3
    <3> QED  BY <3>2 DEF PanelInv, LoadingIsBlank
  <2>3. AnsweredIsIngested'
    BY <1>1, <1>3 DEF PanelInv, AnsweredIsIngested, AddFiles, Server, history, Mounted,
       Running
  <2> QED  BY <2>1, <2>2, <2>3
<1>6. (OneRunAtMost /\ OneInstance)'
  <2>1. OneRunAtMost'
    <3>1. \A u \in Tabs : tab'[u].at = tab[u].at /\ tab'[u].memory = tab[u].memory
      BY <1>1, <1>3
    <3>2. \A u \in Tabs : Running(u)' <=> Running(u)
      BY <3>1 DEF Running
    <3> QED  BY <3>1, <3>2 DEF PanelInv, OneRunAtMost, AddFiles, Server, history,
                Mounted, Running
  <2>2. OneInstance'
    BY <1>1, <1>3 DEF PanelInv, OneInstance, AddFiles, Server, history, Mounted, Running
  <2> QED  BY <2>1, <2>2
<1>7. Remembered'
  BY <1>1, <1>3 DEF PanelInv, Remembered, OneRunAtMost, AnsweredIsIngested, AddFiles,
     Server, history, Mounted, Running
<1>8. Offered'
  <2> SUFFICES ASSUME ~disturbed', ~second', NEW u \in Tabs, tab'[u].at = "idle",
                      ~(uploaded' \subseteq ingested')
               PROVE  StartEnabled(u)'
    BY DEF Offered
  <2>1. CASE u = t
    BY <2>1, <1>1, <1>3, <1>7 DEF PanelInv, Offered, Remembered, AnsweredIsIngested,
       OneRunAtMost, AddFiles, Server, history, Mounted, Running, StartEnabled, NeedsIngest
  <2>2. CASE u # t
    BY <2>2, <1>1, <1>3, <1>6 DEF PanelInv, Offered, OneInstance, AddFiles, Server,
       history, Mounted, Running, StartEnabled, NeedsIngest, Away
  <2> QED  BY <2>1, <2>2
<1> QED  BY <1>4, <1>5, <1>6, <1>7, <1>8 DEF PanelInv

LEMMA ResetStateKeeps ==
  ASSUME PanelInv, NEW t \in Tabs, ResetState(t)
  PROVE  PanelInv'
<1>0. tab[t] \in Instances /\ cache \subseteq Files /\ ingested \subseteq Files
  BY DEF PanelInv, PanelTypeOK
<1>a. tab[t].at # "away" /\ tab[t].at # "loading" /\ tab[t] # Away
  BY <1>0 DEF Away, ResetState, Server, Mounted, Running, None, Asked
<1> PICK q : q = [tab[t] EXCEPT !.offered = FALSE, !.pending = {}, !.listed = FALSE,
                           !.error = FALSE, !.summary = FALSE]
  OBVIOUS
<1>b. q \in Instances
  BY <1>0, <1>a DEF Instances, Places, Asking, ResetState, Server, Mounted, Running
<1>c. /\ q.at = tab[t].at
      /\ q.seen = tab[t].seen
      /\ q.memory = tab[t].memory
  BY <1>0, <1>a DEF Instances, ResetState, Server, Mounted, Running
<1>d. q # Away
  BY <1>a, <1>c DEF Away
<1>1. /\ tab[t].at # "away" /\ tab[t].at # "loading"
      /\ tab[t] # Away
      /\ q \in Instances
      /\ q # Away
      /\ q.at = tab[t].at
      /\ q.seen = tab[t].seen
      /\ q.memory = tab[t].memory
  BY <1>a, <1>b, <1>c, <1>d
<1>2. tab' = [tab EXCEPT ![t] = q]
  BY DEF ResetState, Put
<1>3. /\ tab' \in [Tabs -> Instances]
      /\ tab'[t] = q
      /\ \A u \in Tabs : u # t => tab'[u] = tab[u]
  BY <1>1, <1>2, PutTyped DEF PanelInv
<1>4. PanelTypeOK'
  BY <1>0, <1>1, <1>3 DEF PanelInv, PanelTypeOK, ResetState, Server, Mounted, Running
<1>5. (AwayHoldsNothing /\ LoadingIsBlank /\ AnsweredIsIngested)'
  <2>1. AwayHoldsNothing'
    BY <1>1, <1>3 DEF PanelInv, AwayHoldsNothing
  <2>2. LoadingIsBlank'
    BY <1>1, <1>3 DEF PanelInv, LoadingIsBlank
  <2>3. AnsweredIsIngested'
    BY <1>1, <1>3 DEF PanelInv, AnsweredIsIngested, ResetState, Server, Mounted, Running
  <2> QED  BY <2>1, <2>2, <2>3
<1>6. (OneRunAtMost /\ OneInstance)'
  <2>1. OneRunAtMost'
    BY <1>0, <1>1, <1>3 DEF PanelInv, OneRunAtMost, ResetState, Server, Mounted, Running
  <2>2. OneInstance'
    BY <1>1, <1>3 DEF PanelInv, OneInstance, ResetState, Server, Mounted, Running
  <2> QED  BY <2>1, <2>2
<1>7. Remembered'
  BY <1>1, <1>3 DEF PanelInv, Remembered, OneRunAtMost, AnsweredIsIngested, ResetState,
     Server, Mounted, Running
<1>8. Offered'
  <2> SUFFICES ASSUME ~disturbed', ~second', NEW u \in Tabs, tab'[u].at = "idle",
                      ~(uploaded' \subseteq ingested')
               PROVE  StartEnabled(u)'
    BY DEF Offered
  <2>1. CASE u = t
    BY <2>1, <1>1, <1>3, <1>7 DEF PanelInv, Offered, Remembered, AnsweredIsIngested,
       OneRunAtMost, ResetState, Server, Mounted, Running, StartEnabled, NeedsIngest
  <2>2. CASE u # t
    BY <2>2, <1>1, <1>3, <1>6 DEF PanelInv, Offered, OneInstance, ResetState, Server,
       Mounted, Running, StartEnabled, NeedsIngest, Away
  <2> QED  BY <2>1, <2>2
<1> QED  BY <1>4, <1>5, <1>6, <1>7, <1>8 DEF PanelInv

LEMMA StartUploadKeeps ==
  ASSUME PanelInv, NEW t \in Tabs, StartUpload(t)
  PROVE  PanelInv'
<1>0. tab[t] \in Instances /\ cache \subseteq Files /\ ingested \subseteq Files
  BY DEF PanelInv, PanelTypeOK
<1>a. tab[t].at = "idle" /\ tab[t] # Away
  BY <1>0 DEF Away, StartUpload, StartEnabled, Server, None, Asked
<1> PICK q : q = [tab[t] EXCEPT !.summary = FALSE, !.error = FALSE, !.memory = cache,
                           !.queue = tab[t].pending,
                           !.at = IF tab[t].pending # {} THEN "initiating" ELSE "putting"]
  OBVIOUS
<1>b. q \in Instances
  BY <1>0, <1>a DEF Instances, Places, Asking, StartUpload, StartEnabled, Server
<1>c. /\ q.at \in {"initiating", "putting"}
      /\ q.memory = cache
  BY <1>0, <1>a DEF Instances, StartUpload, StartEnabled, Server
<1>d. q # Away
  BY <1>a, <1>c DEF Away
<1>1. /\ tab[t].at = "idle"
      /\ tab[t] # Away
      /\ q \in Instances
      /\ q # Away
      /\ q.at \in {"initiating", "putting"}
      /\ q.memory = cache
  BY <1>a, <1>b, <1>c, <1>d
<1>2. tab' = [tab EXCEPT ![t] = q]
  BY DEF StartUpload, Put
<1>3. /\ tab' \in [Tabs -> Instances]
      /\ tab'[t] = q
      /\ \A u \in Tabs : u # t => tab'[u] = tab[u]
  BY <1>1, <1>2, PutTyped DEF PanelInv
<1>4. PanelTypeOK'
  BY <1>0, <1>1, <1>3 DEF PanelInv, PanelTypeOK, StartUpload, StartEnabled, Server
<1>5. (AwayHoldsNothing /\ LoadingIsBlank /\ AnsweredIsIngested)'
  <2>1. AwayHoldsNothing'
    BY <1>1, <1>3 DEF PanelInv, AwayHoldsNothing
  <2>2. LoadingIsBlank'
    BY <1>1, <1>3 DEF PanelInv, LoadingIsBlank
  <2>3. AnsweredIsIngested'
    BY <1>1, <1>3 DEF PanelInv, AnsweredIsIngested, StartUpload, StartEnabled, Server
  <2> QED  BY <2>1, <2>2, <2>3
<1>6. (OneRunAtMost /\ OneInstance)'
  <2>1. OneRunAtMost'
    BY <1>0, <1>1, <1>3 DEF PanelInv, OneRunAtMost, StartUpload, StartEnabled, Server,
       Running
  <2>2. OneInstance'
    BY <1>1, <1>3 DEF PanelInv, OneInstance, StartUpload, StartEnabled, Server
  <2> QED  BY <2>1, <2>2
<1>7. Remembered'
  BY <1>1, <1>3 DEF PanelInv, Remembered, OneRunAtMost, AnsweredIsIngested,
     StartUpload, StartEnabled, Server, Running
<1>8. Offered'
  <2> SUFFICES ASSUME ~disturbed', ~second', NEW u \in Tabs, tab'[u].at = "idle",
                      ~(uploaded' \subseteq ingested')
               PROVE  StartEnabled(u)'
    BY DEF Offered
  <2>1. CASE u = t
    BY <2>1, <1>1, <1>3, <1>7 DEF PanelInv, Offered, Remembered, AnsweredIsIngested,
       OneRunAtMost, StartUpload, StartEnabled, Server, NeedsIngest, Running
  <2>2. CASE u # t
    BY <2>2, <1>1, <1>3, <1>6 DEF PanelInv, Offered, OneInstance, StartUpload,
       StartEnabled, Server, NeedsIngest, Away
  <2> QED  BY <2>1, <2>2
<1> QED  BY <1>4, <1>5, <1>6, <1>7, <1>8 DEF PanelInv

LEMMA InitiatedKeeps ==
  ASSUME PanelInv, NEW t \in Tabs, Initiated(t)
  PROVE  PanelInv'
<1>0. tab[t] \in Instances /\ cache \subseteq Files /\ ingested \subseteq Files
  BY DEF PanelInv, PanelTypeOK
<1>a. tab[t].at = "initiating" /\ tab[t] # Away
  BY <1>0 DEF Away, Initiated, Server, history, None, Asked
<1> PICK q : q = [tab[t] EXCEPT !.at = "putting"]
  OBVIOUS
<1>b. q \in Instances
  BY <1>0, <1>a DEF Instances, Places, Asking, Initiated, Server, history
<1>c. /\ q.at = "putting"
      /\ q.memory = tab[t].memory
  BY <1>0, <1>a DEF Instances, Initiated, Server, history
<1>d. q # Away
  BY <1>a, <1>c DEF Away
<1>1. /\ tab[t].at = "initiating"
      /\ tab[t] # Away
      /\ q \in Instances
      /\ q # Away
      /\ q.at = "putting"
      /\ q.memory = tab[t].memory
  BY <1>a, <1>b, <1>c, <1>d
<1>2. tab' = [tab EXCEPT ![t] = q]
  BY DEF Initiated, Put
<1>3. /\ tab' \in [Tabs -> Instances]
      /\ tab'[t] = q
      /\ \A u \in Tabs : u # t => tab'[u] = tab[u]
  BY <1>1, <1>2, PutTyped DEF PanelInv
<1>4. PanelTypeOK'
  BY <1>0, <1>1, <1>3 DEF PanelInv, PanelTypeOK, Initiated, Server, history
<1>5. (AwayHoldsNothing /\ LoadingIsBlank /\ AnsweredIsIngested)'
  <2>1. AwayHoldsNothing'
    BY <1>1, <1>3 DEF PanelInv, AwayHoldsNothing
  <2>2. LoadingIsBlank'
    BY <1>1, <1>3 DEF PanelInv, LoadingIsBlank
  <2>3. AnsweredIsIngested'
    BY <1>1, <1>3 DEF PanelInv, AnsweredIsIngested, Initiated, Server, history
  <2> QED  BY <2>1, <2>2, <2>3
<1>6. (OneRunAtMost /\ OneInstance)'
  <2>1. OneRunAtMost'
    BY <1>0, <1>1, <1>3 DEF PanelInv, OneRunAtMost, Initiated, Server, history, Running
  <2>2. OneInstance'
    BY <1>1, <1>3 DEF PanelInv, OneInstance, Initiated, Server, history
  <2> QED  BY <2>1, <2>2
<1>7. Remembered'
  BY <1>1, <1>3 DEF PanelInv, Remembered, OneRunAtMost, AnsweredIsIngested, Initiated,
     Server, history, Running
<1>8. Offered'
  <2> SUFFICES ASSUME ~disturbed', ~second', NEW u \in Tabs, tab'[u].at = "idle",
                      ~(uploaded' \subseteq ingested')
               PROVE  StartEnabled(u)'
    BY DEF Offered
  <2>1. CASE u = t
    BY <2>1, <1>1, <1>3, <1>7 DEF PanelInv, Offered, Remembered, AnsweredIsIngested,
       OneRunAtMost, Initiated, Server, history, StartEnabled, NeedsIngest, Running
  <2>2. CASE u # t
    BY <2>2, <1>1, <1>3, <1>6 DEF PanelInv, Offered, OneInstance, Initiated, Server,
       history, StartEnabled, NeedsIngest, Away
  <2> QED  BY <2>1, <2>2
<1> QED  BY <1>4, <1>5, <1>6, <1>7, <1>8 DEF PanelInv

LEMMA FileStoredKeeps ==
  ASSUME PanelInv, NEW t \in Tabs, NEW f \in Files, FileStored(t, f)
  PROVE  PanelInv'
<1>0. tab[t] \in Instances /\ cache \subseteq Files /\ ingested \subseteq Files
  BY DEF PanelInv, PanelTypeOK
<1>a. tab[t].at = "putting" /\ tab[t] # Away
  BY <1>0 DEF Away, FileStored, history, None, Asked
<1> PICK q : q = [tab[t] EXCEPT !.queue = @ \ {f}, !.pending = @ \ {f},
                            !.memory = tab[t].memory \cup {f}]
  OBVIOUS
<1>b. q \in Instances
  BY <1>0, <1>a DEF Instances, Places, Asking, FileStored, history
<1>c. /\ q.memory \subseteq Files
      /\ q.at = "putting"
      /\ q.memory = tab[t].memory \cup {f}
  BY <1>0, <1>a DEF Instances, FileStored, history
<1>d. q # Away
  BY <1>a, <1>c DEF Away
<1>1. /\ tab[t].at = "putting"
      /\ tab[t] # Away
      /\ q \in Instances
      /\ q # Away
      /\ q.memory \subseteq Files
      /\ q.at = "putting"
      /\ q.memory = tab[t].memory \cup {f}
  BY <1>a, <1>b, <1>c, <1>d
<1>2. tab' = [tab EXCEPT ![t] = q]
  BY DEF FileStored, Put
<1>3. /\ tab' \in [Tabs -> Instances]
      /\ tab'[t] = q
      /\ \A u \in Tabs : u # t => tab'[u] = tab[u]
  BY <1>1, <1>2, PutTyped DEF PanelInv
<1>4. PanelTypeOK'
  BY <1>0, <1>1, <1>3 DEF PanelInv, PanelTypeOK, FileStored, history
<1>5. (AwayHoldsNothing /\ LoadingIsBlank /\ AnsweredIsIngested)'
  <2>1. AwayHoldsNothing'
    BY <1>1, <1>3 DEF PanelInv, AwayHoldsNothing
  <2>2. LoadingIsBlank'
    BY <1>1, <1>3 DEF PanelInv, LoadingIsBlank
  <2>3. AnsweredIsIngested'
    BY <1>1, <1>3 DEF PanelInv, AnsweredIsIngested, FileStored, history
  <2> QED  BY <2>1, <2>2, <2>3
<1>6. (OneRunAtMost /\ OneInstance)'
  <2>1. OneRunAtMost'
    BY <1>0, <1>1, <1>3 DEF PanelInv, OneRunAtMost, FileStored, history, Running
  <2>2. OneInstance'
    BY <1>1, <1>3 DEF PanelInv, OneInstance, FileStored, history
  <2> QED  BY <2>1, <2>2
<1>7. Remembered'
  BY <1>1, <1>3 DEF PanelInv, Remembered, OneRunAtMost, AnsweredIsIngested, FileStored,
     history, Running
<1>8. Offered'
  <2> SUFFICES ASSUME ~disturbed', ~second', NEW u \in Tabs, tab'[u].at = "idle",
                      ~(uploaded' \subseteq ingested')
               PROVE  StartEnabled(u)'
    BY DEF Offered
  <2>1. CASE u = t
    BY <2>1, <1>1, <1>3, <1>7 DEF PanelInv, Offered, Remembered, AnsweredIsIngested,
       OneRunAtMost, FileStored, history, StartEnabled, NeedsIngest, Running
  <2>2. CASE u # t
    BY <2>2, <1>1, <1>3, <1>6 DEF PanelInv, Offered, OneInstance, FileStored, history,
       StartEnabled, NeedsIngest, Away
  <2> QED  BY <2>1, <2>2
<1> QED  BY <1>4, <1>5, <1>6, <1>7, <1>8 DEF PanelInv

LEMMA FileFailedKeeps ==
  ASSUME PanelInv, NEW t \in Tabs, NEW f \in Files, FileFailed(t, f)
  PROVE  PanelInv'
<1>0. tab[t] \in Instances /\ cache \subseteq Files /\ ingested \subseteq Files
  BY DEF PanelInv, PanelTypeOK
<1>a. tab[t].at = "putting" /\ tab[t] # Away
  BY <1>0 DEF Away, FileFailed, Server, history, None, Asked
<1> PICK q : q = [tab[t] EXCEPT !.queue = @ \ {f}, !.pending = @ \ {f}]
  OBVIOUS
<1>b. q \in Instances
  BY <1>0, <1>a DEF Instances, Places, Asking, FileFailed, Server, history
<1>c. /\ q.at = "putting"
      /\ q.memory = tab[t].memory
  BY <1>0, <1>a DEF Instances, FileFailed, Server, history
<1>d. q # Away
  BY <1>a, <1>c DEF Away
<1>1. /\ tab[t].at = "putting"
      /\ tab[t] # Away
      /\ q \in Instances
      /\ q # Away
      /\ q.at = "putting"
      /\ q.memory = tab[t].memory
  BY <1>a, <1>b, <1>c, <1>d
<1>2. tab' = [tab EXCEPT ![t] = q]
  BY DEF FileFailed, Put
<1>3. /\ tab' \in [Tabs -> Instances]
      /\ tab'[t] = q
      /\ \A u \in Tabs : u # t => tab'[u] = tab[u]
  BY <1>1, <1>2, PutTyped DEF PanelInv
<1>4. PanelTypeOK'
  BY <1>0, <1>1, <1>3 DEF PanelInv, PanelTypeOK, FileFailed, Server, history
<1>5. (AwayHoldsNothing /\ LoadingIsBlank /\ AnsweredIsIngested)'
  <2>1. AwayHoldsNothing'
    BY <1>1, <1>3 DEF PanelInv, AwayHoldsNothing
  <2>2. LoadingIsBlank'
    BY <1>1, <1>3 DEF PanelInv, LoadingIsBlank
  <2>3. AnsweredIsIngested'
    BY <1>1, <1>3 DEF PanelInv, AnsweredIsIngested, FileFailed, Server, history
  <2> QED  BY <2>1, <2>2, <2>3
<1>6. (OneRunAtMost /\ OneInstance)'
  <2>1. OneRunAtMost'
    BY <1>0, <1>1, <1>3 DEF PanelInv, OneRunAtMost, FileFailed, Server, history, Running
  <2>2. OneInstance'
    BY <1>1, <1>3 DEF PanelInv, OneInstance, FileFailed, Server, history
  <2> QED  BY <2>1, <2>2
<1>7. Remembered'
  BY <1>1, <1>3 DEF PanelInv, Remembered, OneRunAtMost, AnsweredIsIngested, FileFailed,
     Server, history, Running
<1>8. Offered'
  <2> SUFFICES ASSUME ~disturbed', ~second', NEW u \in Tabs, tab'[u].at = "idle",
                      ~(uploaded' \subseteq ingested')
               PROVE  StartEnabled(u)'
    BY DEF Offered
  <2>1. CASE u = t
    BY <2>1, <1>1, <1>3, <1>7 DEF PanelInv, Offered, Remembered, AnsweredIsIngested,
       OneRunAtMost, FileFailed, Server, history, StartEnabled, NeedsIngest, Running
  <2>2. CASE u # t
    BY <2>2, <1>1, <1>3, <1>6 DEF PanelInv, Offered, OneInstance, FileFailed, Server,
       history, StartEnabled, NeedsIngest, Away
  <2> QED  BY <2>1, <2>2
<1> QED  BY <1>4, <1>5, <1>6, <1>7, <1>8 DEF PanelInv

LEMMA CompleteKeeps ==
  ASSUME PanelInv, NEW t \in Tabs, Complete(t)
  PROVE  PanelInv'
<1>0. tab[t] \in Instances /\ cache \subseteq Files /\ ingested \subseteq Files
  BY DEF PanelInv, PanelTypeOK
<1>a. tab[t].at = "completing" /\ tab[t] # Away
  BY <1>0 DEF Away, Complete, history, None, Asked
<1> PICK q : q = [tab[t] EXCEPT !.at = "answered"]
  OBVIOUS
<1>b. q \in Instances
  BY <1>0, <1>a DEF Instances, Places, Asking, Complete, history
<1>c. /\ tab[t].memory \subseteq Files
      /\ q.at = "answered"
      /\ q.memory = tab[t].memory
  BY <1>0, <1>a DEF Instances, Complete, history
<1>d. q # Away
  BY <1>a, <1>c DEF Away
<1>1. /\ tab[t].at = "completing"
      /\ tab[t] # Away
      /\ q \in Instances
      /\ q # Away
      /\ tab[t].memory \subseteq Files
      /\ q.at = "answered"
      /\ q.memory = tab[t].memory
  BY <1>a, <1>b, <1>c, <1>d
<1>2. tab' = [tab EXCEPT ![t] = q]
  BY DEF Complete, Put
<1>3. /\ tab' \in [Tabs -> Instances]
      /\ tab'[t] = q
      /\ \A u \in Tabs : u # t => tab'[u] = tab[u]
  BY <1>1, <1>2, PutTyped DEF PanelInv
<1>4. PanelTypeOK'
  BY <1>0, <1>1, <1>3 DEF PanelInv, PanelTypeOK, Complete, history
<1>5. (AwayHoldsNothing /\ LoadingIsBlank /\ AnsweredIsIngested)'
  <2>1. AwayHoldsNothing'
    BY <1>1, <1>3 DEF PanelInv, AwayHoldsNothing
  <2>2. LoadingIsBlank'
    BY <1>1, <1>3 DEF PanelInv, LoadingIsBlank
  <2>3. AnsweredIsIngested'
    BY <1>1, <1>3 DEF PanelInv, AnsweredIsIngested, Complete, history
  <2> QED  BY <2>1, <2>2, <2>3
<1>6. (OneRunAtMost /\ OneInstance)'
  <2>1. OneRunAtMost'
    BY <1>0, <1>1, <1>3 DEF PanelInv, OneRunAtMost, Complete, history, Running
  <2>2. OneInstance'
    BY <1>1, <1>3 DEF PanelInv, OneInstance, Complete, history
  <2> QED  BY <2>1, <2>2
<1>7. Remembered'
  BY <1>1, <1>3 DEF PanelInv, Remembered, OneRunAtMost, AnsweredIsIngested, Complete,
     history, Running
<1>8. Offered'
  <2> SUFFICES ASSUME ~disturbed', ~second', NEW u \in Tabs, tab'[u].at = "idle",
                      ~(uploaded' \subseteq ingested')
               PROVE  StartEnabled(u)'
    BY DEF Offered
  <2>1. CASE u = t
    BY <2>1, <1>1, <1>3, <1>7 DEF PanelInv, Offered, Remembered, AnsweredIsIngested,
       OneRunAtMost, Complete, history, StartEnabled, NeedsIngest, Running
  <2>2. CASE u # t
    BY <2>2, <1>1, <1>3, <1>6 DEF PanelInv, Offered, OneInstance, Complete, history,
       StartEnabled, NeedsIngest, Away
  <2> QED  BY <2>1, <2>2
<1> QED  BY <1>4, <1>5, <1>6, <1>7, <1>8 DEF PanelInv

LEMMA CompletedKeeps ==
  ASSUME PanelInv, NEW t \in Tabs, Completed(t)
  PROVE  PanelInv'
<1>0. tab[t] \in Instances /\ cache \subseteq Files /\ ingested \subseteq Files
  BY DEF PanelInv, PanelTypeOK
<1>a. tab[t].at = "answered" /\ tab[t] # Away
  BY <1>0 DEF Away, Completed, Server, history, None, Asked
<1> PICK q : q = [Idle(t, FALSE) EXCEPT !.summary = TRUE, !.offered = FALSE, !.page = Asked]
  OBVIOUS
<1>b. q \in Instances
  BY <1>0, <1>a DEF Instances, Places, Asking, Completed, Server, history, Idle
<1>c. /\ q.at = "idle"
  BY <1>0, <1>a DEF Instances, Completed, Server, history, Idle
<1>d. q # Away
  BY <1>a, <1>c DEF Away
<1>1. /\ tab[t].at = "answered"
      /\ tab[t] # Away
      /\ q \in Instances
      /\ q # Away
      /\ q.at = "idle"
  BY <1>a, <1>b, <1>c, <1>d
<1>2. tab' = [tab EXCEPT ![t] = q]
  BY DEF Completed, Put
<1>3. /\ tab' \in [Tabs -> Instances]
      /\ tab'[t] = q
      /\ \A u \in Tabs : u # t => tab'[u] = tab[u]
  BY <1>1, <1>2, PutTyped DEF PanelInv
<1>4. PanelTypeOK'
  BY <1>0, <1>1, <1>3 DEF PanelInv, PanelTypeOK, Completed, Server, history
<1>5. (AwayHoldsNothing /\ LoadingIsBlank /\ AnsweredIsIngested)'
  <2>1. AwayHoldsNothing'
    BY <1>1, <1>3 DEF PanelInv, AwayHoldsNothing
  <2>2. LoadingIsBlank'
    BY <1>1, <1>3 DEF PanelInv, LoadingIsBlank
  <2>3. AnsweredIsIngested'
    BY <1>1, <1>3 DEF PanelInv, AnsweredIsIngested, Completed, Server, history
  <2> QED  BY <2>1, <2>2, <2>3
<1>6. (OneRunAtMost /\ OneInstance)'
  <2>1. OneRunAtMost'
    BY <1>0, <1>1, <1>3 DEF PanelInv, OneRunAtMost, Completed, Server, history, Running
  <2>2. OneInstance'
    BY <1>1, <1>3 DEF PanelInv, OneInstance, Completed, Server, history
  <2> QED  BY <2>1, <2>2
<1>7. Remembered'
  BY <1>1, <1>3 DEF PanelInv, Remembered, OneRunAtMost, AnsweredIsIngested, Completed,
     Server, history, Running
<1>8. Offered'
  <2> SUFFICES ASSUME ~disturbed', ~second', NEW u \in Tabs, tab'[u].at = "idle",
                      ~(uploaded' \subseteq ingested')
               PROVE  StartEnabled(u)'
    BY DEF Offered
  <2>1. CASE u = t
    BY <2>1, <1>1, <1>3, <1>7 DEF PanelInv, Offered, Remembered, AnsweredIsIngested,
       OneRunAtMost, Completed, Server, history, StartEnabled, NeedsIngest, Running
  <2>2. CASE u # t
    BY <2>2, <1>1, <1>3, <1>6 DEF PanelInv, Offered, OneInstance, Completed, Server,
       history, StartEnabled, NeedsIngest, Away
  <2> QED  BY <2>1, <2>2
<1> QED  BY <1>4, <1>5, <1>6, <1>7, <1>8 DEF PanelInv

LEMMA FailedKeeps ==
  ASSUME PanelInv, NEW t \in Tabs, Failed(t)
  PROVE  PanelInv'
<1>0. tab[t] \in Instances /\ cache \subseteq Files /\ ingested \subseteq Files
  BY DEF PanelInv, PanelTypeOK
<1>a. tab[t].at \in {"initiating", "completing", "answered"} /\ tab[t] # Away
  BY <1>0 DEF Away, Failed, Server, history, None, Asked
<1> PICK q : q = Idle(t, TRUE)
  OBVIOUS
<1>b. q \in Instances
  BY <1>0, <1>a DEF Instances, Places, Asking, Failed, Server, history, Idle
<1>c. /\ q.at = "idle"
      /\ q.error = TRUE
  BY <1>0, <1>a DEF Instances, Failed, Server, history, Idle
<1>d. q # Away
  <2>1. Away.at = "away"
    BY DEF Away
  <2>2. q.at # Away.at
    BY <1>c, <2>1
  <2> QED  BY <2>2
<1>1. /\ tab[t].at \in {"initiating", "completing", "answered"}
      /\ tab[t] # Away
      /\ q \in Instances
      /\ q # Away
      /\ q.at = "idle"
      /\ q.error = TRUE
  BY <1>a, <1>b, <1>c, <1>d
<1>2. tab' = [tab EXCEPT ![t] = q]
  BY DEF Failed, Put
<1>3. /\ tab' \in [Tabs -> Instances]
      /\ tab'[t] = q
      /\ \A u \in Tabs : u # t => tab'[u] = tab[u]
  BY <1>1, <1>2, PutTyped DEF PanelInv
<1>4. PanelTypeOK'
  BY <1>0, <1>1, <1>3 DEF PanelInv, PanelTypeOK, Failed, Server, history
<1>5. (AwayHoldsNothing /\ LoadingIsBlank /\ AnsweredIsIngested)'
  <2>1. AwayHoldsNothing'
    BY <1>1, <1>3 DEF PanelInv, AwayHoldsNothing
  <2>2. LoadingIsBlank'
    BY <1>1, <1>3 DEF PanelInv, LoadingIsBlank
  <2>3. AnsweredIsIngested'
    BY <1>1, <1>3 DEF PanelInv, AnsweredIsIngested, Failed, Server, history
  <2> QED  BY <2>1, <2>2, <2>3
<1>6. (OneRunAtMost /\ OneInstance)'
  <2>1. OneRunAtMost'
    BY <1>0, <1>1, <1>3 DEF PanelInv, OneRunAtMost, Failed, Server, history, Running
  <2>2. OneInstance'
    BY <1>1, <1>3 DEF PanelInv, OneInstance, Failed, Server, history
  <2> QED  BY <2>1, <2>2
<1>7. Remembered'
  BY <1>1, <1>3 DEF PanelInv, Remembered, OneRunAtMost, AnsweredIsIngested, Failed,
     Server, history, Running
<1>8. Offered'
  <2> SUFFICES ASSUME ~disturbed', ~second', NEW u \in Tabs, tab'[u].at = "idle",
                      ~(uploaded' \subseteq ingested')
               PROVE  StartEnabled(u)'
    BY DEF Offered
  <2>1. CASE u = t
    BY <2>1, <1>1, <1>3, <1>7 DEF PanelInv, Offered, Remembered, AnsweredIsIngested,
       OneRunAtMost, Failed, Server, history, StartEnabled, NeedsIngest, Running
  <2>2. CASE u # t
    BY <2>2, <1>1, <1>3, <1>6 DEF PanelInv, Offered, OneInstance, Failed, Server,
       history, StartEnabled, NeedsIngest, Away
  <2> QED  BY <2>1, <2>2
<1> QED  BY <1>4, <1>5, <1>6, <1>7, <1>8 DEF PanelInv

\* The page is rendered: a count it had not seen decides what is offered.
LEMMA RenderPageKeeps ==
  ASSUME PanelInv, NEW t \in Tabs, RenderPage(t)
  PROVE  PanelInv'
<1> DEFINE stale == tab[t].page = 0 /\ cache # {}
           fresh == [tab[t] EXCEPT !.page = None, !.seen = tab[t].page,
                       !.at = IF @ = "loading" THEN "idle" ELSE @]
           offer == [fresh EXCEPT !.offered = cache # {} /\ ~stale]
           same == tab[t].page = tab[t].seen
<1>0. /\ tab[t] \in Instances /\ cache \subseteq Files /\ ingested \subseteq Files
      /\ uploaded \subseteq Files
  BY DEF PanelInv, PanelTypeOK
<1>a. tab[t].page \in Counts /\ tab[t].page # None /\ tab[t].page \in Asking
  BY <1>0 DEF RenderPage, Counts, None, Instances
<1>b. tab[t] # Away /\ tab[t].at # "away"
  <2>1. tab[t] # Away
    BY <1>a DEF Away
  <2> QED  BY <2>1 DEF PanelInv, AwayHoldsNothing
<1>c. (tab[t].at = "loading" => ~same /\ ~tab[t].summary)
  BY <1>a DEF PanelInv, LoadingIsBlank
<1>d. fresh \in Instances /\ offer \in Instances
  BY <1>0, <1>a DEF Instances, Places, Asking
<1> PICK q : q = IF same THEN fresh ELSE offer
  OBVIOUS
<1>e. /\ q \in Instances
      /\ q.at = IF tab[t].at = "loading" THEN "idle" ELSE tab[t].at
      /\ q.memory = tab[t].memory /\ q.pending = tab[t].pending
      /\ q.summary = tab[t].summary /\ q.error = tab[t].error
      /\ q.offered = IF same THEN tab[t].offered ELSE cache # {} /\ ~stale
  BY <1>0, <1>d DEF Instances
<1>f. q.at # "away" /\ q.at # "loading"
  BY <1>b, <1>e
<1>g. q # Away
  BY <1>f DEF Away
<1>h. /\ tab' = [tab EXCEPT ![t] = q]
      /\ cache' = IF ~same /\ stale THEN {} ELSE cache
      /\ disturbed' = (disturbed \/ (~same /\ stale))
      /\ UNCHANGED <<uploaded, ingested, second>>
  <2>1. CASE same
    BY <2>1, <1>0 DEF RenderPage, Put, Server, PanelInv, PanelTypeOK
  <2>2. CASE ~same
    BY <2>2, <1>0 DEF RenderPage, Put, Server, PanelInv, PanelTypeOK
  <2> QED  BY <2>1, <2>2
<1> HIDE DEF stale, fresh, offer, same
<1>3. /\ tab' \in [Tabs -> Instances]
      /\ tab'[t] = q
      /\ \A u \in Tabs : u # t => tab'[u] = tab[u]
  BY <1>e, <1>h, PutTyped DEF PanelInv
<1>4. PanelTypeOK'
  BY <1>0, <1>3, <1>h DEF PanelInv, PanelTypeOK
<1>5. (AwayHoldsNothing /\ LoadingIsBlank /\ AnsweredIsIngested)'
  <2>1. AwayHoldsNothing'
    BY <1>3, <1>f DEF PanelInv, AwayHoldsNothing
  <2>2. LoadingIsBlank'
    BY <1>3, <1>f DEF PanelInv, LoadingIsBlank
  <2>3. AnsweredIsIngested'
    BY <1>3, <1>e, <1>h DEF PanelInv, AnsweredIsIngested
  <2> QED  BY <2>1, <2>2, <2>3
<1>6. (OneRunAtMost /\ OneInstance)'
  <2>1. \A u \in Tabs : Running(u)' <=> Running(u)
    BY <1>3, <1>e DEF Running
  <2>2. \A u \in Tabs : tab'[u].memory = tab[u].memory
    BY <1>3, <1>e
  <2>3. ~disturbed' => ~disturbed /\ cache' = cache
    BY <1>h
  <2>4. OneRunAtMost'
    BY <2>1, <2>2, <2>3 DEF PanelInv, OneRunAtMost
  <2>5. OneInstance'
    BY <1>3, <1>b, <1>h DEF PanelInv, OneInstance
  <2> QED  BY <2>4, <2>5
<1>7. Remembered'
  BY <1>h DEF PanelInv, Remembered
<1>8. Offered'
  <2> SUFFICES ASSUME ~disturbed', ~second', NEW u \in Tabs, tab'[u].at = "idle",
                      ~(uploaded' \subseteq ingested')
               PROVE  StartEnabled(u)'
    BY DEF Offered
  <2>0. ~disturbed /\ cache' = cache /\ (same \/ ~stale) /\ ~second
    BY <1>h
  <2>1. ASSUME u = t, ~same  PROVE StartEnabled(u)'
    <3>1. cache # {}
      BY <2>0, <1>h, <1>7 DEF Remembered
    <3>2. q.offered = TRUE
      BY <3>1, <2>0, <2>1, <1>e
    <3>3. tab[t].at = "loading" => ~tab[t].summary
      BY <1>c
    <3>4. CASE tab[t].at = "loading"
      BY <3>2, <3>3, <3>4, <2>1, <1>3, <1>e DEF StartEnabled, NeedsIngest
    <3>5. CASE tab[t].at # "loading"
      <4>1. tab[t].at = "idle"
        BY <3>5, <2>1, <1>3, <1>e
      <4>2. StartEnabled(t)
        BY <4>1, <2>0, <1>h DEF PanelInv, Offered
      <4> QED  BY <4>2, <3>2, <2>1, <1>3, <1>e DEF StartEnabled, NeedsIngest
    <3> QED  BY <3>4, <3>5
  <2>2. ASSUME u = t, same  PROVE StartEnabled(u)'
    <3>1. tab[t].at = "idle"
      BY <2>2, <1>c, <1>3, <1>e
    <3>2. StartEnabled(t)
      BY <3>1, <2>0, <1>h DEF PanelInv, Offered
    <3> QED  BY <3>2, <2>2, <1>3, <1>e DEF StartEnabled, NeedsIngest
  <2>3. ASSUME u # t  PROVE StartEnabled(u)'
    BY <2>0, <2>3, <1>3, <1>h DEF PanelInv, Offered, StartEnabled, NeedsIngest
  <2> QED  BY <2>1, <2>2, <2>3
<1> QED  BY <1>4, <1>5, <1>6, <1>7, <1>8 DEF PanelInv

\* A tab closed holds nothing; what it had sent may still be ingested.
LEMMA CloseKeeps ==
  ASSUME PanelInv, NEW t \in Tabs, Close(t)
  PROVE  PanelInv'
<1>0. tab[t] \in Instances /\ ingested \subseteq Files /\ tab[t].memory \subseteq Files
  BY DEF PanelInv, PanelTypeOK, Instances
<1>1. Away \in Instances /\ Away.at = "away"
  BY DEF Away, Instances, Places, Asking
<1>2. tab' = [tab EXCEPT ![t] = Away]
  BY DEF Close, Put
<1>3. /\ tab' \in [Tabs -> Instances]
      /\ tab'[t] = Away
      /\ \A u \in Tabs : u # t => tab'[u] = tab[u]
  BY <1>1, <1>2, PutTyped DEF PanelInv
<1>4. /\ ingested \subseteq ingested' /\ ingested' \subseteq ingested \cup tab[t].memory
      /\ UNCHANGED <<cache, uploaded, second, disturbed>>
  BY DEF Close, history
<1>5. PanelTypeOK'
  BY <1>0, <1>3, <1>4 DEF PanelInv, PanelTypeOK
<1>6. (AwayHoldsNothing /\ LoadingIsBlank /\ AnsweredIsIngested)'
  <2>1. AwayHoldsNothing'
    BY <1>3 DEF PanelInv, AwayHoldsNothing
  <2>2. LoadingIsBlank'
    BY <1>1, <1>3 DEF PanelInv, LoadingIsBlank
  <2>3. AnsweredIsIngested'
    BY <1>1, <1>3, <1>4 DEF PanelInv, AnsweredIsIngested
  <2> QED  BY <2>1, <2>2, <2>3
<1>7. (OneRunAtMost /\ OneInstance)'
  <2>1. OneRunAtMost'
    BY <1>1, <1>3, <1>4 DEF PanelInv, OneRunAtMost, Running
  <2>2. OneInstance'
    BY <1>3, <1>4 DEF PanelInv, OneInstance
  <2> QED  BY <2>1, <2>2
<1>8. (Remembered /\ Offered)'
  <2>1. Remembered'
    BY <1>4 DEF PanelInv, Remembered
  <2>2. Offered'
    BY <1>1, <1>3, <1>4 DEF PanelInv, Offered, StartEnabled, NeedsIngest
  <2> QED  BY <2>1, <2>2
<1> QED  BY <1>5, <1>6, <1>7, <1>8 DEF PanelInv

\* With nothing to send the run ends; the cache it held was empty then.
LEMMA SendManifestKeeps ==
  ASSUME PanelInv, NEW t \in Tabs, SendManifest(t)
  PROVE  PanelInv'
<1>0. tab[t] \in Instances /\ cache \subseteq Files /\ tab[t].memory \subseteq Files
  BY DEF PanelInv, PanelTypeOK, Instances
<1>a. tab[t].at = "putting" /\ tab[t] # Away
  BY DEF SendManifest, Away
<1> PICK q : q = IF tab[t].memory = {} THEN Idle(t, FALSE) ELSE [tab[t] EXCEPT !.at = "completing"]
  OBVIOUS
<1>b. /\ q \in Instances
      /\ tab[t].memory = {} => q.at = "idle"
      /\ tab[t].memory # {} => q.at = "completing"
  BY <1>0 DEF Instances, Places, Idle
<1>c. tab[t].memory # {} => q.memory = tab[t].memory
  BY <1>0 DEF Instances
<1>d. q.at # "away" /\ q.at # "loading" /\ q.at # "answered"
  <2>1. q.at = "idle" \/ q.at = "completing"
    BY <1>b
  <2> QED  BY <2>1
<1>e. q # Away
  <2>1. Away.at = "away"
    BY DEF Away
  <2>2. q.at # Away.at
    BY <1>d, <2>1
  <2> QED  BY <2>2
<1>2. tab' = [tab EXCEPT ![t] = q] /\ UNCHANGED <<cache, uploaded, ingested, second, disturbed>>
  BY DEF SendManifest, Put, Server, history
<1>3. /\ tab' \in [Tabs -> Instances]
      /\ tab'[t] = q
      /\ \A u \in Tabs : u # t => tab'[u] = tab[u]
  BY <1>b, <1>2, PutTyped DEF PanelInv
<1>4. PanelTypeOK'
  BY <1>0, <1>2, <1>3 DEF PanelInv, PanelTypeOK
<1>5. (AwayHoldsNothing /\ LoadingIsBlank /\ AnsweredIsIngested)'
  <2>1. AwayHoldsNothing'
    BY <1>3, <1>d DEF PanelInv, AwayHoldsNothing
  <2>2. LoadingIsBlank'
    BY <1>3, <1>d DEF PanelInv, LoadingIsBlank
  <2>3. AnsweredIsIngested'
    BY <1>2, <1>3, <1>d DEF PanelInv, AnsweredIsIngested
  <2> QED  BY <2>1, <2>2, <2>3
<1>6. Running(t) /\ (Running(t)' => tab'[t].memory = tab[t].memory)
  BY <1>a, <1>b, <1>c, <1>3 DEF Running
<1>7. (OneRunAtMost /\ OneInstance)'
  <2>1. OneRunAtMost'
    <3>1. \A u \in Tabs : u # t => (Running(u)' <=> Running(u))
      BY <1>3 DEF Running
    <3> QED  BY <1>2, <1>3, <1>6, <3>1 DEF PanelInv, OneRunAtMost
  <2>2. OneInstance'
    BY <1>2, <1>3, <1>a DEF PanelInv, OneInstance
  <2> QED  BY <2>1, <2>2
<1>8. Remembered'
  BY <1>2 DEF PanelInv, Remembered
<1>9. Offered'
  <2> SUFFICES ASSUME ~disturbed', ~second', NEW u \in Tabs, tab'[u].at = "idle",
                      ~(uploaded' \subseteq ingested')
               PROVE  StartEnabled(u)'
    BY DEF Offered
  <2>1. ASSUME u = t  PROVE FALSE
    <3>1. tab[t].memory = {}
      BY <2>1, <1>3, <1>b
    <3>2. cache = {}
      BY <3>1, <1>2, <1>6 DEF PanelInv, OneRunAtMost
    <3> QED  BY <3>2, <1>2 DEF PanelInv, Remembered
  <2>2. ASSUME u # t  PROVE StartEnabled(u)'
    BY <2>2, <1>2, <1>3 DEF PanelInv, Offered, StartEnabled, NeedsIngest
  <2> QED  BY <2>1, <2>2
<1> QED  BY <1>4, <1>5, <1>7, <1>8, <1>9 DEF PanelInv

\* The inductive invariant, through every step.
LEMMA PanelKeeps == PanelInv /\ [PanelNext]_panelVars => PanelInv'
<1> SUFFICES ASSUME PanelInv, PanelNext  PROVE PanelInv'
  BY PanelStutters
<1> PICK t \in Tabs :
      \/ Open(t) \/ ReadCount(t) \/ RenderPage(t) \/ Close(t)
      \/ ResetState(t) \/ StartUpload(t)
      \/ Initiated(t) \/ SendManifest(t) \/ Complete(t) \/ Completed(t) \/ Failed(t)
      \/ \E f \in Files : AddFiles(t, f) \/ FileStored(t, f) \/ FileFailed(t, f)
  BY DEF PanelNext
<1>1. ASSUME NEW f \in Files, AddFiles(t, f) \/ FileStored(t, f) \/ FileFailed(t, f)
      PROVE  PanelInv'
  BY <1>1, AddFilesKeeps, FileStoredKeeps, FileFailedKeeps
<1>2. ASSUME Open(t) \/ ReadCount(t) \/ RenderPage(t) \/ Close(t)  PROVE PanelInv'
  BY <1>2, OpenKeeps, ReadCountKeeps, RenderPageKeeps, CloseKeeps
<1>3. ASSUME ResetState(t) \/ StartUpload(t) \/ Initiated(t) \/ SendManifest(t)  PROVE PanelInv'
  BY <1>3, ResetStateKeeps, StartUploadKeeps, InitiatedKeeps, SendManifestKeeps
<1>4. ASSUME Complete(t) \/ Completed(t) \/ Failed(t)  PROVE PanelInv'
  BY <1>4, CompleteKeeps, CompletedKeeps, FailedKeeps
<1> QED  BY <1>1, <1>2, <1>3, <1>4

\* A file put into storage is ingested, or in the cache and on offer, for any
\* files and any number of instances of the page (start, the cacheKey effect).
THEOREM PanelRemembers == PanelSpec => []UploadsAreRemembered
<1>1. PanelInv => UploadsAreRemembered
  BY DEF PanelInv, UploadsAreRemembered
<1> QED  BY <1>1, PanelStarts, PanelKeeps, PTL DEF PanelSpec

-----------------------------------------------------------------------------
(* Ground control.                                                         *)

-----------------------------------------------------------------------------
(* The parsers.  A line that is kept keeps its number and what it says.    *)

LEMMA KeptLines ==
  ASSUME NEW file, NEW numbers
  PROVE  /\ DOMAIN OnLines(file, numbers) = numbers
         /\ \A k \in numbers : OnLines(file, numbers)[k] = file[k]
BY DEF OnLines

\* Every mark the worker has read was in a file the form showed.
LEMMA MarksKept ==
  ASSUME NEW files, NEW marks, marks = ParseProjectionsFolder(ParseProjections(files)),
         NEW image \in DOMAIN marks
  PROVE  /\ image \in DOMAIN files
         /\ DOMAIN marks[image] \subseteq DOMAIN files[image]
         /\ \A k \in DOMAIN marks[image] : marks[image][k] = files[image][k]
<1> PICK parsed : parsed = ParseProjections(files)
  OBVIOUS
<1>1. DOMAIN parsed = {i \in DOMAIN files : MarkLines(files[i]) # {}}
  BY DEF ParseProjections
<1>2. DOMAIN marks = DOMAIN parsed
  BY DEF ParseProjectionsFolder
<1>3. image \in DOMAIN files /\ image \in DOMAIN parsed
  BY <1>1, <1>2
<1>4. parsed[image] = OnLines(files[image], MarkLines(files[image]))
  BY <1>1, <1>3 DEF ParseProjections
<1>5. /\ DOMAIN parsed[image] = MarkLines(files[image])
      /\ \A k \in DOMAIN parsed[image] : parsed[image][k] = files[image][k]
  BY <1>4, KeptLines
<1> PICK numbers : numbers = {k \in DOMAIN parsed[image] : parsed[image][k].id # BlankId}
  OBVIOUS
<1>6. marks[image] = OnLines(parsed[image], numbers)
  BY <1>2, <1>3 DEF ParseProjectionsFolder
<1>7. /\ DOMAIN marks[image] = numbers
      /\ \A k \in numbers : marks[image][k] = parsed[image][k]
  BY <1>6, KeptLines
<1>8. MarkLines(files[image]) \subseteq DOMAIN files[image]
  BY DEF MarkLines
<1> QED  BY <1>3, <1>5, <1>7, <1>8

LEMMA TruthKept ==
  ASSUME NEW file, NEW truth, truth = ParseGroundTruth(file), NEW k \in DOMAIN truth
  PROVE  k \in DOMAIN file /\ truth[k] = file[k] /\ file[k].fields >= 4
<1> PICK numbers : numbers = {n \in DOMAIN file : file[n].fields >= 4}
  OBVIOUS
<1>1. truth = OnLines(file, numbers)
  BY DEF ParseGroundTruth
<1> QED  BY <1>1, KeptLines

-----------------------------------------------------------------------------
(* What the fit uses.                                                      *)

LEMMA ObservationsAre ==
  ASSUME NEW marks, NEW o
  PROVE  o \in Observations(marks) <=>
           \E image \in DOMAIN marks : \E k \in DOMAIN marks[image] : o = <<image, k>>
BY DEF Observations

LEMMA ObservationsFinite ==
  ASSUME NEW files \in MarkSelections
  PROVE  IsFiniteSet(Observations(files))
<1> DEFINE Sets == {{image} \X DOMAIN files[image] : image \in DOMAIN files}
           f == [image \in DOMAIN files |-> {image} \X DOMAIN files[image]]
<1>1. IsFiniteSet(DOMAIN files) /\ \A image \in DOMAIN files : IsFiniteSet(DOMAIN files[image])
  BY GroundControlAssumption
<1>2. f \in Surjection(DOMAIN files, Sets)
  BY DEF Surjection
<1>3. IsFiniteSet(Sets)
  BY <1>1, <1>2, FS_Surjection
<1>4. ASSUME NEW T \in Sets  PROVE IsFiniteSet(T)
  <2>1. PICK image \in DOMAIN files : T = {image} \X DOMAIN files[image]
    OBVIOUS
  <2> QED  BY <1>1, <2>1, FS_Singleton, FS_Product
<1>5. IsFiniteSet(UNION Sets)
  BY <1>3, <1>4, FS_UNION
<1> QED  BY <1>5 DEF Observations

LEMMA UsedIsGrounded ==
  ASSUME NEW body, NEW bundle, NEW survey, NEW files \in MarkSelections,
         body.truth = ParseGroundTruth(survey), body.marks = ParseProjections(files),
         Used(body, bundle) # {}
  PROVE  /\ Cardinality(Used(body, bundle)) >= 3
         /\ \A id \in Used(body, bundle) :
              /\ SurveyedIn(survey, id)
              /\ Cardinality(SeenIn(files, id, bundle.posed)) >= 2
<1> PICK truth : truth = ParseGroundTruth(survey)
  OBVIOUS
<1> PICK marks : marks = ParseProjectionsFolder(ParseProjections(files))
  OBVIOUS
<1> PICK common : common = Triangulated(marks, bundle.posed) \cap {truth[k].id : k \in DOMAIN truth}
  OBVIOUS
<1>1. Used(body, bundle) = IF /\ Readable(truth) /\ \A image \in DOMAIN marks : Readable(marks[image])
                              /\ Cardinality(common) >= 3
                           THEN common ELSE {}
  BY DEF Used, ParseGcpFile
<1>2. /\ Readable(truth) /\ \A image \in DOMAIN marks : Readable(marks[image])
      /\ Cardinality(common) >= 3 /\ Used(body, bundle) = common
  BY <1>1
<1>3. ASSUME NEW id \in common
      PROVE  /\ SurveyedIn(survey, id)
             /\ Cardinality(SeenIn(files, id, bundle.posed)) >= 2
  <2>1. PICK k \in DOMAIN truth : truth[k].id = id
    OBVIOUS
  <2>2. k \in DOMAIN survey /\ truth[k] = survey[k] /\ survey[k].fields >= 4
    BY TruthKept
  <2>3. SurveyedIn(survey, id)
    BY <2>1, <2>2, <1>2 DEF SurveyedIn, Readable
  <2>4. 2 * Cardinality(Seen(marks, id, bundle.posed)) >= 4
    BY DEF Triangulated
  <2>5. Seen(marks, id, bundle.posed) \subseteq SeenIn(files, id, bundle.posed)
    <3> SUFFICES ASSUME NEW o \in Seen(marks, id, bundle.posed)
                 PROVE  o \in SeenIn(files, id, bundle.posed)
      OBVIOUS
    <3>1. o \in Observations(marks) /\ IdOf(marks, o) = id /\ Posed(o[1], bundle.posed)
      BY DEF Seen, ObservationsOf
    <3>2. PICK image \in DOMAIN marks : \E n \in DOMAIN marks[image] : o = <<image, n>>
      BY <3>1, ObservationsAre
    <3>3. PICK n \in DOMAIN marks[image] : o = <<image, n>>
      BY <3>2
    <3>4. o[1] = image /\ o[2] = n
      BY <3>3
    <3>5. image \in DOMAIN files /\ n \in DOMAIN files[image] /\ marks[image][n] = files[image][n]
      BY MarksKept
    <3>6. o \in Observations(files)
      BY <3>3, <3>5, ObservationsAre
    <3>7. files[o[1]][o[2]].id = id
      BY <3>1, <3>4, <3>5 DEF IdOf
    <3>8. files[o[1]][o[2]].numeric
      BY <1>2, <3>4, <3>5 DEF Readable
    <3> QED  BY <3>1, <3>6, <3>7, <3>8 DEF SeenIn, Seen, ObservationsOf, IdOf
  <2>6. SeenIn(files, id, bundle.posed) \subseteq Observations(files)
    BY DEF SeenIn, Seen, ObservationsOf
  <2>7. IsFiniteSet(SeenIn(files, id, bundle.posed))
    BY <2>6, ObservationsFinite, FS_Subset
  <2>8. /\ IsFiniteSet(Seen(marks, id, bundle.posed))
        /\ Cardinality(Seen(marks, id, bundle.posed)) <= Cardinality(SeenIn(files, id, bundle.posed))
    BY <2>5, <2>7, FS_Subset
  <2>9. /\ Cardinality(Seen(marks, id, bundle.posed)) \in Nat
        /\ Cardinality(SeenIn(files, id, bundle.posed)) \in Nat
    BY <2>7, <2>8, FS_CardinalityType
  <2>10. Cardinality(SeenIn(files, id, bundle.posed)) >= 2
    BY <2>4, <2>8, <2>9
  <2> QED  BY <2>3, <2>10
<1> QED  BY <1>2, <1>3

-----------------------------------------------------------------------------
(* The form and the jobs.                                                  *)

Chosen == Presets \cup {CHOOSE p \in Presets : TRUE}
Truths == {ParseGroundTruth(file) : file \in SurveyFiles} \cup {<<>>}
MarkSets == {ParseProjections(files) : files \in MarkSelections} \cup {<<>>}
Identifiers == UNION {{file[k].id : k \in DOMAIN file} : file \in SurveyFiles}
Bodies == [mode : Modes, preset : Chosen, truth : Truths, marks : MarkSets]
ShownForms == [mode : Modes, preset : Chosen,
          survey : SurveyFiles \cup {NoFile}, selection : MarkSelections \cup {NoFile}]
Jobs == [body : Bodies, shown : ShownForms,
         status : {"posted", "created", "refused", "FAILED", "COMPLETE"},
         used : SUBSET Identifiers,
         posed : {bundle.posed : bundle \in Bundles} \cup {{}},
         outputs : {bundle.assets : bundle \in Bundles} \cup {{}}]
LauncherTypeOK ==
  /\ form \in [mode : Modes, preset : Chosen,
               survey : SurveyFiles \cup {NoFile}, truth : Truths,
               selection : MarkSelections \cup {NoFile}, marks : MarkSets, posted : BOOLEAN]
  /\ reads \subseteq {[kind |-> "survey", file |-> file] : file \in SurveyFiles}
                     \cup {[kind |-> "marks", file |-> files] : files \in MarkSelections}
  /\ launched \in Seq(Jobs)

\* What the form holds is what it has read of the files it shows.
FormIsParsed ==
  /\ \/ form.survey = NoFile /\ form.truth = <<>>
     \/ form.survey \in SurveyFiles /\ form.truth = ParseGroundTruth(form.survey)
  /\ \/ form.selection = NoFile /\ form.marks = <<>>
     \/ form.selection \in MarkSelections /\ form.marks = ParseProjections(form.selection)

\* A job with ground control was launched with files.
JobOK(job) ==
  /\ AsShown(job)
  /\ job.body.mode = "gcp_corrected" => job.shown.selection \in MarkSelections
  /\ job.body.mode = "gcp_corrected" => job.shown.survey \in SurveyFiles
  /\ job.status = "COMPLETE" => Grounded(job)
JobsAreShown == \A j \in DOMAIN launched : JobOK(launched[j])
LauncherInv == LauncherTypeOK /\ FormIsParsed /\ JobsAreShown

Forms == [mode : Modes, preset : Chosen,
          survey : SurveyFiles \cup {NoFile}, truth : Truths,
          selection : MarkSelections \cup {NoFile}, marks : MarkSets, posted : BOOLEAN]

LEMMA LauncherStarts == LauncherInit => LauncherInv
<1> SUFFICES ASSUME LauncherInit  PROVE LauncherInv
  OBVIOUS
<1>1. Fresh \in Forms /\ Fresh.survey = NoFile /\ Fresh.truth = <<>>
      /\ Fresh.selection = NoFile /\ Fresh.marks = <<>>
  BY DEF Fresh, Forms, Modes, Chosen, Truths, MarkSets
<1>2. launched = <<>> /\ <<>> \in Seq(Jobs) /\ DOMAIN launched = {}
  BY DEF LauncherInit
<1>3. LauncherTypeOK
  BY <1>1, <1>2 DEF LauncherInit, LauncherTypeOK, Forms
<1> QED  BY <1>1, <1>2, <1>3 DEF LauncherInv, LauncherInit, FormIsParsed, JobsAreShown

\* A step that launches nothing and answers nothing.
LEMMA FormSteps ==
  ASSUME LauncherInv, UNCHANGED launched, form' \in Forms, FormIsParsed',
         reads' \subseteq {[kind |-> "survey", file |-> file] : file \in SurveyFiles}
                     \cup {[kind |-> "marks", file |-> files] : files \in MarkSelections}
  PROVE  LauncherInv'
<1>1. LauncherTypeOK'
  BY DEF LauncherInv, LauncherTypeOK, Forms
<1>2. JobsAreShown'
  BY DEF LauncherInv, JobsAreShown, JobOK, AsShown, Grounded
<1> QED  BY <1>1, <1>2 DEF LauncherInv

LEMMA LauncherFacts ==
  ASSUME LauncherInv
  PROVE  /\ form \in Forms /\ launched \in Seq(Jobs) /\ FormIsParsed
         /\ reads \subseteq {[kind |-> "survey", file |-> file] : file \in SurveyFiles}
                     \cup {[kind |-> "marks", file |-> files] : files \in MarkSelections}
BY DEF LauncherInv, LauncherTypeOK, Forms

LEMMA SettingsKeep ==
  ASSUME LauncherInv,
         (\E mode \in Modes : SetMode(mode)) \/ (\E preset \in Presets : SetPreset(preset))
  PROVE  LauncherInv'
<1>1. form \in Forms
  BY LauncherFacts
<1>2. CASE \E mode \in Modes : SetMode(mode)
  <2> PICK mode \in Modes : SetMode(mode)
    BY <1>2
  <2>1. /\ form' \in Forms /\ form'.survey = form.survey /\ form'.truth = form.truth
        /\ form'.selection = form.selection /\ form'.marks = form.marks
    BY <1>1 DEF SetMode, Forms
  <2> QED  BY <2>1, LauncherFacts, FormSteps DEF SetMode, FormIsParsed
<1>3. CASE \E preset \in Presets : SetPreset(preset)
  <2> PICK preset \in Presets : SetPreset(preset)
    BY <1>3
  <2>1. /\ form' \in Forms /\ form'.survey = form.survey /\ form'.truth = form.truth
        /\ form'.selection = form.selection /\ form'.marks = form.marks
    BY <1>1 DEF SetPreset, Forms, Chosen
  <2> QED  BY <2>1, LauncherFacts, FormSteps DEF SetPreset, FormIsParsed
<1> QED  BY <1>2, <1>3

LEMMA ChooseKeeps ==
  ASSUME LauncherInv,
         \/ \E file \in SurveyFiles : ChooseSurvey(file)
         \/ \E files \in MarkSelections : ChooseMarks(files)
  PROVE  LauncherInv'
<1>1. UNCHANGED <<form, launched>>
  BY DEF ChooseSurvey, ChooseMarks
<1>2. reads' \subseteq {[kind |-> "survey", file |-> file] : file \in SurveyFiles}
                     \cup {[kind |-> "marks", file |-> files] : files \in MarkSelections}
  BY LauncherFacts DEF ChooseSurvey, ChooseMarks
<1>3. form' \in Forms /\ FormIsParsed'
  BY <1>1, LauncherFacts DEF FormIsParsed
<1> QED  BY <1>1, <1>2, <1>3, FormSteps

LEMMA SurveyReadKeeps ==
  ASSUME LauncherInv, NEW file \in SurveyFiles, SurveyRead(file)
  PROVE  LauncherInv'
<1>1. form \in Forms
  BY LauncherFacts
<1>2. reads' \subseteq reads /\ UNCHANGED launched
  BY DEF SurveyRead
<1> PICK truth : truth = ParseGroundTruth(file)
  OBVIOUS
<1>3. truth \in Truths
  BY DEF Truths
<1>4. form' = form \/ form' = [form EXCEPT !.survey = file, !.truth = truth]
  BY DEF SurveyRead
<1>5. CASE form' = form
  BY <1>5, <1>2, LauncherFacts, FormSteps DEF FormIsParsed
<1>6. CASE form' = [form EXCEPT !.survey = file, !.truth = truth]
  <2>1. /\ form' \in Forms /\ form'.survey = file /\ form'.truth = truth
        /\ form'.selection = form.selection /\ form'.marks = form.marks
    BY <1>1, <1>3, <1>6 DEF Forms
  <2>2. FormIsParsed'
    BY <2>1, LauncherFacts DEF FormIsParsed
  <2> QED  BY <2>1, <2>2, <1>2, LauncherFacts, FormSteps
<1> QED  BY <1>4, <1>5, <1>6

LEMMA MarksReadKeeps ==
  ASSUME LauncherInv, NEW files \in MarkSelections, MarksRead(files)
  PROVE  LauncherInv'
<1>1. form \in Forms
  BY LauncherFacts
<1>2. reads' \subseteq reads /\ UNCHANGED launched
  BY DEF MarksRead
<1> PICK marks : marks = ParseProjections(files)
  OBVIOUS
<1>3. marks \in MarkSets
  BY DEF MarkSets
<1>4. form' = [form EXCEPT !.selection = files, !.marks = marks]
  BY DEF MarksRead
<1>5. /\ form' \in Forms /\ form'.selection = files /\ form'.marks = marks
      /\ form'.survey = form.survey /\ form'.truth = form.truth
  BY <1>1, <1>3, <1>4 DEF Forms
<1>6. FormIsParsed'
  BY <1>5, LauncherFacts DEF FormIsParsed
<1> QED  BY <1>2, <1>5, <1>6, LauncherFacts, FormSteps

LEMMA ClearKeeps ==
  ASSUME LauncherInv, ClearSurvey \/ ClearMarks \/ LeavePage
  PROVE  LauncherInv'
<1>1. form \in Forms /\ <<>> \in Truths /\ <<>> \in MarkSets
  BY LauncherFacts DEF Truths, MarkSets
<1>2. CASE ClearSurvey
  <2>1. /\ form' \in Forms /\ form'.survey = NoFile /\ form'.truth = <<>>
        /\ form'.selection = form.selection /\ form'.marks = form.marks
    BY <1>1, <1>2 DEF Forms, ClearSurvey
  <2>2. FormIsParsed'
    BY <2>1, LauncherFacts DEF FormIsParsed
  <2> QED  BY <1>2, <2>1, <2>2, LauncherFacts, FormSteps DEF ClearSurvey
<1>3. CASE ClearMarks
  <2>1. /\ form' \in Forms /\ form'.selection = NoFile /\ form'.marks = <<>>
        /\ form'.survey = form.survey /\ form'.truth = form.truth
    BY <1>1, <1>3 DEF Forms, ClearMarks
  <2>2. FormIsParsed'
    BY <2>1, LauncherFacts DEF FormIsParsed
  <2> QED  BY <1>3, <2>1, <2>2, LauncherFacts, FormSteps DEF ClearMarks
<1>4. CASE LeavePage
  <2>1. /\ Fresh \in Forms /\ Fresh.survey = NoFile /\ Fresh.truth = <<>>
        /\ Fresh.selection = NoFile /\ Fresh.marks = <<>>
    BY DEF Fresh, Forms, Modes, Chosen, Truths, MarkSets
  <2>2. form' = Fresh /\ reads' = {} /\ UNCHANGED launched
    BY <1>4 DEF LeavePage
  <2>3. FormIsParsed'
    BY <2>1, <2>2 DEF FormIsParsed
  <2> QED  BY <2>1, <2>2, <2>3, FormSteps
<1> QED  BY <1>2, <1>3, <1>4

\* A job takes another place or another record; the others stay.
LEMMA JobChanges ==
  ASSUME LauncherInv, NEW j \in DOMAIN launched, NEW job \in Jobs, JobOK(job),
         launched' = [launched EXCEPT ![j] = job]
  PROVE  launched' \in Seq(Jobs) /\ JobsAreShown'
<1>1. launched \in Seq(Jobs)
  BY LauncherFacts
<1>2. DOMAIN launched' = DOMAIN launched /\ launched' \in Seq(Jobs)
  BY <1>1, ExceptSeq
<1>3. ASSUME NEW i \in DOMAIN launched  PROVE JobOK(launched'[i])
  <2>1. launched'[i] = job \/ launched'[i] = launched[i]
    BY <1>1
  <2>2. JobOK(launched[i])
    BY DEF LauncherInv, JobsAreShown
  <2> QED  BY <2>1, <2>2
<1>4. JobsAreShown' = \A i \in DOMAIN launched' : JobOK(launched'[i])
  BY DEF JobsAreShown, JobOK, AsShown, Grounded
<1> QED  BY <1>2, <1>3, <1>4

LEMMA OnLaunchKeeps ==
  ASSUME LauncherInv, OnLaunch
  PROVE  LauncherInv'
<1>1. form \in Forms /\ launched \in Seq(Jobs) /\ <<>> \in Truths /\ <<>> \in MarkSets
  BY LauncherFacts DEF Truths, MarkSets
<1> PICK truth : truth = IF Gcp THEN form.truth ELSE <<>>
  OBVIOUS
<1> PICK marks : marks = IF Gcp THEN form.marks ELSE <<>>
  OBVIOUS
<1>2. truth \in Truths /\ marks \in MarkSets
  BY <1>1 DEF Forms
<1> PICK body : body = [mode |-> form.mode, preset |-> form.preset, truth |-> truth, marks |-> marks]
  OBVIOUS
<1> PICK screen : screen = [mode |-> form.mode, preset |-> form.preset,
                          survey |-> form.survey, selection |-> form.selection]
  OBVIOUS
<1>3. /\ body \in Bodies /\ body.mode = form.mode /\ body.preset = form.preset
      /\ body.truth = truth /\ body.marks = marks
  BY <1>1, <1>2 DEF Bodies, Forms
<1>4. /\ screen \in ShownForms /\ screen.mode = form.mode /\ screen.preset = form.preset
      /\ screen.survey = form.survey /\ screen.selection = form.selection
  BY <1>1 DEF ShownForms, Forms
<1> PICK job : job = [body |-> body, shown |-> screen,
                      status |-> "posted", used |-> {}, posed |-> {}, outputs |-> {}]
  OBVIOUS
<1>5. job \in Jobs /\ job.body = body /\ job.shown = screen /\ job.status = "posted"
  BY <1>3, <1>4 DEF Jobs
<1>6. /\ form' = [form EXCEPT !.posted = TRUE] /\ launched' = Append(launched, job)
      /\ UNCHANGED reads /\ LaunchEnabled
  BY DEF OnLaunch
<1>7. JobOK(job)
  <2>1. ASSUME Gcp
        PROVE  /\ form.survey \in SurveyFiles /\ truth = ParseGroundTruth(form.survey)
               /\ form.selection \in MarkSelections /\ marks = ParseProjections(form.selection)
    <3>1. truth = form.truth /\ marks = form.marks
      BY <2>1
    <3>2. Cardinality(DOMAIN form.truth) >= 3 /\ Cardinality(DOMAIN form.marks) >= 2
      BY <1>6, <2>1 DEF LaunchEnabled, GcpReady
    <3>3. Cardinality({}) = 0 /\ DOMAIN <<>> = {}
      BY FS_EmptySet
    <3>4. form.truth # <<>> /\ form.marks # <<>>
      BY <3>2, <3>3
    <3> QED  BY <3>1, <3>4, LauncherFacts DEF FormIsParsed
  <2>2. AsShown(job)
    BY <2>1, <1>3, <1>4, <1>5 DEF AsShown, Gcp
  <2>3. job.body.mode = "gcp_corrected" =>
          job.shown.selection \in MarkSelections /\ job.shown.survey \in SurveyFiles
    BY <2>1, <1>3, <1>4, <1>5 DEF Gcp
  <2>4. job.status # "COMPLETE"
    BY <1>5
  <2> QED  BY <2>2, <2>3, <2>4 DEF JobOK
<1>8. form' \in Forms /\ FormIsParsed'
  <2>1. /\ form' \in Forms /\ form'.survey = form.survey /\ form'.truth = form.truth
        /\ form'.selection = form.selection /\ form'.marks = form.marks
    BY <1>1, <1>6 DEF Forms
  <2> QED  BY <2>1, LauncherFacts DEF FormIsParsed
<1>9. launched' \in Seq(Jobs)
  BY <1>1, <1>5, <1>6
<1>10. JobsAreShown'
  <2>1. ASSUME NEW i \in DOMAIN launched'  PROVE JobOK(launched'[i])
    <3>1. i \in 1 .. Len(launched) + 1
      BY <2>1, <1>1, <1>5, <1>6
    <3>2. launched'[i] = IF i = Len(launched) + 1 THEN job ELSE launched[i]
      BY <3>1, <1>1, <1>5, <1>6
    <3>3. CASE i = Len(launched) + 1
      BY <3>2, <3>3, <1>7
    <3>4. CASE i # Len(launched) + 1
      <4>1. i \in DOMAIN launched
        BY <3>1, <3>4, <1>1
      <4> QED  BY <3>2, <3>4, <4>1 DEF LauncherInv, JobsAreShown
    <3> QED  BY <3>3, <3>4
  <2>2. JobsAreShown' = \A i \in DOMAIN launched' : JobOK(launched'[i])
    BY DEF JobsAreShown, JobOK, AsShown, Grounded
  <2> QED  BY <2>1, <2>2
<1>11. LauncherTypeOK'
  BY <1>6, <1>8, <1>9, LauncherFacts DEF LauncherTypeOK, Forms
<1> QED  BY <1>8, <1>10, <1>11 DEF LauncherInv

LEMMA AnsweredKeeps ==
  ASSUME LauncherInv, NEW status \in {"created", "refused"}, Answered(status)
  PROVE  LauncherInv'
<1>1. form \in Forms /\ launched \in Seq(Jobs)
  BY LauncherFacts
<1> PICK j : j = Len(launched)
  OBVIOUS
<1>2. /\ form' = [form EXCEPT !.posted = FALSE] /\ UNCHANGED reads
      /\ launched' = [launched EXCEPT ![j].status = status]
  BY DEF Answered
<1>3. form' \in Forms /\ FormIsParsed'
  <2>1. /\ form' \in Forms /\ form'.survey = form.survey /\ form'.truth = form.truth
        /\ form'.selection = form.selection /\ form'.marks = form.marks
    BY <1>1, <1>2 DEF Forms
  <2> QED  BY <2>1, LauncherFacts DEF FormIsParsed
<1>4. launched' \in Seq(Jobs) /\ JobsAreShown'
  <2>1. CASE j \in DOMAIN launched
    <3> PICK job : job = [launched[j] EXCEPT !.status = status]
      OBVIOUS
    <3>1. launched[j] \in Jobs /\ JobOK(launched[j])
      BY <1>1, <2>1 DEF LauncherInv, JobsAreShown
    <3>2. /\ job \in Jobs /\ job.body = launched[j].body /\ job.shown = launched[j].shown
          /\ job.status = status
      BY <3>1 DEF Jobs
    <3>3. JobOK(job)
      BY <3>1, <3>2 DEF JobOK, AsShown
    <3>4. launched' = [launched EXCEPT ![j] = job]
      BY <1>2
    <3> QED  BY <2>1, <3>2, <3>3, <3>4, JobChanges
  <2>2. CASE j \notin DOMAIN launched
    <3>1. launched' = launched
      BY <1>1, <1>2, <2>2
    <3>2. JobsAreShown' = JobsAreShown
      BY <3>1 DEF JobsAreShown, JobOK, AsShown, Grounded
    <3> QED  BY <1>1, <3>1, <3>2 DEF LauncherInv
  <2> QED  BY <2>1, <2>2
<1>5. LauncherTypeOK'
  BY <1>2, <1>3, <1>4, LauncherFacts DEF LauncherTypeOK, Forms
<1> QED  BY <1>3, <1>4, <1>5 DEF LauncherInv

\* The worker answers with no correction, or with one that is grounded.
LEMMA ProcessKeeps ==
  ASSUME LauncherInv, NEW j \in DOMAIN launched, NEW bundle \in Bundles, Process(j, bundle)
  PROVE  LauncherInv'
<1>1. form \in Forms /\ launched \in Seq(Jobs)
  BY LauncherFacts
<1> PICK old : old = launched[j]
  OBVIOUS
<1>2. old \in Jobs /\ JobOK(old) /\ old.body.mode = "gcp_corrected"
  BY <1>1 DEF LauncherInv, JobsAreShown, Process
<1>3. /\ old.body.truth = ParseGroundTruth(old.shown.survey)
      /\ old.body.marks = ParseProjections(old.shown.selection)
      /\ old.shown.selection \in MarkSelections /\ old.shown.survey \in SurveyFiles
  BY <1>2 DEF JobOK, AsShown
<1>4. UNCHANGED <<form, reads>>
  BY DEF Process
<1>5. PICK used :
        /\ used = {} \/ used = Used(old.body, bundle)
        /\ launched' = [launched EXCEPT ![j] =
             IF used = {} THEN [old EXCEPT !.status = "FAILED"]
             ELSE [old EXCEPT !.status = "COMPLETE", !.used = used,
                              !.posed = bundle.posed, !.outputs = bundle.assets]]
  BY DEF Process
<1>6. CASE used = {}
  <2> PICK job : job = [old EXCEPT !.status = "FAILED"]
    OBVIOUS
  <2>1. job \in Jobs /\ job.body = old.body /\ job.shown = old.shown /\ job.status = "FAILED"
    BY <1>2 DEF Jobs
  <2>2. JobOK(job)
    BY <2>1, <1>2 DEF JobOK, AsShown
  <2>3. launched' = [launched EXCEPT ![j] = job]
    BY <1>5, <1>6
  <2> QED
    BY <2>1, <2>2, <2>3, <1>4, JobChanges, LauncherFacts
    DEF LauncherInv, LauncherTypeOK, Forms, FormIsParsed
<1>7. CASE used # {}
  <2>1. used = Used(old.body, bundle)
    BY <1>5, <1>7
  <2>2. /\ Cardinality(used) >= 3
        /\ \A id \in used :
             /\ SurveyedIn(old.shown.survey, id)
             /\ Cardinality(SeenIn(old.shown.selection, id, bundle.posed)) >= 2
    BY <2>1, <1>3, <1>7, UsedIsGrounded
  <2>3. used \subseteq Identifiers
    BY <2>2, <1>3 DEF SurveyedIn, Identifiers
  <2> PICK job : job = [old EXCEPT !.status = "COMPLETE", !.used = used,
                                   !.posed = bundle.posed, !.outputs = bundle.assets]
    OBVIOUS
  <2>4. /\ job \in Jobs /\ job.body = old.body /\ job.shown = old.shown
        /\ job.used = used /\ job.posed = bundle.posed
    BY <2>3, <1>2 DEF Jobs
  <2>5. JobOK(job)
    BY <2>2, <2>4, <1>2 DEF JobOK, AsShown, Grounded
  <2>6. launched' = [launched EXCEPT ![j] = job]
    BY <1>5, <1>7
  <2> QED
    BY <2>4, <2>5, <2>6, <1>4, JobChanges, LauncherFacts
    DEF LauncherInv, LauncherTypeOK, Forms, FormIsParsed
<1> QED  BY <1>6, <1>7

LEMMA LauncherStutters == LauncherInv /\ UNCHANGED launcherVars => LauncherInv'
<1> SUFFICES ASSUME LauncherInv, UNCHANGED <<form, reads, launched>>  PROVE LauncherInv'
  BY DEF launcherVars
<1>1. form' \in Forms /\ FormIsParsed'
  BY LauncherFacts DEF FormIsParsed
<1> QED  BY <1>1, LauncherFacts, FormSteps

LEMMA LauncherKeeps == LauncherInv /\ [LauncherNext]_launcherVars => LauncherInv'
<1> SUFFICES ASSUME LauncherInv, LauncherNext  PROVE LauncherInv'
  BY LauncherStutters
<1> QED
  BY SettingsKeep, ChooseKeeps, SurveyReadKeeps, MarksReadKeeps, ClearKeeps, OnLaunchKeeps,
     AnsweredKeeps, ProcessKeeps
  DEF LauncherNext

\* A job is the one on the screen, and a correction that completes rests on three points
\* surveyed and seen, for any files and any engine (onLaunch, run_gcp_correction).
THEOREM LauncherGrounds == LauncherSpec => []CorrectionIsGrounded
<1>1. LauncherInv => CorrectionIsGrounded
  BY DEF LauncherInv, JobsAreShown, JobOK, CorrectionIsGrounded
<1> QED  BY <1>1, LauncherStarts, LauncherKeeps, PTL DEF LauncherSpec

-----------------------------------------------------------------------------
(* Live progress.                                                          *)

Subscriptions == {"none", "sent", "refused", "read", "joined"}
Connections == {"opening", "open", "dropped", "cut", "closed"}
Sockets ==
  [state : Connections, checked : BOOLEAN, sub : Subscriptions,
   snapshot : Statuses \cup {Nothing}, missed : BOOLEAN, down : Seq(Statuses)]

ProgressTypeOK ==
  /\ row \in Statuses \cup {"GONE"}
  /\ worker \in [at : 1 .. Over, owes : Statuses \cup {Nothing}]
  /\ channel \in Seq(Statuses)
  /\ link \in BOOLEAN
  /\ lost \subseteq Statuses
  /\ socket \in [Monitors -> Sockets]
  /\ shown \in [Monitors -> Statuses]

\* What a monitor has read and not joined with is a status.
SnapshotsAreRead == \A m \in Monitors : socket[m].sub = "read" => socket[m].snapshot \in Statuses

\* The verdict is the last thing a run writes, unless it fails after it.
VerdictEnds == row \in Verdicts => worker.at >= Finished

\* What a socket shows in the end of what was sent to it so far.
Sent(m) == IF socket[m].down = <<>> THEN shown[m] ELSE Last(socket[m].down)

\* It is owed, or last in the channel, or past it.
VerdictPasses ==
  row \in Verdicts \ lost =>
    \/ worker.owes = row
    \/ worker.owes = Nothing /\ channel # <<>> /\ Last(channel) = row
    \/ /\ worker.owes = Nothing /\ channel = <<>>
       /\ \A m \in Monitors : ~socket[m].missed =>
            /\ socket[m].sub = "joined" => Sent(m) = row
            /\ socket[m].sub = "read" => socket[m].snapshot = row

ProgressInv == ProgressTypeOK /\ SnapshotsAreRead /\ VerdictEnds /\ VerdictPasses

-----------------------------------------------------------------------------
(* The last element of a sequence.                                         *)

LEMMA LastOfOne ==
  ASSUME NEW S, NEW s \in Seq(S), s # <<>>
  PROVE  /\ Last(s) \in S /\ Last(s) \in ToSet(s) /\ Len(s) \in Nat /\ Len(s) > 0
         /\ Head(s) \in S /\ Tail(s) \in Seq(S)
BY DEF Last, ToSet

LEMMA LastOfAppend ==
  ASSUME NEW S, NEW s \in Seq(S), NEW x \in S
  PROVE  Append(s, x) \in Seq(S) /\ Append(s, x) # <<>> /\ Last(Append(s, x)) = x
BY DEF Last

LEMMA LastOfTail ==
  ASSUME NEW S, NEW s \in Seq(S), s # <<>>
  PROVE  /\ Tail(s) = <<>> => Last(s) = Head(s)
         /\ Tail(s) # <<>> => Last(Tail(s)) = Last(s)
<1> PICK n \in Nat : n = Len(s)
  OBVIOUS
<1>1. n > 0 /\ Last(s) = s[n] /\ Head(s) = s[1]
  BY DEF Last
<1>a. /\ Tail(s) \in Seq(S) /\ Len(Tail(s)) = Len(s) - 1
      /\ \A i \in 1 .. Len(Tail(s)) : Tail(s)[i] = s[i + 1]
  BY HeadTailProperties
<1> PICK t \in Seq(S) : t = Tail(s)
  BY <1>a
<1>2. t = Tail(s) /\ Len(t) = n - 1 /\ \A i \in 1 .. n - 1 : t[i] = s[i + 1]
  BY <1>a
<1>3. t = <<>> <=> Len(t) = 0
  BY EmptySeq
<1>4. CASE n = 1
  BY <1>1, <1>2, <1>3, <1>4
<1>5. CASE n # 1
  <2>1. n - 1 \in 1 .. n - 1 /\ (n - 1) + 1 = n /\ t # <<>>
    BY <1>1, <1>2, <1>3, <1>5
  <2>2. t[n - 1] = s[n] /\ Last(t) = t[n - 1]
    BY <2>1, <1>2 DEF Last
  <2> QED  BY <2>1, <2>2, <1>1, <1>2
<1> QED  BY <1>4, <1>5

LEMMA LastOfConcat ==
  ASSUME NEW S, NEW s \in Seq(S), NEW t \in Seq(S), t # <<>>
  PROVE  s \o t \in Seq(S) /\ Last(s \o t) = Last(t)
<1>1. s \o t \in Seq(S) /\ Len(s \o t) = Len(s) + Len(t)
  OBVIOUS
<1>2. Len(t) \in Nat /\ Len(t) > 0 /\ Len(s) \in Nat
  OBVIOUS
<1>3. (s \o t)[Len(s) + Len(t)] = t[Len(t)]
  BY <1>2
<1> QED  BY <1>1, <1>2, <1>3 DEF Last

\* What a monitor is due: what is owed, else the end of the channel, else of what
\* was sent.
LEMMA DueIs ==
  ASSUME ProgressTypeOK, NEW m \in Monitors
  PROVE  Due(m) = IF worker.owes # Nothing THEN worker.owes
                  ELSE IF channel # <<>> THEN Last(channel)
                  ELSE Sent(m)
<1>1. /\ shown[m] \in Statuses /\ socket[m].down \in Seq(Statuses) /\ channel \in Seq(Statuses)
      /\ worker.owes \in Statuses \cup {Nothing}
  BY DEF ProgressTypeOK, Sockets
<1> PICK down \in Seq(Statuses) : down = socket[m].down
  BY <1>1
<1> PICK owed : owed = IF worker.owes = Nothing THEN <<>> ELSE <<worker.owes>>
  OBVIOUS
<1>2. /\ owed \in Seq(Statuses) /\ <<shown[m]>> \in Seq(Statuses)
      /\ worker.owes # Nothing => owed # <<>> /\ Last(owed) = worker.owes
      /\ worker.owes = Nothing => owed = <<>>
      /\ Last(<<shown[m]>>) = shown[m]
  BY <1>1 DEF Last
<1>3. Due(m) = Last(<<shown[m]>> \o down \o channel \o owed)
  BY DEF Due
<1> PICK first \in Seq(Statuses) : first = <<shown[m]>>
  BY <1>2
<1>4. first \o down \in Seq(Statuses) /\ Last(first \o down) = Sent(m)
  <2>1. CASE down = <<>>
    <3>1. first \o down = first
      BY <2>1
    <3> QED  BY <2>1, <3>1, <1>2 DEF Sent
  <2>2. CASE down # <<>>
    <3>1. Last(first \o down) = Last(down) /\ first \o down \in Seq(Statuses)
      BY <2>2, LastOfConcat
    <3> QED  BY <2>2, <3>1 DEF Sent
  <2> QED  BY <2>1, <2>2
<1> PICK sent \in Seq(Statuses) : sent = first \o down
  BY <1>4
<1>5. /\ sent \o channel \in Seq(Statuses)
      /\ Last(sent \o channel) = IF channel # <<>> THEN Last(channel) ELSE Sent(m)
  <2>1. CASE channel = <<>>
    <3>1. sent \o channel = sent
      BY <2>1
    <3> QED  BY <2>1, <3>1, <1>4
  <2>2. CASE channel # <<>>
    <3>1. Last(sent \o channel) = Last(channel) /\ sent \o channel \in Seq(Statuses)
      BY <2>2, <1>1, LastOfConcat
    <3> QED  BY <2>2, <3>1
  <2> QED  BY <2>1, <2>2
<1> PICK all \in Seq(Statuses) : all = sent \o channel
  BY <1>5
<1>6. Last(all \o owed) = IF worker.owes # Nothing THEN worker.owes ELSE Last(all)
  <2>1. CASE worker.owes = Nothing
    <3>1. owed = <<>> /\ all \o owed = all
      BY <2>1, <1>2
    <3> QED  BY <2>1, <3>1
  <2>2. CASE worker.owes # Nothing
    <3>1. owed \in Seq(Statuses) /\ owed # <<>>
      BY <2>2, <1>2
    <3>2. Last(all \o owed) = Last(owed)
      BY <3>1, LastOfConcat
    <3> QED  BY <2>2, <1>2, <3>2
  <2> QED  BY <2>1, <2>2
<1> QED  BY <1>3, <1>5, <1>6

-----------------------------------------------------------------------------
(* The worker's steps and the other writers'.                              *)

LEMMA ScriptLines ==
  /\ Finished = 6 /\ Over = 7
  /\ \A i \in 1 .. 5 : /\ Script[i].status \in Statuses
                       /\ Script[i].status \in Verdicts => i = 5
                       /\ i = 5 => Script[i].tells /\ Script[i].writes

<1> DEFINE A == Line("INITIALIZING", TRUE, TRUE)
           B == Line("FEATURE_EXTRACTION", TRUE, FALSE)
           C == Line("ORTHOMOSAIC_GENERATION", TRUE, TRUE)
           D == Line("POST_PROCESSING", FALSE, TRUE)
           E == Line("COMPLETE", TRUE, TRUE)
<1>1. Script = <<A, B, C, D, E>>
  BY DEF Script
<1>2. /\ A.status = "INITIALIZING" /\ B.status = "FEATURE_EXTRACTION"
      /\ C.status = "ORTHOMOSAIC_GENERATION" /\ D.status = "POST_PROCESSING"
      /\ E.status = "COMPLETE" /\ E.tells = TRUE /\ E.writes = TRUE
  BY DEF Line
<1> HIDE DEF A, B, C, D, E
<1>3. /\ Len(Script) = 5 /\ Script[1] = A /\ Script[2] = B /\ Script[3] = C
      /\ Script[4] = D /\ Script[5] = E
  BY <1>1
<1>4. Finished = 6 /\ Over = 7
  BY <1>3 DEF Finished, Over
<1>5. ASSUME NEW i \in 1 .. 5
      PROVE  /\ Script[i].status \in Statuses
             /\ Script[i].status \in Verdicts => i = 5
             /\ i = 5 => Script[i].tells /\ Script[i].writes
  <2>1. i = 1 \/ i = 2 \/ i = 3 \/ i = 4 \/ i = 5
    OBVIOUS
  <2> QED  BY <2>1, <1>2, <1>3 DEF Statuses, Verdicts
<1> QED  BY <1>4, <1>5

LEMMA NothingIsNoStatus == Nothing \notin Statuses /\ "GONE" \notin Statuses
BY DEF Nothing, Statuses, Verdicts

LEMMA ProgressStarts == ProgressInit => ProgressInv
<1> SUFFICES ASSUME ProgressInit  PROVE ProgressInv
  OBVIOUS
<1>1. Opening \in Sockets /\ Opening.sub = "none"
  BY DEF Opening, Sockets, Connections, Subscriptions
<1>2. row \in Statuses /\ row \notin Verdicts
  BY DEF ProgressInit, Statuses, Verdicts
<1>3. worker \in [at : 1 .. Over, owes : Statuses \cup {Nothing}]
  BY ScriptLines DEF ProgressInit
<1>4. ProgressTypeOK
  BY <1>1, <1>2, <1>3 DEF ProgressInit, ProgressTypeOK
<1>5. SnapshotsAreRead
  BY <1>1 DEF SnapshotsAreRead, ProgressInit
<1> QED  BY <1>2, <1>4, <1>5 DEF ProgressInv, VerdictEnds, VerdictPasses

\* A step that touches no socket.
LEMMA SocketsStay ==
  ASSUME ProgressInv, UNCHANGED <<socket, shown>>
  PROVE  /\ SnapshotsAreRead'
         /\ \A m \in Monitors : Sent(m)' = Sent(m)
BY DEF ProgressInv, SnapshotsAreRead, Sent

LEMMA WriteKeeps ==
  ASSUME ProgressInv, Write
  PROVE  ProgressInv'
<1> PICK line : line = Script[worker.at]
  OBVIOUS
<1>0. worker.at \in 1 .. 7 /\ worker.owes = Nothing /\ row \in Statuses \cup {"GONE"}
  BY ScriptLines DEF Write, ProgressInv, ProgressTypeOK
<1>1. worker.at \in 1 .. 5 /\ ~(worker.at >= Finished)
  BY <1>0, ScriptLines DEF Write
<1>2. /\ line.status \in Statuses /\ (line.status \in Verdicts => worker.at = 5)
      /\ worker.at = 5 => line.tells /\ line.writes
  BY <1>1, ScriptLines
<1>3. /\ row' = IF line.writes /\ row # "GONE" THEN line.status ELSE row
      /\ worker' = [at |-> worker.at + 1, owes |-> IF line.tells THEN line.status ELSE Nothing]
      /\ UNCHANGED <<channel, link, lost, socket, shown>>
  BY DEF Write
<1> PICK told : told = IF line.tells THEN line.status ELSE Nothing
  OBVIOUS
<1>4. worker'.at = worker.at + 1 /\ worker'.owes = told /\ told \in Statuses \cup {Nothing}
  BY <1>2, <1>3
<1>5. worker' \in [at : 1 .. Over, owes : Statuses \cup {Nothing}]
  BY <1>1, <1>3, <1>4, ScriptLines
<1>6. ProgressTypeOK'
  BY <1>0, <1>2, <1>3, <1>5 DEF ProgressInv, ProgressTypeOK
<1>7. row \notin Verdicts
  BY <1>1 DEF ProgressInv, VerdictEnds
<1>8. row' \in Verdicts => worker.at = 5 /\ row' = line.status /\ told = line.status
  BY <1>2, <1>3, <1>7
<1>9. VerdictEnds' /\ VerdictPasses'
  BY <1>4, <1>8, ScriptLines DEF VerdictEnds, VerdictPasses
<1> QED  BY <1>3, <1>6, <1>9, SocketsStay DEF ProgressInv

LEMMA UntoldTypes == ProgressInv => Untold \subseteq Statuses
BY DEF ProgressInv, ProgressTypeOK, Untold

LEMMA WriteFailedKeeps ==
  ASSUME ProgressInv, WriteFailed
  PROVE  ProgressInv'
<1>1. /\ row' = IF row # "GONE" THEN "FAILED" ELSE row
      /\ worker' = [at |-> Over, owes |-> "FAILED"]
      /\ lost' = lost \cup Untold
      /\ UNCHANGED <<channel, link, socket, shown>>
  BY DEF WriteFailed
<1>2. "FAILED" \in Statuses /\ Over \in 1 .. Over
  BY ScriptLines DEF Statuses, Verdicts
<1>3. ProgressTypeOK'
  BY <1>1, <1>2, UntoldTypes DEF ProgressInv, ProgressTypeOK
<1>6. /\ worker'.at = Over /\ worker'.owes = "FAILED"
      /\ row' \in Verdicts => row' = "FAILED"
  BY <1>1 DEF Verdicts
<1>7. VerdictEnds' /\ VerdictPasses'
  BY <1>6, ScriptLines DEF VerdictEnds, VerdictPasses
<1> QED  BY <1>1, <1>3, <1>7, SocketsStay DEF ProgressInv

LEMMA PublishKeeps ==
  ASSUME ProgressInv, Publish
  PROVE  ProgressInv'
<1>0. /\ worker \in [at : 1 .. Over, owes : Statuses \cup {Nothing}]
      /\ channel \in Seq(Statuses) /\ worker.owes \in Statuses
  BY DEF Publish, ProgressInv, ProgressTypeOK
<1> PICK owed \in Statuses : owed = worker.owes
  BY <1>0
<1>1. /\ channel' = IF link THEN Append(channel, owed) ELSE channel
      /\ lost' = IF link THEN lost ELSE lost \cup {owed}
      /\ worker' = [worker EXCEPT !.owes = Nothing]
      /\ UNCHANGED <<row, link, socket, shown>>
  BY DEF Publish
<1>2. /\ Append(channel, owed) \in Seq(Statuses) /\ Append(channel, owed) # <<>>
      /\ Last(Append(channel, owed)) = owed
  BY <1>0, LastOfAppend
<1>3. /\ worker'.at = worker.at /\ worker'.owes = Nothing
      /\ worker' \in [at : 1 .. Over, owes : Statuses \cup {Nothing}]
  BY <1>0, <1>1
<1>4. ProgressTypeOK'
  BY <1>1, <1>2, <1>3 DEF ProgressInv, ProgressTypeOK
<1>5. VerdictEnds'
  BY <1>1, <1>3 DEF ProgressInv, VerdictEnds
<1>6. VerdictPasses'
  <2> SUFFICES ASSUME row' \in Verdicts \ lost'
               PROVE  channel' # <<>> /\ Last(channel') = row'
    BY <1>3 DEF VerdictPasses
  <2>1. row \in Verdicts \ lost /\ row' = row
    BY <1>1
  <2>2. owed = row
    BY <2>1, <1>0, NothingIsNoStatus DEF ProgressInv, VerdictPasses
  <2>3. link
    BY <2>2, <1>1
  <2> QED  BY <2>1, <2>2, <2>3, <1>1, <1>2
<1> QED  BY <1>1, <1>4, <1>5, <1>6, SocketsStay DEF ProgressInv

LEMMA RunEndsKeeps ==
  ASSUME ProgressInv, RunEnds
  PROVE  ProgressInv'
<1>0. /\ worker.owes \in Statuses \cup {Nothing} /\ Over \in 1 .. Over
      /\ row \in Statuses \cup {"GONE"}
  BY ScriptLines DEF ProgressInv, ProgressTypeOK
<1> PICK owed : owed = worker.owes
  OBVIOUS
<1>1. /\ lost' = IF owed # Nothing THEN lost \cup {owed} ELSE lost
      /\ worker' = [at |-> Over, owes |-> Nothing]
      /\ UNCHANGED <<row, channel, link, socket, shown>>
  BY DEF RunEnds, Untold
<1>2. worker'.at = Over /\ worker'.owes = Nothing
  BY <1>1
<1>3. ProgressTypeOK'
  BY <1>0, <1>1 DEF ProgressInv, ProgressTypeOK
<1>4. VerdictEnds'
  BY <1>2, ScriptLines DEF VerdictEnds
<1>5. \A m \in Monitors : Sent(m)' = Sent(m) /\ socket'[m] = socket[m]
  BY <1>1, SocketsStay
<1>6. VerdictPasses'
  <2> SUFFICES ASSUME row' \in Verdicts \ lost'
               PROVE  \/ channel # <<>> /\ Last(channel) = row
                      \/ /\ channel = <<>>
                         /\ \A m \in Monitors : ~socket[m].missed =>
                              /\ socket[m].sub = "joined" => Sent(m) = row
                              /\ socket[m].sub = "read" => socket[m].snapshot = row
    BY <1>1, <1>2, <1>5 DEF VerdictPasses
  <2>1. row \in Verdicts \ lost
    BY <1>1
  <2>2. worker.owes # row
    <3>1. row # Nothing
      BY <2>1 DEF Verdicts, Nothing
    <3> QED  BY <3>1, <1>1
  <2> QED  BY <2>1, <2>2 DEF ProgressInv, VerdictPasses
<1> QED  BY <1>1, <1>3, <1>4, <1>6, SocketsStay DEF ProgressInv

LEMMA OthersWriteKeeps ==
  ASSUME ProgressInv, Cancel \/ DeleteJob
  PROVE  ProgressInv'
<1>1. row' \in {"CANCELLED", "GONE"} /\ UNCHANGED <<worker, channel, link, lost, socket, shown>>
  BY DEF Cancel, DeleteJob
<1>2. row' \notin Verdicts /\ row' \in Statuses \cup {"GONE"}
  BY <1>1 DEF Verdicts, Statuses
<1>3. ProgressTypeOK'
  BY <1>1, <1>2 DEF ProgressInv, ProgressTypeOK
<1> QED  BY <1>1, <1>2, <1>3, SocketsStay DEF ProgressInv, VerdictEnds, VerdictPasses

LEMMA LinkKeeps ==
  ASSUME ProgressInv, LinkBreaks \/ LinkReturns
  PROVE  ProgressInv'
<1>1. UNCHANGED <<row, worker, socket, shown>> /\ link' \in BOOLEAN
  BY DEF LinkBreaks, LinkReturns
<1>0. channel \in Seq(Statuses)
  BY DEF ProgressInv, ProgressTypeOK
<1>2. \/ UNCHANGED <<channel, lost>>
      \/ channel' = <<>> /\ lost' = lost \cup ToSet(channel)
  BY DEF LinkBreaks, LinkReturns
<1>3. lost \subseteq lost' /\ lost' \subseteq Statuses /\ channel' \in Seq(Statuses)
  <2>1. ToSet(channel) \subseteq Statuses
    BY <1>0 DEF ToSet
  <2>2. lost \subseteq Statuses /\ <<>> \in Seq(Statuses)
    BY DEF ProgressInv, ProgressTypeOK
  <2>3. CASE UNCHANGED <<channel, lost>>
    BY <2>2, <2>3, <1>0
  <2>4. CASE channel' = <<>> /\ lost' = lost \cup ToSet(channel)
    BY <2>1, <2>2, <2>4
  <2> QED  BY <2>3, <2>4, <1>2
<1>4. ProgressTypeOK'
  BY <1>1, <1>3 DEF ProgressInv, ProgressTypeOK
<1>5. VerdictEnds'
  BY <1>1 DEF ProgressInv, VerdictEnds
<1>6. \A m \in Monitors : Sent(m)' = Sent(m) /\ socket'[m] = socket[m]
  BY <1>1, SocketsStay
<1>7. VerdictPasses'
  <2> SUFFICES ASSUME row' \in Verdicts \ lost'
               PROVE  \/ worker'.owes = row'
                      \/ worker'.owes = Nothing /\ channel' # <<>> /\ Last(channel') = row'
                      \/ /\ worker'.owes = Nothing /\ channel' = <<>>
                         /\ \A m \in Monitors : ~socket'[m].missed =>
                              /\ socket'[m].sub = "joined" => Sent(m)' = row'
                              /\ socket'[m].sub = "read" => socket'[m].snapshot = row'
    BY DEF VerdictPasses
  <2>1. row \in Verdicts \ lost
    BY <1>1, <1>3
  <2>2. channel # <<>> /\ Last(channel) = row => UNCHANGED channel
    BY <1>0, <1>1, <1>2, LastOfOne
  <2>3. channel = <<>> => channel' = <<>>
    BY <1>2
  <2> QED  BY <2>1, <2>2, <2>3, <1>1, <1>6 DEF ProgressInv, VerdictPasses
<1> QED  BY <1>1, <1>4, <1>5, <1>7, SocketsStay DEF ProgressInv

-----------------------------------------------------------------------------
(* The gateway's steps and the monitors'.                                  *)

\* What is to hold of a socket once the verdict is past the channel.
ToldOf(q, sent) ==
  ~q.missed => /\ q.sub = "joined" => sent = row
               /\ q.sub = "read" => q.snapshot = row

\* The step of one socket.
LEMMA OneSocket ==
  ASSUME ProgressInv, NEW m \in Monitors, NEW q \in Sockets, NEW v \in Statuses,
         socket' = [socket EXCEPT ![m] = q], shown' = [shown EXCEPT ![m] = v],
         UNCHANGED <<row, worker, channel, link, lost>>,
         q.sub = "read" => q.snapshot \in Statuses,
         ToldOf(socket[m], Sent(m)) \/ channel # <<>> \/ row \notin Verdicts \ lost
           => ToldOf(q, IF q.down = <<>> THEN v ELSE Last(q.down))
              \/ channel # <<>> \/ row \notin Verdicts \ lost
  PROVE  ProgressInv'
<1>1. /\ socket' \in [Monitors -> Sockets] /\ socket'[m] = q
      /\ \A n \in Monitors : n # m => socket'[n] = socket[n]
  BY DEF ProgressInv, ProgressTypeOK
<1>2. /\ shown' \in [Monitors -> Statuses] /\ shown'[m] = v
      /\ \A n \in Monitors : n # m => shown'[n] = shown[n]
  BY DEF ProgressInv, ProgressTypeOK
<1>3. ProgressTypeOK'
  BY <1>1, <1>2 DEF ProgressInv, ProgressTypeOK
<1>4. SnapshotsAreRead'
  BY <1>1 DEF ProgressInv, SnapshotsAreRead
<1>5. VerdictEnds'
  BY DEF ProgressInv, VerdictEnds
<1>6. /\ Sent(m)' = IF q.down = <<>> THEN v ELSE Last(q.down)
      /\ \A n \in Monitors : n # m => Sent(n)' = Sent(n)
  BY <1>1, <1>2 DEF Sent
<1>7. VerdictPasses'
  <2> SUFFICES ASSUME row \in Verdicts \ lost, worker.owes # row,
                      ~(worker.owes = Nothing /\ channel # <<>> /\ Last(channel) = row)
               PROVE  /\ worker.owes = Nothing /\ channel = <<>>
                      /\ \A n \in Monitors : ~socket'[n].missed =>
                            /\ socket'[n].sub = "joined" => Sent(n)' = row
                            /\ socket'[n].sub = "read" => socket'[n].snapshot = row
    BY DEF VerdictPasses
  <2>1. /\ worker.owes = Nothing /\ channel = <<>>
        /\ \A n \in Monitors : ToldOf(socket[n], Sent(n))
    BY DEF ProgressInv, VerdictPasses, ToldOf
  <2>2. ToldOf(q, Sent(m)')
    BY <2>1, <1>6
  <2>3. ASSUME NEW n \in Monitors, ~socket'[n].missed
        PROVE  /\ socket'[n].sub = "joined" => Sent(n)' = row
               /\ socket'[n].sub = "read" => socket'[n].snapshot = row
    <3>1. CASE n = m
      BY <3>1, <2>2, <2>3, <1>1 DEF ToldOf
    <3>2. CASE n # m
      BY <3>2, <2>1, <2>3, <1>1, <1>6 DEF ToldOf
    <3> QED  BY <3>1, <3>2
  <2> QED  BY <2>1, <2>3
<1> QED  BY <1>3, <1>4, <1>5, <1>7 DEF ProgressInv

LEMMA SocketIs ==
  ASSUME ProgressInv, NEW m \in Monitors
  PROVE  /\ socket[m] \in Sockets /\ shown[m] \in Statuses
         /\ socket[m].down \in Seq(Statuses)
         /\ shown = [shown EXCEPT ![m] = shown[m]]
         /\ socket[m].sub = "read" => socket[m].snapshot \in Statuses
BY DEF ProgressInv, ProgressTypeOK, SnapshotsAreRead, Sockets

\* A connection that starts, ends or is cut begins with nothing.
LEMMA OpeningSocket ==
  /\ Opening \in Sockets /\ Opening.sub = "none"
  /\ \A state \in Connections :
       LET q == [Opening EXCEPT !.state = state] IN q \in Sockets /\ q.sub = "none"
  /\ LET q == [Opening EXCEPT !.state = "open", !.sub = "sent"] IN q \in Sockets /\ q.sub = "sent"
<1>1. PICK o : o = Opening
  OBVIOUS
<1>2. o \in Sockets /\ o.sub = "none"
  BY <1>1 DEF Opening, Sockets, Connections, Subscriptions
<1>3. ASSUME NEW state \in Connections
      PROVE  [o EXCEPT !.state = state] \in Sockets /\ [o EXCEPT !.state = state].sub = "none"
  BY <1>2 DEF Sockets
<1>4. PICK q : q = [o EXCEPT !.state = "open", !.sub = "sent"]
  OBVIOUS
<1>5. q \in Sockets /\ q.sub = "sent"
  BY <1>2, <1>4 DEF Sockets, Connections, Subscriptions
<1> QED  BY <1>1, <1>2, <1>3, <1>4, <1>5

LEMMA ReconnectKeeps ==
  ASSUME ProgressInv, NEW m \in Monitors, NEW q \in Sockets, q.sub \in {"none", "sent"},
         NEW v \in Statuses,
         socket' = [socket EXCEPT ![m] = q], shown' = [shown EXCEPT ![m] = v],
         UNCHANGED <<row, worker, channel, link, lost>>
  PROVE  ProgressInv'
<1>1. ToldOf(q, IF q.down = <<>> THEN v ELSE Last(q.down))
  BY DEF ToldOf
<1>2. q.sub = "read" => q.snapshot \in Statuses
  OBVIOUS
<1> QED  BY <1>1, <1>2, OneSocket

LEMMA ConnectionKeeps ==
  ASSUME ProgressInv, NEW m \in Monitors,
         HandshakeFails(m) \/ Load(m) \/ Connect(m) \/ GiveUp(m) \/ Drop(m)
  PROVE  ProgressInv'
<1>1. shown[m] \in Statuses /\ shown = [shown EXCEPT ![m] = shown[m]]
  BY SocketIs
<1>3. ASSUME HandshakeFails(m) \/ GiveUp(m) \/ Drop(m)  PROVE ProgressInv'
  <2>1. PICK q \in Sockets : q.sub = "none" /\ socket' = [socket EXCEPT ![m] = q]
    <3>1. \E s \in Connections : socket' = [socket EXCEPT ![m] = [Opening EXCEPT !.state = s]]
      BY <1>3 DEF HandshakeFails, GiveUp, Drop, Connections
    <3> QED  BY <3>1, OpeningSocket
  <2>2. UNCHANGED <<row, worker, channel, link, lost, shown>>
    BY <1>3 DEF HandshakeFails, GiveUp, Drop
  <2> QED  BY <2>1, <2>2, <1>1, ReconnectKeeps
<1>4. ASSUME Load(m)  PROVE ProgressInv'
  <2>1. row \in Statuses
    BY <1>4 DEF Load, ProgressInv, ProgressTypeOK
  <2> QED  BY <2>1, <1>4, OpeningSocket, ReconnectKeeps DEF Load
<1>5. ASSUME Connect(m)  PROVE ProgressInv'
  <2>1. PICK q \in Sockets : q.sub = "sent" /\ socket' = [socket EXCEPT ![m] = q]
    BY <1>5, OpeningSocket DEF Connect
  <2>2. UNCHANGED <<row, worker, channel, link, lost, shown>>
    BY <1>5 DEF Connect
  <2> QED  BY <2>1, <2>2, <1>1, ReconnectKeeps
<1> QED  BY <1>3, <1>4, <1>5

LEMMA HandshakePassesKeeps ==
  ASSUME ProgressInv, NEW m \in Monitors, HandshakePasses(m)
  PROVE  ProgressInv'
<1>1. /\ socket[m] \in Sockets /\ shown[m] \in Statuses
      /\ shown = [shown EXCEPT ![m] = shown[m]]
      /\ socket[m].sub = "read" => socket[m].snapshot \in Statuses
      /\ socket[m].down \in Seq(Statuses)
  BY SocketIs
<1> PICK q : q = [socket[m] EXCEPT !.checked = TRUE]
  OBVIOUS
<1>2. /\ q \in Sockets /\ q.sub = socket[m].sub /\ q.snapshot = socket[m].snapshot
      /\ q.missed = socket[m].missed /\ q.down = socket[m].down
  BY <1>1 DEF Sockets
<1>3. socket' = [socket EXCEPT ![m] = q] /\ UNCHANGED <<row, worker, channel, link, lost, shown>>
  <2>1. socket' = [socket EXCEPT ![m].checked = TRUE]
    BY DEF HandshakePasses
  <2> QED  BY <2>1 DEF HandshakePasses
<1>4. ToldOf(socket[m], Sent(m)) => ToldOf(q, IF q.down = <<>> THEN shown[m] ELSE Last(q.down))
  BY <1>2 DEF ToldOf, Sent
<1> QED  BY <1>1, <1>2, <1>3, <1>4, OneSocket

LEMMA SubscribeKeeps ==
  ASSUME ProgressInv, NEW m \in Monitors, Subscribe(m)
  PROVE  ProgressInv'
<1>1. /\ socket[m] \in Sockets /\ shown[m] \in Statuses /\ row \in Statuses \cup {"GONE"}
      /\ shown = [shown EXCEPT ![m] = shown[m]]
  BY SocketIs DEF ProgressInv, ProgressTypeOK
<1>2. CASE ~socket[m].checked
  <2>1. PICK q \in Sockets : q.sub = "none" /\ socket' = [socket EXCEPT ![m] = q]
    BY <1>2, OpeningSocket DEF Subscribe, Connections
  <2>2. UNCHANGED <<row, worker, channel, link, lost, shown>>
    BY DEF Subscribe
  <2> QED  BY <2>1, <2>2, <1>1, ReconnectKeeps
<1>3. CASE socket[m].checked /\ row = "GONE"
  <2> PICK q : q = [socket[m] EXCEPT !.sub = "refused"]
    OBVIOUS
  <2>1. q \in Sockets /\ q.sub = "refused"
    BY <1>1 DEF Sockets, Subscriptions
  <2>2. socket' = [socket EXCEPT ![m] = q] /\ UNCHANGED <<row, worker, channel, link, lost, shown>>
    BY <1>3 DEF Subscribe
  <2>3. ToldOf(q, IF q.down = <<>> THEN shown[m] ELSE Last(q.down))
    BY <2>1 DEF ToldOf
  <2>4. q.sub # "read"
    BY <2>1
  <2> QED  BY <1>1, <2>1, <2>2, <2>3, <2>4, OneSocket
<1>4. CASE socket[m].checked /\ row # "GONE"
  <2> PICK q : q = [socket[m] EXCEPT !.sub = "read", !.snapshot = row]
    OBVIOUS
  <2>1. q \in Sockets /\ q.sub = "read" /\ q.snapshot = row /\ row \in Statuses
    BY <1>1, <1>4 DEF Sockets, Subscriptions
  <2>2. socket' = [socket EXCEPT ![m] = q] /\ UNCHANGED <<row, worker, channel, link, lost, shown>>
    BY <1>4 DEF Subscribe
  <2>3. ToldOf(q, IF q.down = <<>> THEN shown[m] ELSE Last(q.down))
    BY <2>1 DEF ToldOf
  <2> QED  BY <1>1, <2>1, <2>2, <2>3, OneSocket
<1> QED  BY <1>2, <1>3, <1>4

LEMMA JoinKeeps ==
  ASSUME ProgressInv, NEW m \in Monitors, Join(m)
  PROVE  ProgressInv'
<1>1. /\ socket[m] \in Sockets /\ shown[m] \in Statuses /\ socket[m].down \in Seq(Statuses)
      /\ shown = [shown EXCEPT ![m] = shown[m]]
      /\ socket[m].sub = "read" /\ socket[m].snapshot \in Statuses
  BY SocketIs DEF Join
<1> PICK read \in Statuses : read = socket[m].snapshot
  BY <1>1
<1> PICK down : down = Append(socket[m].down, read)
  OBVIOUS
<1>2. down \in Seq(Statuses) /\ down # <<>> /\ Last(down) = read
  BY <1>1, LastOfAppend
<1> PICK q : q = [socket[m] EXCEPT !.sub = "joined", !.snapshot = Nothing, !.down = down]
  OBVIOUS
<1>3. q \in Sockets /\ q.sub = "joined" /\ q.missed = socket[m].missed /\ q.down = down
  BY <1>1, <1>2 DEF Sockets, Subscriptions
<1>4. socket' = [socket EXCEPT ![m] = q] /\ UNCHANGED <<row, worker, channel, link, lost, shown>>
  BY DEF Join
<1>5. ToldOf(socket[m], Sent(m)) => ToldOf(q, IF q.down = <<>> THEN shown[m] ELSE Last(q.down))
  BY <1>1, <1>2, <1>3 DEF ToldOf
<1>6. q.sub # "read"
  BY <1>3
<1> QED  BY <1>1, <1>3, <1>4, <1>5, <1>6, OneSocket

LEMMA ReceiveKeeps ==
  ASSUME ProgressInv, NEW m \in Monitors, Receive(m)
  PROVE  ProgressInv'
<1>1. /\ socket[m] \in Sockets /\ socket[m].down \in Seq(Statuses)
      /\ socket[m].sub = "read" => socket[m].snapshot \in Statuses
  BY SocketIs
<1> PICK down \in Seq(Statuses) : down = socket[m].down
  BY <1>1
<1>2. down # <<>> /\ Head(down) \in Statuses /\ Tail(down) \in Seq(Statuses)
  BY LastOfOne DEF Receive
<1> PICK head \in Statuses : head = Head(down)
  BY <1>2
<1> PICK tail \in Seq(Statuses) : tail = Tail(down)
  BY <1>2
<1> PICK q : q = [socket[m] EXCEPT !.down = tail]
  OBVIOUS
<1>3. /\ q \in Sockets /\ q.sub = socket[m].sub /\ q.snapshot = socket[m].snapshot
      /\ q.missed = socket[m].missed /\ q.down = tail
  BY <1>1 DEF Sockets
<1>4. /\ socket' = [socket EXCEPT ![m] = q] /\ shown' = [shown EXCEPT ![m] = head]
      /\ UNCHANGED <<row, worker, channel, link, lost>>
  <2>1. socket' = [socket EXCEPT ![m].down = tail]
    BY DEF Receive
  <2> QED  BY <2>1 DEF Receive
<1>5. Sent(m) = IF tail = <<>> THEN head ELSE Last(tail)
  <2>1. Sent(m) = Last(down)
    BY <1>2 DEF Sent
  <2> QED  BY <2>1, <1>2, LastOfTail
<1>6. ToldOf(socket[m], Sent(m)) => ToldOf(q, IF q.down = <<>> THEN head ELSE Last(q.down))
  BY <1>3, <1>5 DEF ToldOf
<1> QED  BY <1>1, <1>3, <1>4, <1>6, OneSocket

\* A message goes to every socket in the room; who is about to join misses it.
LEMMA RelayKeeps ==
  ASSUME ProgressInv, Relay
  PROVE  ProgressInv'
<1>0. channel \in Seq(Statuses) /\ channel # <<>>
  BY DEF Relay, ProgressInv, ProgressTypeOK
<1>a. Head(channel) \in Statuses /\ Tail(channel) \in Seq(Statuses)
  BY <1>0, LastOfOne
<1> PICK head \in Statuses : head = Head(channel)
  BY <1>a
<1>b. /\ channel' = Tail(channel) /\ UNCHANGED <<row, worker, link, lost, shown>>
      /\ Tail(channel) = <<>> => Last(channel) = head
      /\ Tail(channel) # <<>> => Last(Tail(channel)) = Last(channel)
  BY <1>0, LastOfTail DEF Relay
<1>1. ASSUME NEW m \in Monitors
      PROVE  /\ socket'[m] \in Sockets
             /\ socket'[m].sub = socket[m].sub /\ socket'[m].snapshot = socket[m].snapshot
             /\ socket[m].sub = "joined" => socket'[m].down # <<>> /\ Last(socket'[m].down) = head
             /\ socket[m].sub = "read" => socket'[m].missed
  <2>1. socket[m] \in Sockets /\ socket[m].down \in Seq(Statuses)
    BY SocketIs
  <2> PICK down : down = Append(socket[m].down, head)
    OBVIOUS
  <2>2. down \in Seq(Statuses) /\ down # <<>> /\ Last(down) = head
    BY <2>1, LastOfAppend
  <2>3. socket'[m] = CASE socket[m].sub = "joined" -> [socket[m] EXCEPT !.down = down]
                       [] socket[m].sub = "read" -> [socket[m] EXCEPT !.missed = TRUE]
                       [] OTHER -> socket[m]
    BY DEF Relay
  <2>4. CASE socket[m].sub = "joined"
    <3>1. socket'[m] = [socket[m] EXCEPT !.down = down]
      BY <2>3, <2>4
    <3> QED  BY <3>1, <2>1, <2>2, <2>4 DEF Sockets
  <2>5. CASE socket[m].sub = "read"
    <3>1. socket'[m] = [socket[m] EXCEPT !.missed = TRUE]
      BY <2>3, <2>5
    <3> QED  BY <3>1, <2>1, <2>5 DEF Sockets
  <2>6. CASE socket[m].sub # "joined" /\ socket[m].sub # "read"
    <3>1. socket'[m] = socket[m]
      BY <2>3, <2>6
    <3> QED  BY <3>1, <2>1, <2>6
  <2> QED  BY <2>4, <2>5, <2>6
<1>2. socket' \in [Monitors -> Sockets]
  <2>1. socket' = [m \in Monitors |-> socket'[m]]
    BY DEF Relay
  <2> QED  BY <1>1, <2>1
<1>3. ProgressTypeOK'
  BY <1>2, <1>a, <1>b DEF ProgressInv, ProgressTypeOK
<1>4. SnapshotsAreRead' /\ VerdictEnds'
  BY <1>1, <1>b DEF ProgressInv, SnapshotsAreRead, VerdictEnds
<1>5. VerdictPasses'
  <2> SUFFICES ASSUME row \in Verdicts \ lost, worker.owes # row
               PROVE  \/ worker.owes = Nothing /\ channel' # <<>> /\ Last(channel') = row
                      \/ /\ worker.owes = Nothing /\ channel' = <<>>
                         /\ \A n \in Monitors : ~socket'[n].missed =>
                              /\ socket'[n].sub = "joined" => Sent(n)' = row
                              /\ socket'[n].sub = "read" => socket'[n].snapshot = row
    BY <1>b DEF VerdictPasses
  <2>1. worker.owes = Nothing /\ Last(channel) = row
    BY <1>0 DEF ProgressInv, VerdictPasses
  <2>2. CASE Tail(channel) = <<>>
    <3>1. head = row
      BY <2>1, <2>2, <1>b
    <3>2. ASSUME NEW n \in Monitors, ~socket'[n].missed
          PROVE  /\ socket'[n].sub = "joined" => Sent(n)' = row
                 /\ socket'[n].sub = "read" => socket'[n].snapshot = row
      <4>1. socket'[n].sub # "read"
        BY <3>2, <1>1
      <4>2. socket'[n].sub = "joined" => Sent(n)' = row
        BY <3>1, <1>1 DEF Sent
      <4> QED  BY <4>1, <4>2
    <3> QED  BY <2>1, <2>2, <3>2, <1>b
  <2>3. CASE Tail(channel) # <<>>
    BY <2>1, <2>3, <1>b
  <2> QED  BY <2>2, <2>3
<1> QED  BY <1>3, <1>4, <1>5 DEF ProgressInv

LEMMA ProgressStutters == ProgressInv /\ UNCHANGED progressVars => ProgressInv'
BY DEF ProgressInv, progressVars, ProgressTypeOK, SnapshotsAreRead, VerdictEnds,
   VerdictPasses, Sent

LEMMA ProgressKeeps == ProgressInv /\ [ProgressNext]_progressVars => ProgressInv'
<1> SUFFICES ASSUME ProgressInv, ProgressNext  PROVE ProgressInv'
  BY ProgressStutters
<1>1. ASSUME Write \/ WriteFailed \/ Publish \/ RunEnds \/ Cancel \/ DeleteJob
      PROVE  ProgressInv'
  BY <1>1, WriteKeeps, WriteFailedKeeps, PublishKeeps, RunEndsKeeps, OthersWriteKeeps
<1>2. ASSUME LinkBreaks \/ LinkReturns \/ Relay
      PROVE  ProgressInv'
  BY <1>2, LinkKeeps, RelayKeeps
<1>3. ASSUME NEW m \in Monitors,
             \/ Gateway(m) \/ HandshakeFails(m)
             \/ Load(m) \/ Connect(m) \/ GiveUp(m) \/ Drop(m) \/ Receive(m)
      PROVE  ProgressInv'
  BY <1>3, HandshakePassesKeeps, SubscribeKeeps, JoinKeeps, ConnectionKeeps,
     ReceiveKeeps DEF Gateway
<1> QED  BY <1>1, <1>2, <1>3 DEF ProgressNext

\* A joined monitor that missed nothing is due the worker's verdict, for any number of
\* monitors (onSubscribe, afterInit, the worker's publish).
THEOREM ProgressVerdict == ProgressSpec => []VerdictIsDue
<1>1. ProgressInv => VerdictIsDue
  <2> SUFFICES ASSUME ProgressInv, NEW m \in Monitors, row \in Verdicts \ lost,
                      socket[m].sub = "joined", ~socket[m].missed
               PROVE  Due(m) = row
    BY DEF VerdictIsDue
  <2>1. Due(m) = IF worker.owes # Nothing THEN worker.owes
                 ELSE IF channel # <<>> THEN Last(channel) ELSE Sent(m)
    BY DueIs DEF ProgressInv
  <2>2. row # Nothing
    BY DEF Verdicts, Nothing
  <2> QED  BY <2>1, <2>2 DEF ProgressInv, VerdictPasses
<1> QED  BY <1>1, ProgressStarts, ProgressKeeps, PTL DEF ProgressSpec

-----------------------------------------------------------------------------
(* The pages.  The invariant says how rows hang together (what is above a  *)
(* row is there with it, and a deletion that takes an output takes its     *)
(* job), and what a page under way may rely on: the row it is about is     *)
(* there while kept, and a job's page reads the job before the rest.       *)

Lineage ==
  /\ Tenant \in there /\ above[Tenant] = {Tenant}
  /\ \A i \in Rows : Known(i) => i \in above[i]
  /\ \A i \in Rows : \A a \in above[i] : above[a] \subseteq above[i] /\ Known(a)
  /\ \A i \in there : Known(i) /\ above[i] \subseteq there

JobsAbove ==
  /\ \A i \in Rows \ (Ids["job"] \cup Ids["output"]) : above[i] \cap Ids["job"] = {}
  /\ \A j \in Ids["job"] : above[j] \cap Ids["job"] \subseteq {j}
  /\ \A o \in Ids["output"] : \A j \in above[o] \cap Ids["job"] :
       above[o] \subseteq above[j] \cup {o}

ViewsKnow ==
  /\ \A i \in addresses : Known(i)
  /\ \A v \in Views : Known(view[v].id) /\ (kept[v] => view[v].id \in there)
  /\ \A v \in Views : view[v].id \in Ids[About[view[v].page]]
  /\ \A v \in Views : \A i \in {draft[v].under} : Known(i)
  /\ \A v \in Views : \A a \in view[v].got : \A i \in a.rows : Known(i)

\* What a page cannot do without is the row it is about; a list holds rows of one kind.
NeedsOnly(r, id) == r.needs /\ ~r.caught => r.by = id
ReadsAbout ==
  \A v \in Views :
    /\ \A r \in view[v].asked : NeedsOnly(r, view[v].id)
    /\ \A a \in view[v].got : a.rows \subseteq Ids[a.read.of]

\* What a form is about to make goes under a row of the right kind.
FormFits(f) ==
  /\ f.at \in {"made", "project"} => f.under \in Ids["workspace"]
  /\ f.at = "mission" => f.under \in Ids["project"]
FormsFit == \A v \in Views : FormFits(draft[v])

\* A job's page has asked for the job alone, or for the rest after it.
JobFirst(v) ==
  \/ view[v].asked = {RowOf("job", view[v].id)} /\ view[v].got = {}
  \/ view[v].asked \subseteq JobPage(view[v].id).then

JobPages ==
  \A v \in Views : view[v].page = "job" =>
    /\ JobFirst(v)
    /\ kept[v] => view[v].owed \subseteq OutputsOf(view[v].id)
    /\ kept[v] => \A a \in view[v].got :
                    AnswerIsWhole(a, view[v].owed)

PagesInv ==
  /\ PagesTypeOK
  /\ Lineage
  /\ JobsAbove
  /\ ViewsKnow
  /\ ReadsAbout
  /\ FormsFit
  /\ JobPages
  /\ MissingIsDeleted
  /\ FormsUseWhatTheyMake
 

\* What is assumed of the ids, in the form the proofs use.
LEMMA IdsFacts ==
  /\ Tenant \in Rows /\ Ids["organisation"] = {Tenant}
  /\ \A k \in Kinds : Ids[k] \subseteq Rows
  /\ \A k, l \in Kinds : k # l => Ids[k] \cap Ids[l] = {}
  /\ \A p \in DOMAIN About : About[p] \in Kinds
  /\ \A k \in DOMAIN Holder : k \in Kinds /\ Holder[k] \in Kinds /\ k # "organisation"
  /\ \A k \in {"organisation", "workspace", "project", "mission", "image", "job", "output"} :
       k \in Kinds
BY PagesAssumption DEF Rows, Kinds, Holder, About

\* Only outputs are held by a job, and nothing is held by an output.
LEMMA HolderFacts ==
  /\ \A k \in DOMAIN Holder : Holder[k] # "output" /\ (Holder[k] = "job" => k = "output")
  /\ Holder["output"] = "job" /\ Holder["job"] = "mission"
BY DEF Holder

\* What an insertion leaves as it was.
Grows ==
  /\ there \subseteq there' /\ there' \subseteq Rows
  /\ above' \in [Rows -> SUBSET Rows]
  /\ \A n \in Rows : Known(n) => above'[n] = above[n]

\* An insertion adds to the rows and keeps how they hang together.
LEMMA InsertRows ==
  ASSUME PagesInv, NEW k \in DOMAIN Holder, NEW i \in Ids[k],
         NEW holder \in Ids[Holder[k]], Insert(i, holder)
  PROVE  Grows /\ Lineage' /\ JobsAbove'
<1> USE IdsFacts DEF PagesInv, PagesTypeOK
<1>1. /\ i \in Rows /\ holder \in Rows /\ i \notin there /\ holder \in there
      /\ there' = there \cup {i}
      /\ above' = [above EXCEPT ![i] = above[holder] \cup {i}]
      /\ above[i] = {} \/ above[i] = above[holder] \cup {i}
  BY DEF Insert
<1>2. /\ Known(holder) /\ holder \in above[holder] /\ above[holder] \subseteq there
      /\ i # holder /\ i \notin above[holder]
  BY <1>1 DEF Lineage
<1>3. Grows
  BY <1>1 DEF Grows, Known
<1>4. /\ above'[i] = above[holder] \cup {i}
      /\ \A n \in Rows \ {i} : above'[n] = above[n]
  BY <1>1
<1>5. \A n \in Rows : i \in above[n] => Known(i)
  BY DEF Lineage
<1>6. Lineage'
  <2>1. /\ Tenant \in there' /\ above'[Tenant] = {Tenant}
        /\ \A n \in Rows : Known(n)' => n \in above'[n]
    BY <1>1, <1>4 DEF Lineage, Known
  <2>2. ASSUME NEW n \in Rows, NEW a \in above'[n]
        PROVE  above'[a] \subseteq above'[n] /\ Known(a)'
    <3>1. a \in Rows
      BY <1>3 DEF Grows
    <3>2. CASE n = i /\ a = i
      BY <3>2, <1>4 DEF Known
    <3>3. CASE n = i /\ a # i
      <4>1. a \in above[holder]
        BY <3>3, <1>4
      <4>2. above[a] \subseteq above[holder] /\ Known(a)
        BY <4>1, <1>1 DEF Lineage
      <4> QED BY <4>2, <3>1, <3>3, <1>4 DEF Known
    <3>4. CASE n # i
      <4>1. a \in above[n] /\ above[a] \subseteq above[n] /\ Known(a)
        BY <3>4, <1>4 DEF Lineage
      <4>2. above'[a] = above[a]
        BY <4>1, <1>3, <3>1 DEF Grows
      <4> QED BY <4>1, <4>2, <3>4, <1>4 DEF Known
    <3> QED BY <3>2, <3>3, <3>4
  <2>3. \A n \in there' : Known(n)' /\ above'[n] \subseteq there'
    <3>1. Known(i)' /\ above'[i] \subseteq there'
      BY <1>1, <1>2, <1>4 DEF Known
    <3>2. ASSUME NEW n \in there, n # i PROVE Known(n)' /\ above'[n] \subseteq there'
      BY <3>2, <1>1, <1>4 DEF Lineage, Known
    <3> QED BY <3>1, <3>2, <1>1
  <2> QED BY <2>1, <2>2, <2>3 DEF Lineage
<1>7. JobsAbove'
  <2> USE HolderFacts
  <2>1. CASE k = "job"
    <3>1. above[holder] \cap Ids["job"] = {}
      BY <2>1, <1>1 DEF JobsAbove
    <3>2. above'[i] \cap Ids["job"] \subseteq {i}
      BY <3>1, <1>4
    <3>4. \A o \in Ids["output"] : \A j \in above'[o] \cap Ids["job"] :
            above'[o] \subseteq above'[j] \cup {o}
      <4> SUFFICES ASSUME NEW o \in Ids["output"], NEW j \in above'[o] \cap Ids["job"]
                   PROVE  above'[o] \subseteq above'[j] \cup {o}
        OBVIOUS
      <4>1. o # i /\ o \in Rows /\ j \in Rows
        BY <2>1
      <4>2. j \in above[o] /\ above[o] \subseteq above[j] \cup {o} /\ Known(j)
        BY <4>1, <1>4 DEF JobsAbove, Lineage
      <4>3. above'[j] = above[j]
        BY <4>1, <4>2, <1>3 DEF Grows
      <4> QED BY <4>1, <4>2, <4>3, <1>4
    <3> QED BY <3>2, <3>4, <2>1, <1>4 DEF JobsAbove
  <2>2. CASE k = "output"
    <3>1. above[holder] \cap Ids["job"] \subseteq {holder} /\ holder \in Ids["job"]
      BY <2>2, <1>1 DEF JobsAbove
    <3>2. \A o \in Ids["output"] : \A j \in above'[o] \cap Ids["job"] :
            above'[o] \subseteq above'[j] \cup {o}
      <4> SUFFICES ASSUME NEW o \in Ids["output"], NEW j \in above'[o] \cap Ids["job"]
                   PROVE  above'[o] \subseteq above'[j] \cup {o}
        OBVIOUS
      <4>1. o \in Rows /\ j \in Rows /\ j # i
        BY <2>2
      <4>2. CASE o = i
        <5>1. j = holder
          BY <4>1, <4>2, <3>1, <1>4
        <5> QED BY <5>1, <4>2, <1>1, <1>2, <1>4
      <4>3. CASE o # i
        BY <4>1, <4>3, <1>4 DEF JobsAbove
      <4> QED BY <4>2, <4>3
    <3>3. \A n \in Rows : n \in Ids["job"] \/ n \notin Ids["job"] \cup Ids["output"] => n # i
      BY <2>2
    <3>4. Ids["job"] \subseteq Rows
      OBVIOUS
    <3>5. \A j \in Ids["job"] : above'[j] = above[j]
      BY <3>3, <3>4, <1>4
    <3>6. \A n \in Rows \ (Ids["job"] \cup Ids["output"]) : above'[n] = above[n]
      BY <3>3, <1>4
    <3> QED BY <3>2, <3>5, <3>6 DEF JobsAbove
  <2>3. CASE k \notin {"job", "output"}
    <3>1. i \notin Ids["job"] \cup Ids["output"]
      BY <2>3, <1>1
    <3>2. holder \notin Ids["job"] \cup Ids["output"]
      BY <2>3, <1>1
    <3>3. above'[i] \cap Ids["job"] = {}
      BY <3>1, <3>2, <1>1, <1>4 DEF JobsAbove
    <3>4. \A j \in Ids["job"] \cup Ids["output"] : j \in Rows \ {i}
      BY <3>1
    <3> QED BY <3>1, <3>3, <3>4, <1>4 DEF JobsAbove
  <2> QED BY <2>1, <2>2, <2>3
<1> QED BY <1>3, <1>6, <1>7

\* Job pages look at rows that an insertion leaves as they were.
LEMMA GrownPages ==
  ASSUME PagesInv, Grows, complete' = complete, view' = view, kept' = kept,
         addresses' \subseteq addresses
  PROVE  /\ JobPages' /\ MissingIsDeleted'
         /\ \A i \in addresses' : Known(i)'
         /\ \A v \in Views :
              /\ Known(view[v].id)' /\ (kept'[v] => view'[v].id \in there')
              /\ view'[v].id \in Ids[About[view'[v].page]]
              /\ \A a \in view'[v].got : \A i \in a.rows : Known(i)'
<1> USE IdsFacts DEF PagesInv, PagesTypeOK
<1>1. \A n \in Rows : Known(n) => Known(n)' /\ above'[n] = above[n]
  BY DEF Grows, Known
<1>2. \A j : OutputsOf(j) \subseteq OutputsOf(j)'
  BY <1>1 DEF OutputsOf, Grows, Lineage
<1>4. ASSUME NEW v \in Views
      PROVE  /\ view[v].id \in Rows /\ Known(view[v].id) /\ Known(view[v].id)'
             /\ above'[view[v].id] = above[view[v].id]
  BY <1>1 DEF ViewsKnow, PageRecords
<1>5. \A v \in Views : JobFirst(v) => JobFirst(v)'
  BY <1>4 DEF JobFirst, JobPage
<1>6. JobPages'
  <2> SUFFICES ASSUME NEW v \in Views, view[v].page = "job"
               PROVE  /\ JobFirst(v)'
                      /\ kept[v] => view[v].owed \subseteq OutputsOf(view[v].id)'
                      /\ kept[v] => \A a \in view[v].got : AnswerIsWhole(a, view[v].owed)
    BY DEF JobPages, AnswerIsWhole
  <2> QED BY <1>2, <1>5 DEF JobPages
<1>7. MissingIsDeleted'
  BY <1>4 DEF MissingIsDeleted
<1>8. \A i \in addresses' : Known(i)'
  BY <1>1 DEF ViewsKnow
<1>9. ASSUME NEW v \in Views
      PROVE  /\ Known(view[v].id)' /\ (kept[v] => view[v].id \in there')
             /\ view[v].id \in Ids[About[view[v].page]]
             /\ \A a \in view[v].got : \A i \in a.rows : Known(i)'
  <2>1. \A a \in view[v].got : a.rows \subseteq Rows
    BY DEF PageRecords
  <2> QED BY <1>1, <1>4, <2>1 DEF ViewsKnow, Grows
<1>10. \A v \in Views :
         /\ Known(view[v].id)' /\ (kept'[v] => view'[v].id \in there')
         /\ view'[v].id \in Ids[About[view'[v].page]]
         /\ \A a \in view'[v].got : \A i \in a.rows : Known(i)'
  BY <1>9
<1> QED BY <1>6, <1>7, <1>8, <1>10

\* A deletion that takes an output takes the job it belongs to.
LEMMA RemovedRows ==
  ASSUME PagesInv, NEW x \in Rows, OthersRemove(x)
  PROVE  PagesInv'
<1> USE IdsFacts DEF PagesInv, PagesTypeOK
<1>1. /\ x \in there
      /\ x \in Ids["project"] \/ x \in Ids["mission"] \/ x \in Ids["job"]
      /\ there' = {i \in there : x \notin above[i]}
      /\ complete' = complete \cap there'
      /\ kept' = [v \in Views |-> kept[v] /\ x \notin above[view[v].id]]
      /\ UNCHANGED <<above, slug, view, draft, addresses>>
  BY DEF OthersRemove
<1>2. PagesTypeOK'
  <2>1. kept' \in [Views -> BOOLEAN]
    BY <1>1
  <2>2. there' \subseteq Rows /\ complete' \subseteq Ids["job"]
    BY <1>1
  <2> QED BY <1>1, <2>1, <2>2
<1>3. Lineage'
  <2>1. Tenant \in there'
    <3>1. x # Tenant
      BY <1>1
    <3> QED BY <3>1, <1>1 DEF Lineage
  <2>2. \A i \in there' : Known(i) /\ above[i] \subseteq there'
    <3> SUFFICES ASSUME NEW i \in there', NEW a \in above[i] PROVE a \in there'
      BY <1>1 DEF Lineage
    <3>1. i \in there /\ i \in Rows /\ x \notin above[i] /\ a \in there
      BY <1>1 DEF Lineage
    <3>2. above[a] \subseteq above[i]
      BY <3>1 DEF Lineage
    <3> QED BY <3>1, <3>2, <1>1
  <2> QED BY <2>1, <2>2, <1>1 DEF Lineage, Known
<1>4. JobsAbove'
  BY <1>1 DEF JobsAbove
<1>5. ASSUME NEW j \in Ids["job"], x \notin above[j]
      PROVE  OutputsOf(j) \subseteq OutputsOf(j)'
  <2> SUFFICES ASSUME NEW o \in OutputsOf(j) PROVE o \in OutputsOf(j)'
    OBVIOUS
  <2>1. o \in there \cap Ids["output"] /\ j \in above[o]
    BY DEF OutputsOf
  <2>2. above[o] \subseteq above[j] \cup {o}
    BY <2>1, <1>5 DEF JobsAbove
  <2>3. x # o
    BY <2>1, <1>1
  <2> QED BY <2>1, <2>2, <2>3, <1>1, <1>5 DEF OutputsOf
<1>7. ViewsKnow'
  <2>1. ASSUME NEW v \in Views, kept'[v] PROVE view[v].id \in there'
    BY <1>1, <2>1 DEF ViewsKnow
  <2> QED BY <1>1, <2>1 DEF ViewsKnow, Known
<1>8. JobPages'
  <2> SUFFICES ASSUME NEW v \in Views, view[v].page = "job"
               PROVE  /\ JobFirst(v)'
                      /\ kept'[v] => view[v].owed \subseteq OutputsOf(view[v].id)'
                      /\ kept'[v] => \A a \in view[v].got :
                           AnswerIsWhole(a, view[v].owed)
    BY <1>1 DEF JobPages
  <2>1. JobFirst(v)'
    BY <1>1 DEF JobPages, JobFirst, JobPage
  <2>2. kept'[v] => kept[v] /\ x \notin above[view[v].id]
    BY <1>1
  <2>3. view[v].id \in Ids["job"]
    BY DEF ViewsKnow, About
  <2>4. kept'[v] => view[v].owed \subseteq OutputsOf(view[v].id)'
    BY <1>1, <2>2, <2>3, <1>5 DEF JobPages
  <2>5. kept[v] => \A a \in view[v].got :
          AnswerIsWhole(a, view[v].owed)
    BY SMTT(30) DEF JobPages
  <2> QED BY <2>1, <2>2, <2>4, <2>5, Zenon
<1>9. MissingIsDeleted'
  BY <1>1 DEF MissingIsDeleted, Known
<1>10. FormsUseWhatTheyMake' /\ ReadsAbout' /\ FormsFit'
  BY <1>1 DEF FormsUseWhatTheyMake, UsesWhatItMade, ReadsAbout,
              FormsFit, FormFits
<1> QED BY <1>2, <1>3, <1>4, <1>7, <1>8, <1>9, <1>10

\* A row that another user or a worker inserts.
LEMMA InsertedByOthers ==
  ASSUME PagesInv, NEW k \in DOMAIN Holder, NEW i \in Ids[k],
         NEW holder \in Ids[Holder[k]], OthersInsert(k, i, holder)
  PROVE  PagesInv'
<1> USE IdsFacts DEF PagesInv, PagesTypeOK
<1>1. /\ Insert(i, holder)
      /\ UNCHANGED <<complete, view, draft, addresses, kept>>
      /\ IF k = "workspace" THEN \E s \in Slugs \ TakenSlugs : slug' = [slug EXCEPT ![i] = s]
                            ELSE UNCHANGED slug
  BY DEF OthersInsert, Insert, browser
<1>2. Grows /\ Lineage' /\ JobsAbove'
  BY <1>1, InsertRows
<1>3. slug' \in [Ids["workspace"] -> Slugs \cup {NoSlug}]
  <2>1. CASE k = "workspace"
    <3>1. PICK s \in Slugs : slug' = [slug EXCEPT ![i] = s]
      BY <1>1, <2>1
    <3> QED BY <3>1
  <2>2. CASE k # "workspace"
    BY <1>1, <2>2
  <2> QED BY <2>1, <2>2
<1>4. PagesTypeOK'
  <2>1. there' \subseteq Rows /\ above' \in [Rows -> SUBSET Rows]
    BY <1>2 DEF Grows
  <2>2. UNCHANGED <<complete, view, draft, addresses, kept>>
    BY <1>1
  <2> QED BY <1>3, <2>1, <2>2
<1>5. addresses' \subseteq addresses
  BY <1>1
<1>6. /\ JobPages' /\ MissingIsDeleted'
      /\ \A n \in addresses' : Known(n)'
      /\ \A v \in Views :
           /\ Known(view[v].id)' /\ (kept'[v] => view'[v].id \in there')
           /\ view'[v].id \in Ids[About[view'[v].page]]
           /\ \A a \in view'[v].got : \A n \in a.rows : Known(n)'
  BY <1>1, <1>2, <1>5, GrownPages
<1>7. \A v \in Views : draft[v].under \in Rows /\ Known(draft[v].under)
  BY DEF ViewsKnow, FormRecords
<1>8. ViewsKnow'
  <2>1. \A v \in Views : Known(draft[v].under)'
    BY <1>1, <1>2, <1>7 DEF Grows, Known
  <2>2. \A v \in Views : \A n \in {draft'[v].under} : Known(n)'
    BY <2>1, <1>1
  <2> QED BY <1>6, <2>2 DEF ViewsKnow
<1>9. FormsUseWhatTheyMake' /\ ReadsAbout' /\ FormsFit'
  BY <1>1 DEF FormsUseWhatTheyMake, UsesWhatItMade, ReadsAbout,
              FormsFit, FormFits
<1> QED BY <1>2, <1>4, <1>6, <1>8, <1>9

\* A job whose status a worker changes.
LEMMA UpdatedByOthers ==
  ASSUME PagesInv, \E j \in Ids["job"] : JobUpdated(j)
  PROVE  PagesInv'
<1> USE IdsFacts DEF PagesInv, PagesTypeOK
<1>1. /\ UNCHANGED <<there, above, slug, view, draft, addresses, kept>>
      /\ complete' \subseteq Ids["job"]
  BY DEF JobUpdated, browser
<1>3. PagesTypeOK'
  BY <1>1
<1>5. Lineage' /\ JobsAbove'
  BY <1>1 DEF Lineage, JobsAbove, Known
<1>6. ViewsKnow' /\ MissingIsDeleted'
  BY <1>1 DEF ViewsKnow, Known, MissingIsDeleted
<1>7. FormsUseWhatTheyMake' /\ ReadsAbout' /\ FormsFit'
  BY <1>1 DEF FormsUseWhatTheyMake, UsesWhatItMade, ReadsAbout,
              FormsFit, FormFits
<1>4. JobPages'
  BY <1>1 DEF JobPages, JobFirst, JobPage, OutputsOf
<1> QED BY <1>3, <1>4, <1>5, <1>6, <1>7

\* What browsers do leaves the rows as they are.
LEMMA SameRows ==
  ASSUME PagesInv, UNCHANGED server
  PROVE  Lineage' /\ JobsAbove'
BY DEF PagesInv, server, Lineage, JobsAbove, Known

\* A step of a form that changes nothing but the form and what it was answered.
LEMMA FormStep ==
  ASSUME PagesInv, NEW v \in Views, NEW r \in FormRecords, ToForm(v, r),
         UNCHANGED <<server, view, kept>>,
         addresses' \subseteq addresses \cup {draft[v].under},
         Known(r.under), UsesWhatItMade(r), FormFits(r)
  PROVE  PagesInv'
<1> USE IdsFacts DEF PagesInv
<1>1. /\ UNCHANGED <<there, above, complete, slug, view, kept>>
      /\ draft' = [draft EXCEPT ![v] = r]
  BY DEF ToForm, server
<1>2. draft[v].under \in Rows /\ Known(draft[v].under)
  BY DEF PagesTypeOK, FormRecords, ViewsKnow
<1>3. draft' \in [Views -> FormRecords]
  BY <1>1 DEF PagesTypeOK
<1>4. PagesTypeOK'
  BY <1>1, <1>2, <1>3 DEF PagesTypeOK
<1>5. \A u \in Views : draft'[u] = r \/ draft'[u] = draft[u]
  BY <1>1 DEF PagesTypeOK
<1>6. ViewsKnow'
  <2>1. \A u \in Views : \A i \in {draft'[u].under} : above[i] # {}
    BY <1>5 DEF ViewsKnow, Known
  <2>2. \A i \in addresses' : above[i] # {}
    BY <1>2 DEF ViewsKnow, Known
  <2> QED BY <1>1, <2>1, <2>2 DEF ViewsKnow, Known
<1>7. FormsUseWhatTheyMake'
  <2>1. \A u \in Views : UsesWhatItMade(draft'[u])
    BY <1>5 DEF FormsUseWhatTheyMake
  <2> QED BY <2>1 DEF FormsUseWhatTheyMake, UsesWhatItMade
<1>11. FormsFit'
  <2>1. \A u \in Views : FormFits(draft'[u])
    BY <1>5 DEF FormsFit
  <2> QED BY <2>1 DEF FormsFit, FormFits
<1>8. Lineage' /\ JobsAbove'
  BY SameRows
<1>9. JobPages' /\ MissingIsDeleted' /\ ReadsAbout'
  BY <1>1 DEF JobPages, JobFirst, JobPage, OutputsOf, MissingIsDeleted,
              Known, ReadsAbout
<1> QED BY <1>4, <1>6, <1>7, <1>8, <1>9, <1>11

\* A step of a form that makes a row.
LEMMA FormMakes ==
  ASSUME PagesInv, NEW v \in Views, NEW r \in FormRecords, ToForm(v, r),
         NEW k \in DOMAIN Holder, NEW i \in Ids[k], NEW holder \in Ids[Holder[k]],
         Insert(i, holder), UNCHANGED <<complete, view, addresses, kept>>,
         slug' \in [Ids["workspace"] -> Slugs \cup {NoSlug}],
         r.under = i, UsesWhatItMade(r), FormFits(r)
  PROVE  PagesInv'
<1> USE IdsFacts DEF PagesInv
<1>1. draft' = [draft EXCEPT ![v] = r]
  BY DEF ToForm
<1>2. Grows /\ Lineage' /\ JobsAbove'
  BY InsertRows
<1>3. addresses' \subseteq addresses
  OBVIOUS
<1>4. /\ JobPages' /\ MissingIsDeleted'
      /\ \A n \in addresses' : Known(n)'
      /\ \A u \in Views :
           /\ Known(view[u].id)' /\ (kept'[u] => view'[u].id \in there')
           /\ view'[u].id \in Ids[About[view'[u].page]]
           /\ \A a \in view'[u].got : \A n \in a.rows : Known(n)'
  BY <1>2, <1>3, GrownPages
<1>5. draft' \in [Views -> FormRecords]
  BY <1>1 DEF PagesTypeOK
<1>6. PagesTypeOK'
  <2>1. there' \subseteq Rows /\ above' \in [Rows -> SUBSET Rows]
    BY <1>2 DEF Grows
  <2> QED BY <1>5, <2>1 DEF PagesTypeOK
<1>7. \A u \in Views : draft'[u] = r \/ draft'[u] = draft[u]
  BY <1>1 DEF PagesTypeOK
<1>8. ViewsKnow'
  <2>1. above'[i] # {}
    BY <1>2 DEF Insert, Lineage, Known
  <2>2. ASSUME NEW u \in Views PROVE above'[draft'[u].under] # {}
    <3>1. CASE draft'[u] = r
      BY <2>1, <3>1
    <3>2. CASE draft'[u] = draft[u]
      BY <3>2, <1>2 DEF ViewsKnow, Grows, Known, PagesTypeOK, FormRecords
    <3> QED BY <3>1, <3>2, <1>7
  <2>3. \A u \in Views : \A n \in {draft'[u].under} : Known(n)'
    BY <2>2 DEF Known
  <2> QED BY <1>4, <2>3 DEF ViewsKnow
<1>9. FormsUseWhatTheyMake'
  <2>1. \A u \in Views : UsesWhatItMade(draft'[u])
    BY <1>7 DEF FormsUseWhatTheyMake
  <2> QED BY <2>1 DEF FormsUseWhatTheyMake, UsesWhatItMade
<1>11. FormsFit'
  <2>1. \A u \in Views : FormFits(draft'[u])
    BY <1>7 DEF FormsFit
  <2> QED BY <2>1 DEF FormsFit, FormFits
<1>10. ReadsAbout'
  BY DEF ReadsAbout
<1> QED BY <1>2, <1>4, <1>6, <1>8, <1>9, <1>10, <1>11

\* The form's steps between the click and the answer.
LEMMA FormActions ==
  ASSUME PagesInv, NEW v \in Views,
         \/ SubmitProject(v) \/ SubmitMission(v) \/ UniqueSlug(v) \/ SendProject(v)
         \/ Created(v) \/ CallFails(v)
  PROVE  PagesInv'
<1> DEFINE f == draft[v]
<1>1. /\ f \in FormRecords /\ UsesWhatItMade(f) /\ FormFits(f)
      /\ Known(f.under) /\ f.under \in Rows
      /\ view[v] \in PageRecords /\ Known(view[v].id)
  BY DEF PagesInv, PagesTypeOK, FormsUseWhatTheyMake, FormsFit, ViewsKnow, FormRecords
<1>0. Tenant \in Rows /\ Known(Tenant)
  BY IdsFacts DEF PagesInv, ViewsKnow, Lineage, Known
<1>2. CASE SubmitProject(v)
  <2>1. f.at = "idle" /\ UNCHANGED <<server, view, addresses, kept>>
    BY <1>2 DEF SubmitProject, CanSubmit
  <2>2. CASE ToForm(v, [f EXCEPT !.at = "slug"])
    <3> DEFINE r == [f EXCEPT !.at = "slug"]
    <3>1. r \in FormRecords /\ r.under = f.under
      BY <1>1 DEF FormRecords
    <3>2. UsesWhatItMade(r) /\ FormFits(r)
      BY <1>1, <2>1 DEF UsesWhatItMade, FormFits, FormRecords
    <3> HIDE DEF r
    <3>3. ToForm(v, r)
      BY <2>2 DEF r
    <3> QED BY <1>1, <2>1, <3>1, <3>2, <3>3, FormStep
  <2>3. ASSUME NEW w \in Shown(v, "workspace"),
               ToForm(v, [f EXCEPT !.at = "project", !.under = w])
        PROVE  PagesInv'
    <3> DEFINE r == [f EXCEPT !.at = "project", !.under = w]
    <3>2. w \in Rows /\ Known(w) /\ w \in Ids["workspace"]
      <4>1. PICK b \in view[v].got : b.read.of = "workspace" /\ w \in b.rows
        BY <2>3 DEF Shown, Answers
      <4> QED BY <1>1, <4>1 DEF PageRecords, PagesInv, ViewsKnow, ReadsAbout
    <3>3. r \in FormRecords /\ r.under = w
      BY <1>1, <3>2 DEF FormRecords
    <3>4. UsesWhatItMade(r) /\ FormFits(r)
      BY <1>1, <2>1, <3>2 DEF UsesWhatItMade, FormFits, FormRecords
    <3> HIDE DEF r
    <3>5. ToForm(v, r)
      BY <2>3 DEF r
    <3> QED BY <2>1, <3>2, <3>3, <3>4, <3>5, FormStep
  <2> QED BY <1>2, <2>2, <2>3 DEF SubmitProject
<1>3. CASE SubmitMission(v)
  <2> DEFINE r == [f EXCEPT !.at = "mission", !.under = view[v].id]
  <2>1. /\ f.at = "idle" /\ UNCHANGED <<server, view, addresses, kept>>
        /\ ToForm(v, r)
    BY <1>3 DEF SubmitMission, CanSubmit
  <2>4. view[v].id \in Ids["project"]
    BY <1>3 DEF SubmitMission, PagesInv, ViewsKnow, About
  <2>2. r \in FormRecords /\ r.under = view[v].id
    BY <1>1 DEF FormRecords, PageRecords
  <2>3. UsesWhatItMade(r) /\ FormFits(r)
    BY <1>1, <2>1, <2>4 DEF UsesWhatItMade, FormFits, FormRecords
  <2> HIDE DEF r
  <2> QED BY <1>1, <2>1, <2>2, <2>3, FormStep
<1>4. CASE UniqueSlug(v)
  <2>1. PICK s \in Slugs : ToForm(v, [f EXCEPT !.at = "workspace", !.slug = s])
    BY <1>4 DEF UniqueSlug
  <2> DEFINE r == [f EXCEPT !.at = "workspace", !.slug = s]
  <2>2. f.at = "slug" /\ UNCHANGED <<server, view, addresses, kept>>
    BY <1>4 DEF UniqueSlug
  <2>3. r \in FormRecords /\ r.under = f.under
    BY <1>1 DEF FormRecords
  <2>4. UsesWhatItMade(r) /\ FormFits(r)
    BY <1>1, <2>2 DEF UsesWhatItMade, FormFits, FormRecords
  <2> HIDE DEF r
  <2>5. ToForm(v, r)
    BY <2>1 DEF r
  <2> QED BY <1>1, <2>2, <2>3, <2>4, <2>5, FormStep
<1>5. CASE SendProject(v)
  <2> DEFINE r == [f EXCEPT !.at = "project"]
  <2>1. /\ f.at = "made" /\ UNCHANGED <<server, view, addresses, kept>>
        /\ ToForm(v, r)
    BY <1>5 DEF SendProject
  <2>2. r \in FormRecords /\ r.under = f.under
    BY <1>1 DEF FormRecords
  <2>3. UsesWhatItMade(r) /\ FormFits(r)
    BY <1>1, <2>1 DEF UsesWhatItMade, FormFits, FormRecords
  <2> HIDE DEF r
  <2> QED BY <1>1, <2>1, <2>2, <2>3, FormStep
<1>6. CASE Created(v)
  <2> DEFINE r == [f EXCEPT !.at = "idle", !.under = Tenant]
  <2>1. /\ f.at = "answered" /\ UNCHANGED <<server, view, kept>>
        /\ ToForm(v, r) /\ addresses' = addresses \cup {f.under}
    BY <1>6 DEF Created
  <2>2. r \in FormRecords /\ r.under = Tenant
    BY <1>0, <1>1 DEF FormRecords
  <2>3. UsesWhatItMade(r) /\ FormFits(r)
    BY <1>1, <2>1 DEF UsesWhatItMade, FormFits, FormRecords
  <2> HIDE DEF r
  <2> QED BY <1>0, <2>1, <2>2, <2>3, FormStep
<1>7. CASE CallFails(v)
  <2> DEFINE r == [f EXCEPT !.at = "idle", !.under = Tenant, !.slug = NoSlug,
                            !.failed = @ + 1]
  <2>1. UNCHANGED <<server, view, addresses, kept>> /\ ToForm(v, r)
    BY <1>7 DEF CallFails
  <2>2. r \in FormRecords /\ r.under = Tenant
    <3>1. f.failed \in Nat /\ f.failed + 1 \in Nat
      BY <1>1 DEF FormRecords
    <3> QED BY <1>0, <1>1, <3>1 DEF FormRecords
  <2>3. UsesWhatItMade(r) /\ FormFits(r)
    BY <1>1 DEF UsesWhatItMade, FormFits, FormRecords
  <2> HIDE DEF r
  <2> QED BY <1>0, <2>1, <2>2, <2>3, FormStep
<1> QED BY <1>2, <1>3, <1>4, <1>5, <1>6, <1>7

\* The form's steps that make a row.
LEMMA FormCreations ==
  ASSUME PagesInv, NEW v \in Views,
         \/ \E w \in Ids["workspace"] : CreateWorkspace(v, w)
         \/ \E p \in Ids["project"] : CreateProject(v, p)
         \/ \E m \in Ids["mission"] : CreateMission(v, m)
  PROVE  PagesInv'
<1> DEFINE f == draft[v]
<1>1. /\ f \in FormRecords /\ UsesWhatItMade(f)
      /\ slug \in [Ids["workspace"] -> Slugs \cup {NoSlug}]
  BY DEF PagesInv, PagesTypeOK, FormsUseWhatTheyMake
<1>2. ASSUME NEW w \in Ids["workspace"], CreateWorkspace(v, w) PROVE PagesInv'
  <2> DEFINE r == [f EXCEPT !.at = "made", !.under = w, !.slug = NoSlug,
                            !.containers = @ + 1]
  <2>1. /\ f.at = "workspace" /\ Insert(w, Tenant) /\ ToForm(v, r)
        /\ slug' = [slug EXCEPT ![w] = f.slug]
        /\ UNCHANGED <<complete, view, addresses, kept>>
    BY <1>2 DEF CreateWorkspace
  <2>2. r \in FormRecords /\ r.under = w
    <3>1. f.containers \in Nat /\ f.containers + 1 \in Nat /\ w \in Rows
      BY <1>1, IdsFacts DEF FormRecords
    <3> QED BY <1>1, <3>1 DEF FormRecords
  <2>3. UsesWhatItMade(r) /\ FormFits(r)
    BY <1>1, <2>1 DEF UsesWhatItMade, FormFits, FormRecords
  <2>4. slug' \in [Ids["workspace"] -> Slugs \cup {NoSlug}]
    BY <1>1, <2>1 DEF FormRecords
  <2>5. "workspace" \in DOMAIN Holder /\ Tenant \in Ids[Holder["workspace"]]
    BY IdsFacts DEF Holder
  <2> HIDE DEF r
  <2> QED BY <2>1, <2>2, <2>3, <2>4, <2>5, FormMakes
<1>3. ASSUME NEW p \in Ids["project"], CreateProject(v, p) PROVE PagesInv'
  <2> DEFINE r == [f EXCEPT !.at = "answered", !.under = p, !.ends = @ + 1]
  <2>1. /\ f.at = "project" /\ Insert(p, f.under) /\ ToForm(v, r)
        /\ UNCHANGED <<complete, slug, view, addresses, kept>>
    BY <1>3 DEF CreateProject
  <2>2. r \in FormRecords /\ r.under = p
    <3>1. f.ends \in Nat /\ f.ends + 1 \in Nat /\ p \in Rows
      BY <1>1, IdsFacts DEF FormRecords
    <3> QED BY <1>1, <3>1 DEF FormRecords
  <2>3. UsesWhatItMade(r) /\ FormFits(r)
    BY <1>1, <2>1 DEF UsesWhatItMade, FormFits, FormRecords
  <2>4. f.under \in Ids["workspace"]
    BY <2>1 DEF PagesInv, FormsFit, FormFits
  <2>5. "project" \in DOMAIN Holder /\ Holder["project"] = "workspace"
    BY DEF Holder
  <2> HIDE DEF r
  <2> QED BY <1>1, <2>1, <2>2, <2>3, <2>4, <2>5, FormMakes
<1>4. ASSUME NEW m \in Ids["mission"], CreateMission(v, m) PROVE PagesInv'
  <2> DEFINE r == [f EXCEPT !.at = "answered", !.under = m, !.ends = @ + 1]
  <2>1. /\ f.at = "mission" /\ Insert(m, f.under) /\ ToForm(v, r)
        /\ UNCHANGED <<complete, slug, view, addresses, kept>>
    BY <1>4 DEF CreateMission
  <2>2. r \in FormRecords /\ r.under = m
    <3>1. f.ends \in Nat /\ f.ends + 1 \in Nat /\ m \in Rows
      BY <1>1, IdsFacts DEF FormRecords
    <3> QED BY <1>1, <3>1 DEF FormRecords
  <2>3. UsesWhatItMade(r) /\ FormFits(r)
    BY <1>1, <2>1 DEF UsesWhatItMade, FormFits, FormRecords
  <2>4. f.under \in Ids["project"]
    BY <2>1 DEF PagesInv, FormsFit, FormFits
  <2>5. "mission" \in DOMAIN Holder /\ Holder["mission"] = "project"
    BY DEF Holder
  <2> HIDE DEF r
  <2> QED BY <1>1, <2>1, <2>2, <2>3, <2>4, <2>5, FormMakes
<1> QED BY <1>2, <1>3, <1>4

\* The reads of every page are reads, and what a page needs is the row it is about.
LEMMA ReadFacts ==
  \A k \in Kinds, b \in Rows :
    /\ RowOf(k, b) \in Reads /\ NeedsOnly(RowOf(k, b), b)
    /\ ListOf(k, b) \in Reads /\ \A id : NeedsOnly(ListOf(k, b), id)
    /\ Caught(RowOf(k, b)) \in Reads /\ \A id : NeedsOnly(Caught(RowOf(k, b)), id)
    /\ Caught(ListOf(k, b)) \in Reads /\ \A id : NeedsOnly(Caught(ListOf(k, b)), id)
    /\ ReadOf(k, b, TRUE) = RowOf(k, b)
BY DEF RowOf, ListOf, Caught, ReadOf, Reads, NeedsOnly

\* What each page asks for first, and what next.
LEMMA RequestsFacts ==
  ASSUME NEW page \in DOMAIN About, NEW id \in Ids[About[page]],
         \A m \in above[id] : m \in Rows
  PROVE  /\ ReadsOf(page, id).first \subseteq Reads
         /\ ReadsOf(page, id).then \subseteq Reads
         /\ \A r \in ReadsOf(page, id).first \cup ReadsOf(page, id).then :
              NeedsOnly(r, id)
<1>1. /\ id \in Rows /\ Tenant \in Rows /\ Ids["organisation"] = {Tenant}
      /\ Ids["mission"] \subseteq Rows
      /\ "organisation" \in Kinds /\ "workspace" \in Kinds /\ "project" \in Kinds
      /\ "mission" \in Kinds /\ "image" \in Kinds /\ "job" \in Kinds /\ "output" \in Kinds
  BY IdsFacts
<1>2. CASE page \in {"dashboard", "projects", "newProject"}
  <2>1. id = Tenant
    BY <1>1, <1>2 DEF About
  <2>2. CASE page = "dashboard"
    <3>1. ReadsOf(page, id) = DashboardPage
      BY <2>2 DEF ReadsOf
    <3>2. /\ DashboardPage.first =
               {RowOf("organisation", Tenant), ListOf("project", Tenant),
                ListOf("organisation", Tenant), ListOf("job", Tenant)}
          /\ DashboardPage.then = {}
      BY DEF DashboardPage, StorageSummary
    <3>3. \A r \in {RowOf("organisation", Tenant), ListOf("project", Tenant),
                   ListOf("organisation", Tenant), ListOf("job", Tenant)} :
            r \in Reads /\ NeedsOnly(r, id)
      BY <1>1, <2>1, ReadFacts
    <3> QED BY <3>1, <3>2, <3>3
  <2>3. CASE page = "projects"
    <3>1. ReadsOf(page, id) = ProjectsPage
      BY <2>3 DEF ReadsOf
    <3>2. ProjectsPage.first = {ListOf("project", Tenant)} /\ ProjectsPage.then = {}
      BY DEF ProjectsPage
    <3>3. \A r \in {ListOf("project", Tenant)} : r \in Reads /\ NeedsOnly(r, id)
      BY <1>1, <2>1, ReadFacts
    <3> QED BY <3>1, <3>2, <3>3
  <2>4. CASE page = "newProject"
    <3>1. ReadsOf(page, id) = NewProjectPage
      BY <2>4 DEF ReadsOf
    <3>2. NewProjectPage.first = {ListOf("workspace", Tenant)} /\ NewProjectPage.then = {}
      BY DEF NewProjectPage
    <3>3. \A r \in {ListOf("workspace", Tenant)} : r \in Reads /\ NeedsOnly(r, id)
      BY <1>1, <2>1, ReadFacts
    <3> QED BY <3>1, <3>2, <3>3
  <2> QED BY <1>2, <2>2, <2>3, <2>4
<1>3. CASE page = "project"
  <2>1. ReadsOf(page, id) = ProjectDetailsPage(id)
    BY <1>3 DEF ReadsOf
  <2>2. /\ ProjectDetailsPage(id).first = {RowOf("project", id), ListOf("mission", id)}
        /\ ProjectDetailsPage(id).then = {}
    BY DEF ProjectDetailsPage
  <2>3. \A r \in {RowOf("project", id), ListOf("mission", id)} : r \in Reads /\ NeedsOnly(r, id)
    BY <1>1, ReadFacts
  <2> QED BY <2>1, <2>2, <2>3
<1>4. CASE page = "viewer"
  <2>1. ReadsOf(page, id) = ViewerPage(id)
    BY <1>4 DEF ReadsOf
  <2>2. /\ ViewerPage(id).first = {RowOf("project", id), ListOf("output", id)}
        /\ ViewerPage(id).then = {}
    BY DEF ViewerPage
  <2>3. \A r \in {RowOf("project", id), ListOf("output", id)} : r \in Reads /\ NeedsOnly(r, id)
    BY <1>1, ReadFacts
  <2> QED BY <2>1, <2>2, <2>3
<1>5. CASE page = "mission"
  <2>1. ReadsOf(page, id) = MissionDetails(id)
    BY <1>5 DEF ReadsOf
  <2>2. /\ MissionDetails(id).first =
             {RowOf("mission", id), ReadOf("image", id, TRUE), ListOf("job", id)}
        /\ MissionDetails(id).then = {}
    BY DEF MissionDetails
  <2>3. \A r \in {RowOf("mission", id), ReadOf("image", id, TRUE), ListOf("job", id)} :
          r \in Reads /\ NeedsOnly(r, id)
    BY <1>1, ReadFacts
  <2> QED BY <2>1, <2>2, <2>3
<1>6. CASE page = "job"
  <2>1. ReadsOf(page, id) = JobPage(id)
    BY <1>6 DEF ReadsOf
  <2>2. JobPage(id).first = {RowOf("job", id)}
    BY DEF JobPage
  <2>3. \A r \in JobPage(id).then :
          r = Caught(ListOf("output", id)) \/ \E m \in Ids["mission"] : r = Caught(RowOf("mission", m))
    BY DEF JobPage
  <2>4. \A r \in JobPage(id).then : r \in Reads /\ NeedsOnly(r, id)
    BY <1>1, <2>3, ReadFacts
  <2>5. \A r \in JobPage(id).first : r \in Reads /\ NeedsOnly(r, id)
    BY <1>1, <2>2, ReadFacts
  <2> QED BY <2>1, <2>4, <2>5
<1> QED BY <1>2, <1>3, <1>4, <1>5, <1>6 DEF About

\* A visit starts a page with nothing read and an idle form.
LEMMA Visits ==
  ASSUME PagesInv, NEW v \in Views, NEW page \in DOMAIN About, NEW id \in Rows,
         Visit(v, page, id)
  PROVE  PagesInv'
<1> USE IdsFacts DEF PagesInv
<1> DEFINE r == [NoView EXCEPT !.page = page, !.id = id, !.at = "loading",
                               !.asked = ReadsOf(page, id).first]
<1>1. /\ id \in addresses /\ id \in Ids[About[page]]
      /\ UNCHANGED <<there, above, complete, slug, addresses>>
      /\ UNCHANGED server
      /\ view' = [view EXCEPT ![v] = r]
      /\ draft' = [draft EXCEPT ![v] = NoForm]
      /\ kept' = [kept EXCEPT ![v] = id \in there]
  BY DEF Visit, server
<1>0. \A m \in above[id] : m \in Rows
  BY DEF PagesTypeOK
<1>2. /\ r.page = page /\ r.id = id /\ r.at = "loading" /\ r.got = {} /\ r.owed = {}
      /\ r.asked = ReadsOf(page, id).first
      /\ r \in PageRecords
  <2>1. ReadsOf(page, id).first \subseteq Reads
    BY <1>0, <1>1, RequestsFacts
  <2> HIDE DEF ReadsOf
  <2> QED BY <2>1 DEF NoView, PageRecords
<1> HIDE DEF r
<1>3. Known(id) /\ Known(Tenant) /\ Tenant \in Rows
  BY <1>1 DEF ViewsKnow, Lineage
<1>4. NoForm \in FormRecords /\ UsesWhatItMade(NoForm) /\ FormFits(NoForm) /\ NoForm.under = Tenant
  BY <1>3 DEF NoForm, FormRecords, UsesWhatItMade, FormFits
<1>6. /\ view' \in [Views -> PageRecords] /\ draft' \in [Views -> FormRecords]
      /\ kept' \in [Views -> BOOLEAN]
  <2>1. view' \in [Views -> PageRecords]
    BY <1>1, <1>2 DEF PagesTypeOK
  <2>2. draft' \in [Views -> FormRecords]
    BY <1>1, <1>4 DEF PagesTypeOK
  <2>4. kept' \in [Views -> BOOLEAN]
    <3>1. (id \in there) \in BOOLEAN
      OBVIOUS
    <3> QED BY <1>1, <3>1 DEF PagesTypeOK
  <2> QED BY <2>1, <2>2, <2>4
<1>7. PagesTypeOK'
  BY <1>1, <1>6 DEF PagesTypeOK
<1>8. /\ view'[v] = r /\ draft'[v] = NoForm
      /\ kept'[v] <=> id \in there
      /\ \A u \in Views \ {v} : /\ view'[u] = view[u] /\ draft'[u] = draft[u]
                                /\ kept'[u] = kept[u]
  BY <1>1 DEF PagesTypeOK
<1>9. Lineage' /\ JobsAbove'
  BY <1>1, SameRows
<1>10. ViewsKnow'
  <2>1. ASSUME NEW u \in Views
        PROVE  /\ above[view'[u].id] # {} /\ (kept'[u] => view'[u].id \in there)
               /\ view'[u].id \in Ids[About[view'[u].page]]
               /\ above[draft'[u].under] # {}
               /\ \A a \in view'[u].got : \A i \in a.rows : above[i] # {}
    <3>1. CASE u = v
      BY <1>1, <1>2, <1>3, <1>4, <1>8, <3>1 DEF Known
    <3>2. CASE u # v
      BY <1>8, <3>2 DEF ViewsKnow, Known
    <3> QED BY <3>1, <3>2
  <2> QED BY <1>1, <2>1 DEF ViewsKnow, Known
<1>11. ReadsAbout'
  <2>1. ASSUME NEW u \in Views
        PROVE  /\ \A q \in view'[u].asked : NeedsOnly(q, view'[u].id)
               /\ \A a \in view'[u].got : a.rows \subseteq Ids[a.read.of]
    <3>1. CASE u = v
      <4>1. \A q \in ReadsOf(page, id).first : NeedsOnly(q, id)
        BY <1>0, <1>1, RequestsFacts
      <4> QED BY <4>1, <1>2, <1>8, <3>1
    <3>2. CASE u # v
      BY <1>8, <3>2 DEF ReadsAbout
    <3> QED BY <3>1, <3>2
  <2> QED BY <2>1 DEF ReadsAbout
<1>12. JobPages'
  <2> SUFFICES ASSUME NEW u \in Views, view'[u].page = "job"
               PROVE  /\ JobFirst(u)'
                      /\ kept'[u] => view'[u].owed \subseteq OutputsOf(view[u].id)'
                      /\ kept'[u] => \A a \in view'[u].got :
                           AnswerIsWhole(a, view'[u].owed)
    BY DEF JobPages
  <2>1. CASE u = v
    <3>1. view'[u].asked = {RowOf("job", view'[u].id)}
      BY <1>2, <1>8, <2>1 DEF ReadsOf, JobPage
    <3>2. JobFirst(u)'
      BY <3>1, <1>2, <1>8, <2>1 DEF JobFirst
    <3> QED BY <3>2, <1>2, <1>8, <2>1
  <2>2. CASE u # v
    <3>1. view[u].page = "job"
      BY <1>8, <2>2
    <3>2. /\ JobFirst(u)
          /\ kept[u] => view[u].owed \subseteq OutputsOf(view[u].id)
      BY <3>1 DEF JobPages
    <3>3. kept[u] => \A a \in view[u].got :
                       AnswerIsWhole(a, view[u].owed)
      BY <3>1 DEF JobPages
    <3>4. JobFirst(u)'
      BY <1>1, <1>8, <2>2, <3>2 DEF JobFirst, JobPage
    <3>5. kept'[u] => view'[u].owed \subseteq OutputsOf(view[u].id)'
      BY <1>1, <1>8, <2>2, <3>2 DEF OutputsOf
    <3> QED BY <1>8, <2>2, <3>3, <3>4, <3>5
  <2> QED BY <2>1, <2>2
<1>13. MissingIsDeleted'
  <2>1. ASSUME NEW u \in Views, view'[u].at = "missing"
        PROVE  above[view'[u].id] # {} /\ ~kept'[u]
    <3>1. u # v
      BY <1>2, <1>8, <2>1
    <3> QED BY <1>8, <2>1, <3>1 DEF MissingIsDeleted, Known
  <2> QED BY <1>1, <2>1 DEF MissingIsDeleted, Known
<1>14. FormsUseWhatTheyMake' /\ FormsFit'
  <2>1. \A u \in Views : UsesWhatItMade(draft'[u]) /\ FormFits(draft'[u])
    BY <1>4, <1>8 DEF FormsUseWhatTheyMake, FormsFit
  <2> QED BY <2>1 DEF FormsUseWhatTheyMake, FormsFit, UsesWhatItMade, FormFits
<1> QED BY <1>7, <1>9, <1>10, <1>11, <1>12, <1>13, <1>14

\* A step in which one page goes from what it had read to r, and no row changes.
LEMMA PageStep ==
  ASSUME PagesInv, NEW v \in Views, NEW r \in PageRecords,
         UNCHANGED <<server, draft, kept>>, view' = [view EXCEPT ![v] = r],
         r.page = view[v].page, r.id = view[v].id,
         addresses' \subseteq Rows, \A i \in addresses' : Known(i),
         \A a \in r.got : a.rows \subseteq Ids[a.read.of] /\ \A i \in a.rows : Known(i),
         \A q \in r.asked : NeedsOnly(q, view[v].id),
         r.at = "missing" => ~kept[v],
         r.page = "job" =>
           /\ \/ r.asked = {RowOf("job", r.id)} /\ r.got = {}
              \/ r.asked \subseteq JobPage(r.id).then
           /\ kept[v] => r.owed \subseteq OutputsOf(r.id),
         r.page = "job" /\ kept[v] =>
           \A a \in r.got : AnswerIsWhole(a, r.owed)
  PROVE  PagesInv'
<1> USE DEF PagesInv
<1>1. UNCHANGED <<there, above, complete, slug, draft, kept>>
  BY DEF server
<1>2. /\ view' \in [Views -> PageRecords]
      /\ view'[v] = r
      /\ \A u \in Views \ {v} : view'[u] = view[u]
  BY DEF PagesTypeOK
<1>3. PagesTypeOK'
  BY <1>1, <1>2 DEF PagesTypeOK
<1>4. Lineage' /\ JobsAbove'
  BY SameRows
<1>5. ViewsKnow'
  <2>1. ASSUME NEW u \in Views
        PROVE  /\ above[view'[u].id] # {} /\ (kept[u] => view'[u].id \in there)
               /\ view'[u].id \in Ids[About[view'[u].page]]
               /\ above[draft[u].under] # {}
               /\ \A a \in view'[u].got : \A i \in a.rows : above[i] # {}
    <3>1. CASE u = v
      BY <1>2, <3>1 DEF Known, ViewsKnow
    <3>2. CASE u # v
      BY <1>2, <3>2 DEF ViewsKnow, Known
    <3> QED BY <3>1, <3>2
  <2> QED BY <1>1, <2>1 DEF ViewsKnow, Known
<1>6. ReadsAbout'
  <2>1. ASSUME NEW u \in Views
        PROVE  /\ \A q \in view'[u].asked : NeedsOnly(q, view'[u].id)
               /\ \A a \in view'[u].got : a.rows \subseteq Ids[a.read.of]
    <3>1. CASE u = v
      BY <1>2, <3>1
    <3>2. CASE u # v
      BY <1>2, <3>2 DEF ReadsAbout
    <3> QED BY <3>1, <3>2
  <2> QED BY <2>1 DEF ReadsAbout
<1>7. JobPages'
  <2> SUFFICES ASSUME NEW u \in Views, view'[u].page = "job"
               PROVE  /\ JobFirst(u)'
                      /\ kept'[u] => view'[u].owed \subseteq OutputsOf(view[u].id)'
                      /\ kept'[u] => \A a \in view'[u].got :
                           AnswerIsWhole(a, view'[u].owed)
    BY DEF JobPages
  <2>1. CASE u = v
    <3>1. r.page = "job"
      BY <1>2, <2>1
    <3>2. JobFirst(u)'
      BY <1>1, <1>2, <2>1, <3>1 DEF JobFirst, JobPage
    <3>3. kept'[u] => view'[u].owed \subseteq OutputsOf(view[u].id)'
      BY <1>1, <1>2, <2>1, <3>1 DEF OutputsOf
    <3> QED BY <1>1, <1>2, <2>1, <3>1, <3>2, <3>3
  <2>2. CASE u # v
    <3>1. view[u].page = "job"
      BY <1>2, <2>2
    <3>2. /\ JobFirst(u)
          /\ kept[u] => view[u].owed \subseteq OutputsOf(view[u].id)
      BY <3>1 DEF JobPages
    <3>3. kept[u] => \A a \in view[u].got :
                       AnswerIsWhole(a, view[u].owed)
      BY <3>1 DEF JobPages
    <3>4. JobFirst(u)'
      BY <1>1, <1>2, <2>2, <3>2 DEF JobFirst, JobPage
    <3>5. kept'[u] => view'[u].owed \subseteq OutputsOf(view[u].id)'
      BY <1>1, <1>2, <2>2, <3>2 DEF OutputsOf
    <3> QED BY <1>1, <1>2, <2>2, <3>3, <3>4, <3>5
  <2> QED BY <2>1, <2>2
<1>8. MissingIsDeleted'
  BY <1>1, <1>2 DEF MissingIsDeleted, Known, ViewsKnow
<1>9. FormsUseWhatTheyMake' /\ FormsFit'
  BY <1>1 DEF FormsUseWhatTheyMake, UsesWhatItMade, FormsFit, FormFits
<1> QED BY <1>3, <1>4, <1>5, <1>6, <1>7, <1>8, <1>9

\* What the page of a job may ask for.
LEMMA JobReads ==
  ASSUME PagesInv, NEW v \in Views, NEW read \in view[v].asked, view[v].page = "job"
  PROVE  /\ view[v].id \in Ids["job"]
         /\ \/ read = RowOf("job", view[v].id) /\ view[v].asked = {read} /\ view[v].got = {}
            \/ read = Caught(ListOf("output", view[v].id))
            \/ \E m \in above[view[v].id] \cap Ids["mission"] : read = Caught(RowOf("mission", m))
<1>1. view[v].id \in Ids["job"]
  BY DEF PagesInv, ViewsKnow, About
<1>2. JobFirst(v)
  BY DEF PagesInv, JobPages
<1> QED BY <1>1, <1>2 DEF JobFirst, JobPage

\* An answer that tells a job's page no untruth leads to a page that tells none.
LEMMA SettleStep ==
  ASSUME PagesInv, NEW v \in Views, NEW read \in view[v].asked, NEW ok \in BOOLEAN,
         NEW rows \in SUBSET Ids[read.of], rows \subseteq there, Settle(v, read, rows, ok),
         view[v].page = "job" /\ kept[v] /\ ok =>
           IF read.of = "output" THEN view[v].owed \subseteq rows ELSE rows # {}
  PROVE  PagesInv'
<1> USE IdsFacts DEF PagesInv
<1> DEFINE answer == [read |-> read, rows |-> rows, ok |-> ok]
           got == view[v].got \cup {answer}
           then == ReadsOf(view[v].page, view[v].id).then \ {a.read : a \in got}
           asked == IF view[v].asked # {read} THEN view[v].asked \ {read} ELSE then
           owed == IF read.of = "job" /\ read.by \in complete THEN OutputsOf(read.by)
                                                              ELSE view[v].owed
           r == [view[v] EXCEPT !.asked = asked, !.got = got,
                                !.at = IF asked = {} THEN "shown" ELSE "loading", !.owed = owed]
<1>1. /\ UNCHANGED <<server, draft, kept>>
      /\ view' = [view EXCEPT ![v].asked = asked, ![v].got = got,
                              ![v].at = IF asked = {} THEN "shown" ELSE "loading",
                              ![v].owed = IF read.of = "job" /\ read.by \in complete
                                          THEN OutputsOf(read.by) ELSE @]
      /\ addresses' \subseteq addresses \cup UNION {UNION {above[i] : i \in a.rows} : a \in got}
  BY DEF Settle
<1>2. view[v] \in PageRecords
  BY DEF PagesTypeOK
<1>3. /\ view[v].page \in DOMAIN About /\ view[v].id \in Rows /\ view[v].asked \subseteq Reads
      /\ view[v].id \in Ids[About[view[v].page]]
      /\ \A a \in view[v].got : /\ a \in [read : Reads, rows : SUBSET Rows, ok : BOOLEAN]
                                /\ a.rows \subseteq Ids[a.read.of]
                                /\ \A i \in a.rows : Known(i)
  BY <1>2 DEF PageRecords, ViewsKnow, ReadsAbout
<1>4. /\ read \in Reads /\ read.of \in Kinds /\ rows \subseteq Rows
      /\ answer \in [read : Reads, rows : SUBSET Rows, ok : BOOLEAN]
      /\ answer.rows = rows /\ answer.read = read /\ (answer.ok <=> ok)
      /\ \A i \in rows : Known(i)
  <2>1. read \in Reads /\ read.of \in Kinds
    BY <1>3 DEF Reads
  <2>2. rows \subseteq Rows
    BY <2>1
  <2> QED BY <2>1, <2>2 DEF Lineage
<1>5. /\ then \subseteq Reads
      /\ \A q \in then : NeedsOnly(q, view[v].id)
  <2>1. \A m \in above[view[v].id] : m \in Rows
    BY <1>3 DEF PagesTypeOK
  <2> QED BY <1>3, <2>1, RequestsFacts
<1>6. asked \subseteq view[v].asked \cup then
  OBVIOUS
<1> HIDE DEF answer
<1>7. got \in SUBSET [read : Reads, rows : SUBSET Rows, ok : BOOLEAN]
  BY <1>3, <1>4
<1>8. asked \in SUBSET Reads /\ \A q \in asked : NeedsOnly(q, view[v].id)
  BY <1>3, <1>5, <1>6 DEF ReadsAbout
<1>9. \A a \in got : a.rows \subseteq Ids[a.read.of] /\ a.rows \subseteq Rows /\ \A i \in a.rows : Known(i)
  BY <1>3, <1>4
<1>10. \A a \in got : a = answer \/ a \in view[v].got
  OBVIOUS
<1>11. addresses' \subseteq Rows /\ \A i \in addresses' : Known(i)
  <2>1. \A a \in got : \A i \in a.rows : \A n \in above[i] : n \in Rows /\ Known(n)
    BY <1>9 DEF Lineage, PagesTypeOK
  <2>2. \A i \in addresses : i \in Rows /\ Known(i)
    BY DEF ViewsKnow, PagesTypeOK
  <2>3. \A n \in UNION {UNION {above[i] : i \in a.rows} : a \in got} : n \in Rows /\ Known(n)
    <3> HIDE DEF got
    <3> QED BY <2>1
  <2> HIDE DEF got
  <2> QED BY <1>1, <2>2, <2>3
<1>12. asked = view[v].asked \ {read} \/ (view[v].asked = {read} /\ asked = then)
  OBVIOUS
<1>13. then \subseteq ReadsOf(view[v].page, view[v].id).then
  OBVIOUS
<1> HIDE DEF got, then, asked
<1>14. owed \in SUBSET Rows
  BY <1>2 DEF OutputsOf, PagesTypeOK, PageRecords
<1>15. /\ r \in PageRecords /\ r.page = view[v].page /\ r.id = view[v].id /\ r.asked = asked
       /\ r.got = got /\ r.at # "missing" /\ r.owed = owed
  BY <1>2, <1>7, <1>8, <1>14 DEF PageRecords
<1>16. view' = [view EXCEPT ![v] = r]
  BY <1>1, <1>2 DEF PagesTypeOK, PageRecords
<1>17. owed = view[v].owed \/ (read.of = "job" /\ owed = OutputsOf(read.by))
  OBVIOUS
<1> HIDE DEF r, owed
<1>18. ASSUME view[v].page = "job"
       PROVE  /\ \/ asked = {RowOf("job", view[v].id)} /\ got = {}
                 \/ asked \subseteq JobPage(view[v].id).then
              /\ kept[v] => owed \subseteq OutputsOf(view[v].id)
  <2>1. asked \subseteq JobPage(view[v].id).then
    <3>1. ReadsOf(view[v].page, view[v].id) = JobPage(view[v].id)
      BY <1>18 DEF ReadsOf
    <3>2. JobFirst(v)
      BY <1>18 DEF JobPages
    <3>3. CASE asked = then
      BY <3>1, <3>3, <1>13
    <3>4. CASE asked = view[v].asked \ {read}
      BY <3>2, <3>4 DEF JobFirst
    <3> QED BY <3>3, <3>4, <1>12
  <2>2. ASSUME kept[v] PROVE owed \subseteq OutputsOf(view[v].id)
    <3>1. CASE owed = view[v].owed
      BY <1>18, <2>2, <3>1 DEF JobPages
    <3>2. CASE read.of = "job" /\ owed = OutputsOf(read.by)
      <4>1. read = RowOf("job", view[v].id)
        <5>1. \A m : Caught(RowOf("mission", m)).of = "mission"
          BY DEF Caught, RowOf, ReadOf
        <5>2. Caught(ListOf("output", view[v].id)).of = "output"
          BY DEF Caught, ListOf, ReadOf
        <5> QED BY <1>18, <3>2, <5>1, <5>2, JobReads
      <4>2. read.by = view[v].id
        BY <4>1 DEF RowOf, ReadOf
      <4> QED BY <3>2, <4>2
    <3> QED BY <3>1, <3>2, <1>17
  <2> QED BY <2>1, <2>2
<1>19. ASSUME view[v].page = "job", kept[v], NEW a \in got
       PROVE  AnswerIsWhole(a, owed)
  <2>1. CASE a = answer
    <3>1. ok => IF read.of = "output" THEN view[v].owed \subseteq rows ELSE rows # {}
      BY <1>19
    <3>2. read.of = "output" => owed = view[v].owed
      BY <1>17
    <3> QED BY <3>1, <3>2, <2>1, <1>4 DEF AnswerIsWhole
  <2>2. CASE a \in view[v].got
    <3>1. AnswerIsWhole(a, view[v].owed)
      BY <1>19, <2>2 DEF JobPages
    <3>2. read.of # "job"
      <4>1. \A m : Caught(RowOf("mission", m)).of = "mission"
        BY DEF Caught, RowOf, ReadOf
      <4>2. Caught(ListOf("output", view[v].id)).of = "output"
        BY DEF Caught, ListOf, ReadOf
      <4>3. view[v].got # {}
        BY <2>2
      <4> QED BY <1>19, <4>1, <4>2, <4>3, JobReads
    <3> QED BY <3>1, <3>2, <1>17
  <2> QED BY <2>1, <2>2, <1>10, <1>19
<1>20. r.page = "job" =>
         /\ \/ r.asked = {RowOf("job", r.id)} /\ r.got = {}
            \/ r.asked \subseteq JobPage(r.id).then
         /\ kept[v] => r.owed \subseteq OutputsOf(r.id)
  BY <1>15, <1>18
<1>21. r.page = "job" /\ kept[v] =>
         \A a \in r.got : AnswerIsWhole(a, r.owed)
  BY <1>15, <1>19
<1>22. /\ \A a \in r.got : a.rows \subseteq Ids[a.read.of] /\ \A i \in a.rows : Known(i)
       /\ \A q \in r.asked : NeedsOnly(q, view[v].id)
       /\ r.at = "missing" => ~kept[v]
  BY <1>8, <1>9, <1>15
<1> QED BY <1>1, <1>11, <1>15, <1>16, <1>20, <1>21, <1>22, PageStep

\* A page that ends without its rows.
LEMMA EndStep ==
  ASSUME PagesInv, NEW v \in Views, NEW at \in {"missing", "broken"}, End(v, at),
         at = "missing" => ~kept[v]
  PROVE  PagesInv'
<1> USE DEF PagesInv
<1> DEFINE r == [view[v] EXCEPT !.at = at, !.asked = {}, !.got = {}, !.owed = {}]
<1>1. /\ UNCHANGED <<server, draft, kept, addresses>>
      /\ view' = [view EXCEPT ![v].at = at, ![v].asked = {}, ![v].got = {}, ![v].owed = {}]
  BY DEF End
<1>2. view[v] \in PageRecords
  BY DEF PagesTypeOK
<1>3. view' = [view EXCEPT ![v] = r]
  BY <1>1, <1>2 DEF PagesTypeOK, PageRecords
<1>4. /\ r \in PageRecords /\ r.page = view[v].page /\ r.id = view[v].id /\ r.asked = {}
      /\ r.got = {} /\ r.at = at /\ r.owed = {}
  BY <1>2 DEF PageRecords
<1> HIDE DEF r
<1>5. r.page = "job" =>
        /\ \/ r.asked = {RowOf("job", r.id)} /\ r.got = {}
           \/ r.asked \subseteq JobPage(r.id).then
        /\ kept[v] => r.owed \subseteq OutputsOf(r.id)
  BY <1>4 DEF JobPages
<1>6. r.page = "job" /\ kept[v] =>
        \A a \in r.got : AnswerIsWhole(a, r.owed)
  BY <1>4 DEF JobPages
<1>7. /\ \A a \in r.got : a.rows \subseteq Ids[a.read.of] /\ \A i \in a.rows : Known(i)
      /\ \A q \in r.asked : NeedsOnly(q, view[v].id)
  BY <1>4 DEF ViewsKnow, ReadsAbout
<1>8. addresses' \subseteq Rows /\ \A i \in addresses' : Known(i)
  BY <1>1 DEF ViewsKnow, PagesTypeOK
<1> QED BY <1>1, <1>3, <1>4, <1>5, <1>6, <1>7, <1>8, PageStep

\* A read that is answered.
LEMMA PageAnswered ==
  ASSUME PagesInv, NEW v \in Views, NEW read \in view[v].asked, ReadAnswered(v, read)
  PROVE  PagesInv'
<1> USE DEF PagesInv
<1>1. /\ read.needs => read.by \in there \cap Ids[read.of]
      /\ Settle(v, read, Selected(read), TRUE)
  BY DEF ReadAnswered
<1>2. Selected(read) \in SUBSET Ids[read.of] /\ Selected(read) \subseteq there
  BY DEF Selected
<1>3. ASSUME view[v].page = "job", kept[v]
      PROVE  IF read.of = "output" THEN view[v].owed \subseteq Selected(read)
                                   ELSE Selected(read) # {}
  <2>1. CASE read = Caught(ListOf("output", view[v].id))
    <3>1. read.of = "output" /\ read.by = view[v].id
      BY <2>1 DEF ListOf, Caught, ReadOf
    <3>2. view[v].owed \subseteq OutputsOf(view[v].id)
      BY <1>3 DEF JobPages
    <3> QED BY <3>1, <3>2 DEF OutputsOf, Selected
  <2>2. CASE read # Caught(ListOf("output", view[v].id))
    <3>1. /\ \A k, b : RowOf(k, b).needs /\ Caught(RowOf(k, b)).needs
          /\ \A k, b : RowOf(k, b).of = k /\ Caught(RowOf(k, b)).of = k
      BY DEF RowOf, Caught, ReadOf
    <3>2. read.needs /\ read.of \in {"job", "mission"}
      BY <1>3, <2>2, <3>1, JobReads
    <3>3. read.by \in there \cap Ids[read.of]
      BY <1>1, <3>2
    <3>4. read.by \in above[read.by]
      BY <3>3 DEF Lineage, PagesTypeOK
    <3> QED BY <3>2, <3>3, <3>4 DEF Selected
  <2> QED BY <2>1, <2>2
<1> HIDE DEF PagesInv
<1> QED BY <1>1, <1>2, <1>3, SettleStep

\* A read that finds no row, or fails.
LEMMA PageUnanswered ==
  ASSUME PagesInv, NEW v \in Views, NEW read \in view[v].asked,
         NotFound(v, read) \/ ReadFails(v, read)
  PROVE  PagesInv'
<1>1. CASE ReadFails(v, read)
  <2>1. CASE read.caught
    <3>1. Settle(v, read, {}, FALSE)
      BY <1>1, <2>1 DEF ReadFails
    <3>2. {} \in SUBSET Ids[read.of] /\ {} \subseteq there /\ FALSE \in BOOLEAN
      OBVIOUS
    <3> QED BY <3>1, <3>2, SettleStep
  <2>2. CASE ~read.caught
    BY <1>1, <2>2, EndStep DEF ReadFails
  <2> QED BY <2>1, <2>2
<1>2. CASE NotFound(v, read)
  <2>1. read.needs /\ read.by \notin there
    BY <1>2 DEF NotFound
  <2>2. kept[v] => view[v].id \in there
    BY DEF PagesInv, ViewsKnow
  <2>3. CASE read.caught
    <3>1. Settle(v, read, {}, TRUE)
      BY <1>2, <2>3 DEF NotFound
    <3>2. ASSUME view[v].page = "job", kept[v] PROVE FALSE
      <4>1. ~RowOf("job", view[v].id).caught /\ ~Caught(ListOf("output", view[v].id)).needs
        BY DEF RowOf, ListOf, Caught, ReadOf
      <4>2. PICK m \in above[view[v].id] \cap Ids["mission"] : read = Caught(RowOf("mission", m))
        BY <2>1, <2>3, <3>2, <4>1, JobReads
      <4>3. read.by = m
        BY <4>2 DEF Caught, RowOf, ReadOf
      <4> QED BY <2>1, <2>2, <3>2, <4>2, <4>3 DEF PagesInv, Lineage
    <3>3. {} \in SUBSET Ids[read.of] /\ {} \subseteq there /\ TRUE \in BOOLEAN
      OBVIOUS
    <3> QED BY <3>1, <3>2, <3>3, SettleStep
  <2>4. CASE ~read.caught
    <3>1. read.by = view[v].id
      BY <2>1, <2>4 DEF PagesInv, ReadsAbout, NeedsOnly
    <3>2. End(v, "missing") /\ ~kept[v]
      BY <1>2, <2>1, <2>2, <2>4, <3>1 DEF NotFound
    <3> QED BY <3>2, EndStep
  <2> QED BY <2>3, <2>4
<1> QED BY <1>1, <1>2

\* A list whose owner was found goes on without it.
LEMMA OwnersFound ==
  ASSUME PagesInv, NEW v \in Views, NEW read \in view[v].asked, OwnerFound(v, read)
  PROVE  PagesInv'
<1> USE DEF PagesInv
<1> DEFINE asked == (view[v].asked \ {read}) \cup {ListOf(read.of, read.by)}
           r == [view[v] EXCEPT !.asked = asked]
<1>1. /\ UNCHANGED <<server, draft, kept, addresses>>
      /\ view' = [view EXCEPT ![v].asked = (@ \ {read}) \cup {ListOf(read.of, read.by)}]
      /\ read.needs /\ read.by \in there /\ read.by \notin Ids[read.of]
  BY DEF OwnerFound
<1>2. /\ view[v] \in PageRecords /\ read \in Reads /\ view[v].asked \subseteq Reads
  BY DEF PagesTypeOK, PageRecords
<1>3. /\ ListOf(read.of, read.by) \in Reads
      /\ NeedsOnly(ListOf(read.of, read.by), view[v].id)
  BY <1>2, ReadFacts DEF Reads
<1>4. asked \in SUBSET Reads /\ \A q \in asked : NeedsOnly(q, view[v].id)
  BY <1>2, <1>3 DEF ReadsAbout
<1>5. view[v].page # "job"
  <2> SUFFICES ASSUME view[v].page = "job" PROVE FALSE
    OBVIOUS
  <2>1. /\ RowOf("job", view[v].id).of = "job" /\ RowOf("job", view[v].id).by = view[v].id
        /\ ~Caught(ListOf("output", view[v].id)).needs
        /\ \A m : Caught(RowOf("mission", m)).of = "mission" /\ Caught(RowOf("mission", m)).by = m
    BY DEF RowOf, ListOf, Caught, ReadOf
  <2> QED BY <1>1, <2>1, JobReads
<1> HIDE DEF asked
<1>6. view' = [view EXCEPT ![v] = r]
  BY <1>1, <1>2 DEF PagesTypeOK, PageRecords, asked
<1>7. /\ r \in PageRecords /\ r.page = view[v].page /\ r.id = view[v].id /\ r.asked = asked
      /\ r.got = view[v].got /\ r.at = view[v].at /\ r.owed = view[v].owed
  BY <1>2, <1>4 DEF PageRecords
<1> HIDE DEF r
<1>8. /\ \A a \in r.got : a.rows \subseteq Ids[a.read.of] /\ \A i \in a.rows : Known(i)
      /\ \A q \in r.asked : NeedsOnly(q, view[v].id)
      /\ r.at = "missing" => ~kept[v]
  BY <1>4, <1>7 DEF ViewsKnow, ReadsAbout, MissingIsDeleted
<1>9. addresses' \subseteq Rows /\ \A i \in addresses' : Known(i)
  BY <1>1 DEF ViewsKnow, PagesTypeOK
<1>10. r.page # "job"
  BY <1>5, <1>7
<1> QED BY <1>1, <1>6, <1>7, <1>8, <1>9, <1>10, PageStep

\* The invariant holds at first ...
LEMMA PagesStart == PagesInit => PagesInv
<1> SUFFICES ASSUME PagesInit PROVE PagesInv
  OBVIOUS
<1> USE IdsFacts
<1>1. /\ there = {Tenant} /\ complete = {} /\ addresses = {Tenant}
      /\ above = [i \in Rows |-> IF i = Tenant THEN {Tenant} ELSE {}]
      /\ slug = [w \in Ids["workspace"] |-> NoSlug]
      /\ view = [v \in Views |-> NoView] /\ draft = [v \in Views |-> NoForm]
      /\ kept = [v \in Views |-> FALSE]
  BY DEF PagesInit
<1>2. above[Tenant] = {Tenant} /\ \A i \in Rows \ {Tenant} : above[i] = {}
  BY <1>1
<1>3. NoView \in PageRecords
  BY DEF NoView, PageRecords, About
<1>4. NoForm \in FormRecords /\ UsesWhatItMade(NoForm) /\ FormFits(NoForm)
  BY DEF NoForm, FormRecords, UsesWhatItMade, FormFits
<1>6. PagesTypeOK
  BY <1>1, <1>3, <1>4 DEF PagesTypeOK
<1>7. Lineage
  BY <1>1, <1>2 DEF Lineage, Known
<1>8. JobsAbove
  <2>1. Tenant \notin Ids["job"] /\ Tenant \notin Ids["output"]
    OBVIOUS
  <2>2. \A i \in Rows : above[i] \cap Ids["job"] = {}
    BY <1>2, <2>1
  <2> QED BY <2>2 DEF JobsAbove
<1>10. \A v \in Views : /\ view[v].page = "dashboard" /\ view[v].id = Tenant /\ view[v].at = "away"
                        /\ view[v].asked = {} /\ view[v].got = {} /\ ~kept[v]
                        /\ draft[v] = NoForm /\ draft[v].under = Tenant
  BY <1>1 DEF NoView, NoForm
<1>11. ViewsKnow
  <2>1. About["dashboard"] = "organisation" /\ Tenant \in Ids["organisation"]
    BY PagesAssumption DEF About
  <2>2. \A v \in Views : view[v].id \in Ids[About[view[v].page]]
    BY <1>10, <2>1
  <2>3. above[Tenant] # {} /\ addresses = {Tenant}
    BY <1>1, <1>2
  <2>4. \A v \in Views : ~kept[v] /\ above[view[v].id] # {} /\ above[draft[v].under] # {}
    BY <1>10, <2>3
  <2> QED BY <1>10, <2>2, <2>3, <2>4 DEF ViewsKnow, Known
<1>12. ReadsAbout /\ FormsFit /\ FormsUseWhatTheyMake
  BY <1>4, <1>10 DEF ReadsAbout, FormsFit, FormsUseWhatTheyMake
<1>13. JobPages /\ MissingIsDeleted
  BY <1>10 DEF JobPages, MissingIsDeleted
<1> QED BY <1>6, <1>7, <1>8, <1>11, <1>12, <1>13 DEF PagesInv

\* ... every step keeps it ...
LEMMA PagesSteps == PagesInv /\ [PagesNext]_pagesVars => PagesInv'
<1> SUFFICES ASSUME PagesInv, [PagesNext]_pagesVars PROVE PagesInv'
  OBVIOUS
<1>1. CASE UNCHANGED pagesVars
  <2>1. UNCHANGED <<there, above, complete, slug, view, draft, addresses, kept>>
    BY <1>1 DEF pagesVars, server, browser
  <2>2. (PagesTypeOK /\ Lineage /\ JobsAbove)'
    BY <2>1 DEF PagesInv, PagesTypeOK, Lineage, JobsAbove, Known
  <2>3. (ViewsKnow /\ ReadsAbout /\ MissingIsDeleted)'
    BY <2>1 DEF PagesInv, ViewsKnow, ReadsAbout, MissingIsDeleted, Known
  <2>4. FormsFit'
    BY <2>1 DEF PagesInv, FormsFit, FormFits
  <2>5. FormsUseWhatTheyMake'
    BY <2>1 DEF PagesInv, FormsUseWhatTheyMake, UsesWhatItMade
  <2>6. JobPages'
    <3>1. \A v \in Views : JobFirst(v) => JobFirst(v)'
      BY <2>1 DEF JobFirst, JobPage
    <3>2. JobPages
      BY DEF PagesInv
    <3> QED BY <2>1, <3>1, <3>2 DEF JobPages, OutputsOf, AnswerIsWhole
  <2> QED BY <2>2, <2>3, <2>4, <2>5, <2>6 DEF PagesInv
<1>2. CASE OthersNext
  <2>1. ASSUME NEW k \in DOMAIN Holder, NEW i \in Ids[k], NEW holder \in Ids[Holder[k]],
               OthersInsert(k, i, holder)
        PROVE  PagesInv'
    BY <2>1, InsertedByOthers
  <2>2. ASSUME NEW x \in Rows, OthersRemove(x) PROVE PagesInv'
    BY <2>2, RemovedRows
  <2> QED BY <1>2, <2>1, <2>2, UpdatedByOthers DEF OthersNext
<1>3. ASSUME NEW v \in Views, ViewNext(v) PROVE PagesInv'
  <2>1. ASSUME NEW page \in DOMAIN About, NEW id \in Rows, Visit(v, page, id) PROVE PagesInv'
    BY <2>1, Visits
  <2>2. ASSUME NEW read \in view[v].asked,
               \/ OwnerFound(v, read) \/ ReadAnswered(v, read)
               \/ NotFound(v, read) \/ ReadFails(v, read)
        PROVE  PagesInv'
    BY <2>2, OwnersFound, PageAnswered, PageUnanswered
  <2> QED BY <1>3, <2>1, <2>2, FormActions, FormCreations DEF ViewNext
<1> QED BY <1>1, <1>2, <1>3 DEF PagesNext

\* ... and so it always holds.
LEMMA PagesAlways == PagesSpec => []PagesInv
BY PagesStart, PagesSteps, PTL DEF PagesSpec

(* The types of the pages' variables, for every set of rows and of views.  *)
THEOREM PagesTyping == PagesSpec => []PagesTypeOK
<1>1. PagesInv => PagesTypeOK
  BY DEF PagesInv
<1> QED BY <1>1, PagesAlways, PTL

(* What a page says of the rows is true, whatever other users, workers and *)
(* the other pages do between its reads: a page is missing only for a row  *)
(* that was deleted, a job's page that says COMPLETE shows the outputs     *)
(* there were when it read that, unless it could not read them, and a form *)
(* makes no workspace it does not use unless a call failed.                *)
THEOREM PagesTrue == PagesSpec => []PagesAreTrue
<1>1. PagesInv => PagesAreTrue
  <2> SUFFICES ASSUME PagesInv PROVE JobPageIsWhole
    BY DEF PagesInv, PagesAreTrue
  <2>1. SUFFICES ASSUME NEW v \in Views, view[v].page = "job", kept[v]
                 PROVE  \A a \in view[v].got :
                          AnswerIsWhole(a, view[v].owed)
    BY DEF JobPageIsWhole
  <2> QED BY <2>1 DEF PagesInv, JobPages
<1> QED BY <1>1, PagesAlways, PTL
=============================================================================
