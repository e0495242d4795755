------------------------------- MODULE Viewer -------------------------------
(***************************************************************************)
(* The map viewer of the web application: which layers it shows, and the   *)
(* two effects that fetch a raster's preview and decode a point cloud when *)
(* a layer is visible and not there yet.  An effect that runs again first  *)
(* cancels what its last run has under way; a cancelled load discards its  *)
(* result and leaves no trace.                                             *)
(*                                                                         *)
(* React 19: answers only queue state; a render takes what is queued, and  *)
(* its effects run some time later with what the render saw.  A click is   *)
(* rendered and its effects run at once.                                   *)
(***************************************************************************)
EXTENDS FiniteSets

CONSTANTS
  Rasters,      \* outputs drawn as a bitmap
  Clouds,       \* outputs drawn as a point cloud
  Projected,    \* the clouds whose points are not in longitude and latitude
  HasRegion     \* the project has a region of interest

ASSUME ViewerAssumption ==
  /\ Rasters \cap Clouds = {}
  /\ Projected \subseteq Clouds
  /\ HasRegion \in BOOLEAN

VARIABLES
  visible,      \* visibleIds
  loaded,       \* previews and pointClouds
  missing,      \* missingPreviews
  loading,      \* loadingIds
  live,         \* loads that nothing has cancelled
  blind,        \* clouds whose load began when no place on the map was known
  changed,      \* a preview came in since the last render
  render,       \* the render whose cloud effect has yet to run, if any
  toggled       \* history: the user has switched a layer

vars == <<visible, loaded, missing, loading, live, blind, changed, render, toggled>>

Layers == Rasters \cup Clouds
NoRender == [pending |-> FALSE, visible |-> {}, loaded |-> {}, loading |-> {}]
Rendered == [pending |-> TRUE, visible |-> visible, loaded |-> loaded,
             loading |-> loading]

\* Mutant: a layer that is being loaded is started all the same.
Wanted_NotLoaded(seen, loadedThen, loadingThen) == seen \ loadedThen

\* The layers an effect starts to load.
Wanted(seen, loadedThen, loadingThen) ==
  {o \in seen : o \notin loadedThen \cup loadingThen}

\* Mutant: any layer on the map will do.
PlaceKnown_AnyLayer(loadedThen) == HasRegion \/ loadedThen # {}

\* refLngLat, as the effect sees it.
PlaceKnown(loadedThen) == HasRegion \/ loadedThen \cap Rasters # {}

Start(starts, kept, loadedThen) ==
  /\ live' = kept \cup starts
  /\ loading' = loading \cup starts
  /\ blind' = (blind \ starts) \cup
                {c \in starts \cap Clouds : ~PlaceKnown(loadedThen)}

Init ==
  /\ visible = Layers
  /\ loaded = {}
  /\ missing = {}
  /\ loading = Layers
  /\ live = Layers
  /\ blind = IF HasRegion THEN {} ELSE Clouds
  /\ changed = FALSE
  /\ render = NoRender
  /\ toggled = FALSE

-----------------------------------------------------------------------------
(* The answer of a load that was not cancelled.                            *)

Ends(o) ==
  /\ o \in live
  /\ live' = live \ {o}
  /\ loading' = loading \ {o}
  /\ UNCHANGED <<visible, blind, render, toggled>>

\* A preview, which the cloud effect depends on.
PreviewArrives(o) ==
  /\ o \in Rasters
  /\ Ends(o)
  /\ loaded' = loaded \cup {o}
  /\ changed' = TRUE
  /\ UNCHANGED missing

PreviewMissing(o) ==
  /\ o \in Rasters
  /\ Ends(o)
  /\ missing' = missing \cup {o}
  /\ UNCHANGED <<loaded, changed>>

\* A decoded cloud; projected points need a place to find their zone.
CloudDecoded(o) ==
  /\ o \in Clouds
  /\ o \in Projected => o \notin blind
  /\ Ends(o)
  /\ loaded' = loaded \cup {o}
  /\ UNCHANGED <<missing, changed>>

\* Any error, also a cloud without a place: a toast, and no new attempt until
\* the effect runs again.
LoadFails(o) ==
  /\ Ends(o)
  /\ UNCHANGED <<loaded, missing, changed>>

-----------------------------------------------------------------------------
Render ==
  /\ changed
  /\ ~render.pending
  /\ changed' = FALSE
  /\ render' = Rendered
  /\ UNCHANGED <<visible, loaded, missing, loading, live, blind, toggled>>

\* Mutant: the raster effect depends on the previews, too.
CloudEffect_CancelsAll ==
  /\ render.pending
  /\ Start(Wanted(render.visible, render.loaded, render.loading),
           {}, render.loaded)
  /\ render' = NoRender
  /\ UNCHANGED <<visible, loaded, missing, changed, toggled>>

\* The previews changed: the cloud effect cancels its loads and looks again.
CloudEffect ==
  /\ render.pending
  /\ Start(Wanted(render.visible \cap Clouds, render.loaded, render.loading),
           live \ Clouds, render.loaded)
  /\ render' = NoRender
  /\ UNCHANGED <<visible, loaded, missing, changed, toggled>>

\* toggleOutput: rendered at once, with whatever is queued; both effects cancel
\* their loads and look again.  A raster without a preview has no switch.
Toggle(o) ==
  LET shown == IF o \in visible THEN visible \ {o} ELSE visible \cup {o} IN
  /\ o \notin missing
  /\ ~render.pending
  /\ visible' = shown
  /\ Start(Wanted(shown \ missing, loaded, loading), {}, loaded)
  /\ changed' = FALSE
  /\ toggled' = TRUE
  /\ UNCHANGED <<loaded, missing, render>>

Answer(o) == \/ PreviewArrives(o) \/ PreviewMissing(o)
             \/ CloudDecoded(o) \/ LoadFails(o)

Next ==
  \/ \E o \in Layers : Answer(o) \/ Toggle(o)
  \/ Render
  \/ CloudEffect

\* Every load is answered, and React renders and runs its effects.
Spec ==
  /\ Init
  /\ [][Next]_vars
  /\ \A o \in Layers : WF_vars(Answer(o))
  /\ WF_vars(Render)
  /\ WF_vars(CloudEffect)

-----------------------------------------------------------------------------
(* Properties.                                                             *)

ViewerTypeOK ==
  /\ visible \subseteq Layers
  /\ loaded \subseteq Layers
  /\ missing \subseteq Rasters
  /\ loading \subseteq Layers
  /\ live \subseteq loading
  /\ blind \subseteq Clouds
  /\ changed \in BOOLEAN
  /\ render \in [pending : BOOLEAN, visible : SUBSET Layers,
                 loaded : SUBSET Layers, loading : SUBSET Layers]
  /\ toggled \in BOOLEAN

\* What is on the map is not fetched again, though an effect decides with what
\* an earlier render saw (the two loading loops).
NothingLoadedTwice == live \cap loaded = {}

\* A cloud in a projected system is only on the map when its zone could be
\* inferred, from the region or from a preview that had arrived (refLngLat).
CloudsHaveTheirZone ==
  \A c \in loaded \cap Projected : HasRegion \/ loaded \cap Rasters # {}

\* As long as the user switches no layer, every raster stops loading: it is
\* drawn, missing, or has failed with a message (the raster effect does not
\* depend on what it loads).
RastersSettle == \A o \in Rasters : o \in loading ~> o \notin loading \/ toggled

-----------------------------------------------------------------------------
\* geo-viewer.tsx: "LAZ point clouds are decoded client-side ... and drawn".  A
\* cloud that is being loaded is at some time drawn or has failed, if the user
\* switches no layer.
CloudsSettle == \A c \in Clouds : c \in loading ~> c \notin loading \/ toggled
=============================================================================
