--------------------------- MODULE MCMissionPage ---------------------------
(* Instances for TLC of a mission's page: its upload panel (MissionPage)    *)
(* and its launcher (GroundControl), side by side.  They share no state but *)
(* the number of photos, so a behaviour here is about one of the two.       *)
(* Files and tabs are interchangeable.                                      *)
EXTENDS MissionPage, GroundControl, TLC

CONSTANTS p1, p2, p3, aerial, nadir

\* Three points, one also under a blank identifier; and a file with a title line.
Surveyed(id) == [fields |-> 4, id |-> id, numeric |-> TRUE]
Survey == <<Surveyed(p1), Surveyed(p2), Surveyed(p3), Surveyed(BlankId)>>
TitleLine == [fields |-> 4, id |-> BlankId, numeric |-> FALSE]
NotSurveyed == <<[fields |-> 2, id |-> p1, numeric |-> TRUE]>>
Surveys == {Survey, <<TitleLine>> \o Survey, NotSurveyed}

\* Photos with the extension the worker appends, and without.
Photo(stem, ext) == [stem |-> stem, ext |-> ext]
MissionPhotos == {Photo(aerial, ".jpg"), Photo(nadir, ".jpg"), Photo(nadir, ".JPG")}
Mark(id, fields, numeric) == [fields |-> fields, id |-> id, numeric |-> numeric]
Marks(last) == <<Mark(p1, 3, TRUE), Mark(p2, 3, TRUE), Mark(p3, 3, TRUE), last>>
Spoilt == Mark(p1, 3, FALSE)
Short == Mark(p2, 2, TRUE)
Blank == Mark(BlankId, 3, FALSE)
Selections ==
  {[i \in {Photo(aerial, ""), Photo(nadir, "")} |-> Marks(Blank)],
   [i \in {Photo(aerial, ""), Photo(nadir, ".JPG")} |-> Marks(Short)],
   [i \in {Photo(aerial, ""), Photo(nadir, "")} |->
      IF i.stem = aerial THEN Marks(Spoilt) ELSE <<Short>>]}

\* What the engine may answer: with the point cloud comes its directory.
Models == {{}, {"odm_georeferencing"}, {"colmap_sparse"}, {"other"}}
EngineBundles ==
  {[paths |-> paths, models |-> models, posed |-> posed, assets |-> assets] :
     paths \in {{}, {"odm_georeferencing"}, {"odm_georeferencing", "colmap_sparse"},
                {"colmap_sparse"}},
     models \in Models,
     posed \in {MissionPhotos, MissionPhotos \ {Photo(nadir, ".jpg")}},
     assets \in {{"ORTHOMOSAIC"}, {"ORTHOMOSAIC", "POINT_CLOUD"}}}
PossibleBundles ==
  {b \in EngineBundles : /\ b.models \subseteq b.paths \cup {"other"}
                         /\ "POINT_CLOUD" \in b.assets => "odm_georeferencing" \in b.paths}

PageInit == PanelInit /\ LauncherInit
PageNext ==
  \/ LauncherInit /\ PanelNext /\ UNCHANGED launcherVars
  \/ PanelInit /\ LauncherNext /\ UNCHANGED panelVars
PageSpec == PageInit /\ [][PageNext]_<<panelVars, launcherVars>>

\* Bound: files being read at once.
FewReads == Cardinality(reads) <= 2

Symmetry == Permutations(Files) \cup Permutations(Tabs)
=============================================================================
