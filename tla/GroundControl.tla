--------------------------- MODULE GroundControl ---------------------------
(***************************************************************************)
(* Ground control, end to end.  The launcher form of a mission's page      *)
(* reads a survey file and one file of image marks per photo, launches a   *)
(* job with what it parsed, and the drone worker writes that out as text   *)
(* again, parses it a second time, triangulates the control points in the  *)
(* engine's reconstruction and fits the outputs to them.  The two parsers  *)
(* do not agree on every line.                                             *)
(*                                                                         *)
(* A file is a function from line numbers to lines, and what a parser      *)
(* keeps of it is the file on fewer of them. A line is [fields, id,        *)
(* numeric]: how many fields it splits into (0 when it is blank or a       *)
(* comment), the first one, and whether the coordinates are numbers. An    *)
(* image name is [stem, ext], ext "" when it has none. The fit itself      *)
(* (least squares) is not computed, nor is the worker's control here:      *)
(* DroneService has it.                                                    *)
(***************************************************************************)
EXTENDS FiniteSets, Integers, Sequences

CONSTANTS
  SurveyFiles,   \* contents of survey files
  MarkSelections,\* selections of mark files: functions from image names to files
  Bundles,       \* what the engine may answer: [paths, models, posed, assets]
  Photos,        \* the mission's ingested photos, image names
  BlankId,       \* the empty identifier
  Presets,       \* quality presets
  MaxLaunches    \* bound on jobs launched

ASSUME GroundControlAssumption ==
  \A files \in MarkSelections :
    /\ IsFiniteSet(DOMAIN files)
    /\ \A image \in DOMAIN files : IsFiniteSet(DOMAIN files[image])

VARIABLES
  form,          \* what the launcher holds and shows
  reads,         \* files chosen whose text is awaited
  launched       \* jobs, with what the form showed at the click

launcherVars == <<form, reads, launched>>

NoFile == <<>>
MinPhotos == 3
Modes == {"standard", "gcp_corrected"}
Fresh == [mode |-> "standard", preset |-> CHOOSE p \in Presets : TRUE,
          survey |-> NoFile, truth |-> <<>>,
          selection |-> NoFile, marks |-> <<>>, posted |-> FALSE]

LauncherInit ==
  /\ form = Fresh
  /\ reads = {}
  /\ launched = <<>>

-----------------------------------------------------------------------------
(* The form's parsers.                                                     *)

OnLines(file, numbers) == [k \in numbers |-> file[k]]

\* Not a number travels as null and keeps its line.
ParseGroundTruth(file) == OnLines(file, {k \in DOMAIN file : file[k].fields >= 4})

MarkLines(file) == {k \in DOMAIN file : file[k].fields >= 3}
ParseProjections(files) ==
  [image \in {i \in DOMAIN files : MarkLines(files[i]) # {}} |->
     OnLines(files[image], MarkLines(files[image]))]

-----------------------------------------------------------------------------
(* The form.                                                               *)

Gcp == form.mode = "gcp_corrected"
SetMode(mode) ==
  /\ form' = [form EXCEPT !.mode = mode]
  /\ UNCHANGED <<reads, launched>>

SetPreset(preset) ==
  /\ form' = [form EXCEPT !.preset = preset]
  /\ UNCHANGED <<reads, launched>>

ChooseSurvey(file) ==
  /\ Gcp
  /\ reads' = reads \cup {[kind |-> "survey", file |-> file]}
  /\ UNCHANGED <<form, launched>>

SurveyRead(file) ==
  LET read == [kind |-> "survey", file |-> file]
      parsed == ParseGroundTruth(file)
  IN
  /\ read \in reads
  /\ reads' = reads \ {read}
  /\ form' = IF DOMAIN parsed = {} THEN form
             ELSE [form EXCEPT !.survey = file, !.truth = parsed]
  /\ UNCHANGED launched

ClearSurvey ==
  /\ Gcp /\ form.survey # NoFile
  /\ form' = [form EXCEPT !.survey = NoFile, !.truth = <<>>]
  /\ UNCHANGED <<reads, launched>>

ChooseMarks(files) ==
  /\ Gcp
  /\ reads' = reads \cup {[kind |-> "marks", file |-> files]}
  /\ UNCHANGED <<form, launched>>

MarksRead(files) ==
  LET read == [kind |-> "marks", file |-> files] IN
  /\ read \in reads
  /\ reads' = reads \ {read}
  /\ form' = [form EXCEPT !.selection = files, !.marks = ParseProjections(files)]
  /\ UNCHANGED launched

ClearMarks ==
  /\ Gcp /\ form.selection # NoFile
  /\ form' = [form EXCEPT !.selection = NoFile, !.marks = <<>>]
  /\ UNCHANGED <<reads, launched>>

Insufficient == Cardinality(Photos) < MinPhotos
GcpReady ==
  ~Gcp \/ (Cardinality(DOMAIN form.truth) >= 3 /\ Cardinality(DOMAIN form.marks) >= 2)

LaunchEnabled == ~form.posted /\ ~Insufficient /\ GcpReady

\* The click, and the body it builds.  Everything may change while it is under way.
OnLaunch ==
  LET body == [mode |-> form.mode, preset |-> form.preset,
               truth |-> IF Gcp THEN form.truth ELSE <<>>,
               marks |-> IF Gcp THEN form.marks ELSE <<>>]
      screen == [mode |-> form.mode, preset |-> form.preset,
                 survey |-> form.survey, selection |-> form.selection]
  IN
  /\ LaunchEnabled
  /\ Len(launched) < MaxLaunches
  /\ form' = [form EXCEPT !.posted = TRUE]
  /\ launched' = Append(launched, [body |-> body, shown |-> screen,
                                   status |-> "posted", used |-> {}, posed |-> {}, outputs |-> {}])
  /\ UNCHANGED reads

\* The answer: with it the button is back, before the page has gone to the job's.
Answered(status) ==
  /\ form.posted
  /\ form' = [form EXCEPT !.posted = FALSE]
  /\ launched' = [launched EXCEPT ![Len(launched)].status = status]
  /\ UNCHANGED reads

\* The page is left, on its own after a launch: what is still awaited is lost.
LeavePage ==
  /\ ~form.posted
  /\ form' = Fresh
  /\ reads' = {}
  /\ UNCHANGED launched

-----------------------------------------------------------------------------
(* The worker.  A line it wrote has all its fields; one whose identifier   *)
(* is blank loses it when the line is stripped and split at blanks.        *)

ParseGcpFile(truth) == truth
ParseProjectionsFolder(marks) ==
  [image \in DOMAIN marks |->
     OnLines(marks[image], {k \in DOMAIN marks[image] : marks[image][k].id # BlankId})]

\* float() raises on the text None.
Readable(lines) == \A k \in DOMAIN lines : lines[k].numeric

\* The first candidate there is, a text model or not; else any directory with one.
Candidates == <<"odm_georeferencing", "opensfm/undistorted/reconstruction.json",
                "colmap_sparse", "sparse">>
SparseDirs(bundle) ==
  LET present == {k \in DOMAIN Candidates : Candidates[k] \in bundle.paths} IN
  IF present = {} THEN bundle.models
  ELSE {Candidates[k] : k \in {n \in present : \A o \in present : n <= o}}

\* An image is looked up with .jpg appended and as it is.
Posed(image, posed) ==
  \/ image.ext = "" /\ [image EXCEPT !.ext = ".jpg"] \in posed
  \/ image \in posed

\* The observations there are, lines and not photos, and those of a control point.
Observations(marks) == UNION {{image} \X DOMAIN marks[image] : image \in DOMAIN marks}
IdOf(marks, o) == marks[o[1]][o[2]].id
ObservationsOf(marks, id) == {o \in Observations(marks) : IdOf(marks, o) = id}
Seen(marks, id, posed) == {o \in ObservationsOf(marks, id) : Posed(o[1], posed)}
Marked(marks) ==
  {id \in {IdOf(marks, o) : o \in Observations(marks)} :
     Cardinality(ObservationsOf(marks, id)) >= 2}

\* Mutant: a point that too few reconstructed photos show is kept.
Triangulated_Unseen(marks, posed) == Marked(marks)

\* Two equations an observation, four at least.
Triangulated(marks, posed) ==
  {id \in Marked(marks) : 2 * Cardinality(Seen(marks, id, posed)) >= 4}

\* run_gcp_correction: the points the fit uses, none when it raises.
Used(body, bundle) ==
  LET truth == ParseGcpFile(body.truth)
      marks == ParseProjectionsFolder(body.marks)
      common == Triangulated(marks, bundle.posed) \cap {truth[k].id : k \in DOMAIN truth}
  IN IF /\ Readable(truth) /\ \A image \in DOMAIN marks : Readable(marks[image])
        /\ Cardinality(common) >= 3
     THEN common ELSE {}

Process(j, bundle) ==
  LET job == launched[j]
      started == DOMAIN job.body.truth # {} /\ DOMAIN job.body.marks # {} /\ ~Insufficient
  IN
  /\ job.status = "created" /\ job.body.mode = "gcp_corrected"
  /\ \E dir \in SparseDirs(bundle) \cup {"none"} :
       /\ dir = "none" <=> SparseDirs(bundle) = {}
       /\ LET used == IF started /\ dir \in bundle.models THEN Used(job.body, bundle) ELSE {} IN
          launched' = [launched EXCEPT ![j] =
            IF used = {} THEN [job EXCEPT !.status = "FAILED"]
            ELSE [job EXCEPT !.status = "COMPLETE", !.used = used,
                                   !.posed = bundle.posed, !.outputs = bundle.assets]]
  /\ UNCHANGED <<form, reads>>

-----------------------------------------------------------------------------
LauncherNext ==
  \/ \E mode \in Modes : SetMode(mode)
  \/ \E preset \in Presets : SetPreset(preset)
  \/ \E file \in SurveyFiles : ChooseSurvey(file) \/ SurveyRead(file)
  \/ \E files \in MarkSelections : ChooseMarks(files) \/ MarksRead(files)
  \/ ClearSurvey \/ ClearMarks \/ OnLaunch \/ LeavePage
  \/ \E status \in {"created", "refused"} : Answered(status)
  \/ \E j \in DOMAIN launched, bundle \in Bundles : Process(j, bundle)

LauncherSpec == LauncherInit /\ [][LauncherNext]_launcherVars

-----------------------------------------------------------------------------
(* Properties.                                                             *)

\* Its settings and its control points are those of the files the form showed.
AsShown(job) ==
  /\ job.body.mode = job.shown.mode /\ job.body.preset = job.shown.preset
  /\ job.body.mode = "gcp_corrected" =>
       /\ job.body.truth = ParseGroundTruth(job.shown.survey)
       /\ job.body.marks = ParseProjections(job.shown.selection)

\* Its outputs are fitted to three points that are surveyed and seen.
SurveyedIn(file, id) == \E k \in DOMAIN file : file[k].id = id /\ file[k].fields >= 4 /\ file[k].numeric
SeenIn(files, id, posed) == {o \in Seen(files, id, posed) : files[o[1]][o[2]].numeric}
Grounded(job) ==
  /\ Cardinality(job.used) >= 3
  /\ \A id \in job.used :
       /\ SurveyedIn(job.shown.survey, id)
       /\ Cardinality(SeenIn(job.shown.selection, id, job.posed)) >= 2

(* A launched job is the one on the screen, whatever was chosen, cleared   *)
(* or still being read when the button was clicked; and a job that         *)
(* completes has fitted its outputs to at least three control points, each *)
(* with coordinates in the survey file the form showed and marked at least *)
(* twice, in the files it showed, in photos that the engine has            *)
(* reconstructed, though both parsers have dropped lines on the way        *)
(* (onLaunch, run_gcp_correction).                                         *)
CorrectionIsGrounded ==
  \A j \in DOMAIN launched :
    /\ AsShown(launched[j])
    /\ launched[j].status = "COMPLETE" => Grounded(launched[j])
=============================================================================
