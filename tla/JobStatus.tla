----------------------------- MODULE JobStatus -----------------------------
(***************************************************************************)
(* The vocabulary of a processing job: the statuses the jobs table holds,  *)
(* the ones the concurrency quota counts, the terminal ones, the job types *)
(* and their consumers, and the stage the drone worker derives from an     *)
(* engine progress figure.  Pure definitions, no state.                    *)
(***************************************************************************)
EXTENDS Naturals, Sequences, FiniteSets

\* The stages of a running photogrammetry job, in pipeline order.
PipelineStages ==
  <<"INITIALIZING", "FEATURE_EXTRACTION", "POINT_CLOUD_GENERATION",
    "SURFACE_RECONSTRUCTION", "ORTHOMOSAIC_GENERATION", "POST_PROCESSING">>

RunningStatuses == {"INITIALIZING", "FEATURE_EXTRACTION",
                    "POINT_CLOUD_GENERATION", "SURFACE_RECONSTRUCTION",
                    "ORTHOMOSAIC_GENERATION", "POST_PROCESSING"}

\* Statuses counted against the organisation's concurrent-job quota.
ActiveStatuses == {"SUBMITTED"} \cup RunningStatuses

TerminalStatuses == {"COMPLETE", "FAILED", "CANCELLED"}

\* What a job id may be while it has no committed row: an id nobody inserted
\* yet, or one whose row was deleted or whose insert was rolled back.
NoRow == {"UNUSED", "GONE"}

JobState == ActiveStatuses \cup TerminalStatuses \cup NoRow

\* Job types the drone service consumes; every other type is ignored by it.
DroneTypes == {"PHOTOGRAMMETRY", "GCP_PHOTOGRAMMETRY"}
SatelliteTypes == {"SPECTRAL_ANALYSIS", "CHANGE_DETECTION"}
OtherTypes == {"ML_OBJECT_DETECTION", "ML_SEGMENTATION",
               "THERMAL_ANALYSIS", "EXPORT"}
JobTypes == DroneTypes \cup SatelliteTypes \cup OtherTypes

MissionStatuses == {"CREATED", "UPLOADING", "READY",
                    "PROCESSING", "COMPLETED", "FAILED"}

\* The legal mission transitions of project-status.ts; staying put is legal.
MissionTransitions ==
  [CREATED    |-> {"UPLOADING", "READY", "FAILED"},
   UPLOADING  |-> {"READY", "CREATED", "FAILED"},
   READY      |-> {"PROCESSING", "UPLOADING", "FAILED"},
   PROCESSING |-> {"COMPLETED", "FAILED"},
   COMPLETED  |-> {"PROCESSING"},
   FAILED     |-> {"UPLOADING", "READY", "PROCESSING"}]

LegalMissionTransition(from, to) ==
  from = to \/ to \in MissionTransitions[from]

\* Mutant: the first two stages of the table are swapped.
ProgressStages_Swapped ==
  <<[below |-> 15,  stage |-> "POINT_CLOUD_GENERATION"],
    [below |-> 45,  stage |-> "FEATURE_EXTRACTION"],
    [below |-> 65,  stage |-> "SURFACE_RECONSTRUCTION"],
    [below |-> 85,  stage |-> "ORTHOMOSAIC_GENERATION"],
    [below |-> 101, stage |-> "POST_PROCESSING"]>>

\* The stage table: the first row whose bound exceeds the progress wins, and
\* a progress beyond every bound is post-processing.
ProgressStages ==
  <<[below |-> 15,  stage |-> "FEATURE_EXTRACTION"],
    [below |-> 45,  stage |-> "POINT_CLOUD_GENERATION"],
    [below |-> 65,  stage |-> "SURFACE_RECONSTRUCTION"],
    [below |-> 85,  stage |-> "ORTHOMOSAIC_GENERATION"],
    [below |-> 101, stage |-> "POST_PROCESSING"]>>

StageForProgress(progress) ==
  LET reached == {i \in DOMAIN ProgressStages : progress < ProgressStages[i].below}
  IN  IF reached = {}
      THEN "POST_PROCESSING"
      ELSE ProgressStages[CHOOSE i \in reached : \A k \in reached : i <= k].stage

\* Position of a running status in the pipeline; SUBMITTED comes first.
StageRank(s) ==
  IF s = "SUBMITTED" THEN 0
  ELSE CHOOSE i \in DOMAIN PipelineStages : PipelineStages[i] = s

=============================================================================
