--------------------------- MODULE MCDroneService ---------------------------
(* Finite instances of DroneService for TLC. *)
EXTENDS DroneService

CONSTANTS j1, j2, j3, m1, r1, w1, w2, none

OneJob == {j1}
ThreeJobs == {j1, j2, j3}
OneMission == {m1}
MissionOfOne == [j \in OneJob |-> m1]
MissionOfThree == [j \in ThreeJobs |-> m1]
Photogrammetry == [j \in OneJob |-> "PHOTOGRAMMETRY"]
OneOfEach == [j \in ThreeJobs |->
  CASE j = j1 -> "PHOTOGRAMMETRY" [] j = j2 -> "GCP_PHOTOGRAMMETRY" [] j = j3 -> "EXPORT"]
OneRequest == {r1}
OneWorker == {w1}
TwoWorkers == {w1, w2}
AllFaults == FaultKinds
\* What sends a task again, and the death of a pool child, which does not.
BrokerFaults == {"crash", "redelivery", "outage", "workerLost"}
\* Figures the engine may report: none of the pipeline done, or one in each of
\* its first stages.
Start == {0}
Samples == {0, 20, 50}

\* Bound: a behaviour uses one job, of any type.
OneJobUsed ==
  Cardinality({j \in Jobs : status[j] # "UNUSED" \/ \E r \in Requests : request[r].job = j}) <= 1

\* Bound: nothing is delivered again and no main process dies while a
\* cancellation is open, nor is one opened afterwards.  No fair step is cut off:
\* those neither deliver again nor kill.
CancelledBefore ==
  (\E r \in Requests : request'[r].op = "cancelling")
    => crashes' = 0 /\ \A j \in Jobs : copies'[j] = 1

=============================================================================
