------------------------- MODULE MCSatelliteService -------------------------
(* A finite instance of SatelliteService for TLC: two analytics jobs and one *)
(* of a type that no service runs, scenes of two pixels.                     *)
EXTENDS SatelliteService, TLC

CONSTANTS j1, j2, j3, m1, r1, r2, w1, none

AnalyticsJobs == {j1, j2, j3}
OneMission == {m1}
SameMission == [j \in AnalyticsJobs |-> m1]
AnalyticsTypes == [j \in AnalyticsJobs |->
  CASE j = j1 -> "SPECTRAL_ANALYSIS" [] j = j2 -> "CHANGE_DETECTION" [] j = j3 -> "EXPORT"]
TwoRequests == {r1, r2}
OneWorker == {w1}
TwoPixels == {1, 2}
SomeFaults == FaultKinds \ {"outage"}

\* A scene of five bands, with a pixel that is dark in all but the blue one.
Scene == << <<0, 8>>, <<2, 1>>, <<0, 2>>, <<0, 10>>, <<0, 5>> >>
Bands(roles) ==
  LET number == [nir |-> 1, blue |-> 2, green |-> 3, red |-> 4, swir1 |-> 5, swir2 |-> 6]
  IN  [role \in roles |-> number[role]]
Spectrum(index, roles) ==
  [hasKey |-> TRUE, index |-> index, raster |-> Scene, bands |-> Bands(roles)]

\* NDVI with a zero denominator and with negative samples, of both signs and of
\* one, EVI and, on snow, SAVI out of their ranges, a band the scene does not
\* have, a role that is missing, and no scene.
SomeSpectralInputs ==
  {Spectrum("NDVI", {"nir", "red"}), Spectrum("EVI", {"nir", "red", "blue"}),
   [Spectrum("NDVI", {"nir", "red"}) EXCEPT !.raster[1] = <<-5, -5>>],
   [Spectrum("SAVI", {"nir", "red"}) EXCEPT !.raster[1] = <<25, 8>>],
   Spectrum("NBR", {"nir", "swir2"}), Spectrum("NDSI", {"green"}),
   [Spectrum("NDVI", {"nir", "red"}) EXCEPT !.hasKey = FALSE]}

\* A change of exactly the threshold, one below it, and a missing band.
Detection(band, threshold) ==
  [hasKeys |-> TRUE, band |-> band, threshold |-> threshold,
   earlier |-> << <<3, 3>> >>, later |-> << <<1, 4>> >>]
SomeChangeInputs == {Detection(1, 2), Detection(1, 1), Detection(2, 1)}

\* Bound: a behaviour uses one job, or nothing was delivered twice or taken yet.
Used(j) == status[j] # "UNUSED" \/ \E r \in Requests : request[r].job = j
Taken(j) == copies[j] > 1 \/ announced[j] # {} \/ dropped[j] \ {"ignored"} # {}
            \/ crashes > 0 \/ \E w \in Workers : Job(w) = j
OneJobUsedOrNoneTaken ==
  Cardinality({j \in Jobs : Used(j)}) <= 1 \/ \A j \in Jobs : ~Taken(j)

Symmetry == Permutations(TwoRequests)
=============================================================================
