----------------------------- MODULE Analytics -----------------------------
(***************************************************************************)
(* What the satellite service computes: spectral indices over the bands of *)
(* a scene, and the change between two scenes.  Bands hold integers, in    *)
(* units of which Unit make a reflectance of one; nothing masks them, so   *)
(* that nodata and negative samples are computed on like any other.  An    *)
(* index value is a pair of a numerator and a denominator.                 *)
(***************************************************************************)
EXTENDS Integers, FiniteSets

CONSTANTS
  Unit,     \* the value of a band where the reflectance is one
  Pixels    \* the pixels of a raster

ASSUME AnalyticsAssumption ==
  /\ Unit \in Nat \ {0}
  /\ IsFiniteSet(Pixels)

Roles == {"red", "green", "blue", "nir", "swir1", "swir2"}
Band == [Pixels -> Int]

-----------------------------------------------------------------------------
(* Spectral indices.                                                       *)

\* INDEX_REGISTRY: the roles each index requires.
RequiredBands ==
  [NDVI |-> {"nir", "red"},   NDWI |-> {"green", "nir"},
   NDBI |-> {"swir1", "nir"}, EVI  |-> {"nir", "red", "blue"},
   SAVI |-> {"nir", "red"},   NBR  |-> {"nir", "swir2"},
   NDSI |-> {"green", "swir1"},
   BSI  |-> {"swir1", "red", "nir", "blue"}]

IndexNames == DOMAIN RequiredBands

\* Mutant: the denominator's zero is not looked at.
Ratio_Unguarded(num, den) == [num |-> num, den |-> den]

\* Element-wise division that yields 0 where the denominator is 0.
Ratio(num, den) == IF den = 0 THEN [num |-> 0, den |-> 1]
                              ELSE [num |-> num, den |-> den]
Normalised(a, b) == Ratio(a - b, a + b)

\* An index at one pixel, where v gives the value of each required role.
IndexAt(name, v) ==
  CASE name = "NDVI" -> Normalised(v.nir, v.red)
    [] name = "NDWI" -> Normalised(v.green, v.nir)
    [] name = "NDBI" -> Normalised(v.swir1, v.nir)
    [] name = "NBR"  -> Normalised(v.nir, v.swir2)
    [] name = "NDSI" -> Normalised(v.green, v.swir1)
    [] name = "BSI"  -> Normalised(v.swir1 + v.red, v.nir + v.blue)
    [] name = "SAVI" -> Ratio(3 * (v.nir - v.red), 2 * (v.nir + v.red) + Unit)
    [] name = "EVI"  -> Ratio(5 * (v.nir - v.red),
                              2 * v.nir + 12 * v.red - 15 * v.blue + 2 * Unit)

\* read_raster_bands: every band asked for exists in the raster.
Readable(raster, bands) == \A role \in DOMAIN bands : bands[role] \in DOMAIN raster
ReadBands(raster, bands) == [role \in DOMAIN bands |-> raster[bands[role]]]

\* compute_index: a known index, and every role it requires.
Computable(name, bands) == name \in IndexNames /\ RequiredBands[name] \subseteq DOMAIN bands
Samples(bands, p) == [role \in DOMAIN bands |-> bands[role][p]]
ComputeIndex(name, bands) == [p \in Pixels |-> IndexAt(name, Samples(bands, p))]

\* The "range" of the registry, [-1, 1] for every index.
InRange(value) ==
  IF value.den > 0 THEN -value.den <= value.num /\ value.num <= value.den
                   ELSE value.den <= value.num /\ value.num <= -value.den

-----------------------------------------------------------------------------
(* Change between two scenes.                                              *)

Difference(earlier, later) == [p \in Pixels |-> later[p] - earlier[p]]
Magnitude(n) == IF n < 0 THEN -n ELSE n
Increased(change, threshold) == {p \in Pixels : change[p] >= threshold}
Decreased(change, threshold) == {p \in Pixels : change[p] <= -threshold}

ThresholdMask(change, threshold) == {p \in Pixels : Magnitude(change[p]) >= threshold}

ChangeSummary(change, threshold) ==
  [changed   |-> Cardinality(ThresholdMask(change, threshold)),
   increased |-> Cardinality(Increased(change, threshold)),
   decreased |-> Cardinality(Decreased(change, threshold))]
=============================================================================
