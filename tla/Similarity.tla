------------------------------- MODULE Similarity ------------------------------
(***************************************************************************)
(* How alike a query and a stored incident are (search.py).                *)
(*                                                                         *)
(* A fingerprint vector is abstract: Cosine gives the cosine of the angle  *)
(* of any two, in parts of Unit.  It may be negative, because one          *)
(* component (temp_max_c) may be.  A vector whose components are all zero, *)
(* which is what a fingerprint with nothing but defaults has, has no       *)
(* cosine: PostgreSQL answers NaN.  Surface hashes are a function from     *)
(* surface keys to hashes; None and the empty dict are the empty function. *)
(***************************************************************************)
EXTENDS Integers, FiniteSets

CONSTANTS
    Fingerprints,   \* fingerprint vectors
    ZeroVectors,    \* those without a direction
    Cosine,         \* [fingerprint -> [fingerprint -> their cosine]]
    Unit            \* the whole: similarity 1.0

ASSUME UnitAssumption == Unit \in Nat \ {0}
ASSUME CosineAssumption == Cosine \in [Fingerprints -> [Fingerprints -> (-Unit)..Unit]]

(* Mutant of LatestSurfaces: the hashes from before the incident win. *)
EarliestSurfaces(s) ==
    [k \in DOMAIN s.pre \cup DOMAIN s.post |->
        IF k \in DOMAIN s.pre THEN s.pre[k] ELSE s.post[k]]

(* The hashes from after the incident update those from before. *)
LatestSurfaces(s) ==
    [k \in DOMAIN s.pre \cup DOMAIN s.post |->
        IF k \in DOMAIN s.post THEN s.post[k] ELSE s.pre[k]]

(* compute_surface_similarity: the share of the keys of either side on which
   both have the same hash (exact when Unit is a multiple of their number). *)
SurfaceSimilarity(q, s) ==
    LET theirs == LatestSurfaces(s)
        keys == DOMAIN q.surfaces \cup DOMAIN theirs
        matches == {k \in DOMAIN q.surfaces \cap DOMAIN theirs :
                        q.surfaces[k] = theirs[k]}
    IN  IF keys = {} THEN 0
        ELSE (Unit * Cardinality(matches)) \div Cardinality(keys)

(* 1 - (fingerprint_vector <=> query), where it is a number. *)
Comparable(q, s) == q.fingerprint \notin ZeroVectors /\ s.fingerprint \notin ZeroVectors
FingerprintSimilarity(q, s) == Cosine[q.fingerprint][s.fingerprint]

(* ORDER BY fingerprint_vector <=> query: NaN sorts last. *)
NoFarther(q, s, t) ==
    Comparable(q, t) =>
        /\ Comparable(q, s)
        /\ FingerprintSimilarity(q, s) >= FingerprintSimilarity(q, t)

(* The combined score, doubled to stay an integer: the mean of the two when
   both sides have surfaces, the fingerprint's otherwise. *)
TwiceScore(q, s) ==
    IF DOMAIN q.surfaces # {} /\ DOMAIN LatestSurfaces(s) # {}
    THEN FingerprintSimilarity(q, s) + SurfaceSimilarity(q, s)
    ELSE 2 * FingerprintSimilarity(q, s)

(* combined >= min_similarity, which no comparison with NaN is. *)
Reaches(q, s) == Comparable(q, s) /\ TwiceScore(q, s) >= 2 * q.min_similarity

(* Mutant of RanksBefore: the answer keeps the order of the statement. *)
RanksByFingerprint(q, s, t) ==
    FingerprintSimilarity(q, s) >= FingerprintSimilarity(q, t)

(* A stable sort by the combined score of rows in the order of the statement:
   s comes no later than t, unless they are equal in both. *)
RanksBefore(q, s, t) ==
    /\ TwiceScore(q, s) >= TwiceScore(q, t)
    /\ TwiceScore(q, s) = TwiceScore(q, t) =>
          FingerprintSimilarity(q, s) >= FingerprintSimilarity(q, t)

================================================================================
