------------------------------- MODULE MCQueries -------------------------------
(***************************************************************************)
(* Incidents and queries for TLC.  Fingerprints: two directions an angle   *)
(* apart, one with a negative cosine to them (a temperature below zero),   *)
(* and the zero vector.                                                    *)
(***************************************************************************)
EXTENDS Queries, TLC

MCFingerprints == {"hot", "warm", "frozen", "blank"}
MCZeroVectors == {"blank"}

MCCosine ==
    [f \in MCFingerprints |-> [g \in MCFingerprints |->
        IF f = g THEN 12
        ELSE IF "frozen" \in {f, g} THEN -2
        ELSE 9]]

None == [k \in {} |-> ""]
Kernel(h) == [k \in {"kernel"} |-> h]

Incident(n, t, d, o, f, pre, post, at) ==
    [original_hash |-> n, incident_id |-> n, tenant |-> t, domain |-> d,
     outcome |-> o, fingerprint |-> f, pre |-> pre, post |-> post,
     surfaces |-> {<<"pre", k, pre[k]>> : k \in DOMAIN pre}
                    \cup {<<"post", k, post[k]>> : k \in DOMAIN post},
     submitted_at |-> at]

\* Drifted and Reverted have one fingerprint and opposite drifts; Cousin is
\* close with the right surfaces, Frost opposite with the right surfaces.
Drifted == Incident(1, "acme", "disk", "resolved", "hot", Kernel("a"), Kernel("b"), 3)
Reverted == Incident(2, "acme", "disk", "failed", "hot", Kernel("b"), Kernel("a"), 1)
Cousin == Incident(3, "acme", "disk", "resolved", "warm", None, Kernel("b"), 2)
Frost == Incident(4, "acme", "net", "resolved", "frozen", Kernel("b"), None, 4)
Blank == Incident(5, "acme", "disk", "resolved", "blank", None, None, 4)
Foreign == Incident(6, "globex", "disk", "resolved", "hot", None, None, 2)

MCSubmissions == {Drifted, Reverted, Cousin, Frost, Blank, Foreign}

Query(d, o, f, ks, n, least) ==
    [domain |-> d, outcome |-> o, fingerprint |-> f, surfaces |-> ks, limit |-> n,
     min_similarity |-> least]

\* min_similarity 4 is 0.33 of 12.
MCQueries ==
    { Query(NoFilter, NoFilter, "hot", Kernel("b"), 2, 4),
      Query("disk", NoFilter, "hot", Kernel("b"), 1, 4),
      Query("disk", "resolved", "warm", None, 2, 10),
      Query(NoFilter, NoFilter, "blank", None, 2, 0) }

MCSymmetry == Permutations(CloudIds)

================================================================================
