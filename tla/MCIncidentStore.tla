---------------------------- MODULE MCIncidentStore ----------------------------
(***************************************************************************)
(* Submissions for TLC, chosen to meet in every way the two UNIQUE keys    *)
(* allow: original and other share an original hash and come from two      *)
(* tenants, original and update share an incident id, unrelated meets      *)
(* neither.                                                                *)
(***************************************************************************)
EXTENDS IncidentStore, TLC

Submission(h, i, t, ks) ==
    [original_hash |-> h, incident_id |-> i, tenant |-> t, surfaces |-> ks]

Original == Submission("h1", "i1", "acme", {"kernel", "disk"})
Other == Submission("h1", "i2", "globex", {"disk"})
Update == Submission("h2", "i1", "acme", {})
Unrelated == Submission("h3", "i3", "globex", {"kernel"})

MCSubmissions == {Original, Other, Update, Unrelated}
MCRivals == {Original, Other, Update}

\* Org mode, all of one tenant: one hash under two incident ids, so that an
\* INSERT can wait at either index.
MCOrgRivals ==
    {Submission("h1", "i1", "acme", {}), Submission("h1", "i2", "acme", {})}

MCSymmetry == Permutations(Workers) \cup Permutations(CloudIds)

================================================================================
