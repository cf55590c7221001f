--------------------------------- MODULE Vault ---------------------------------
(***************************************************************************)
(* What storing incidents promises, whatever servers and database          *)
(* transactions carry it out (storage.py:300-313, api.py:120-124).         *)
(*                                                                         *)
(* The vault is a set of entries.  An entry is the incident, the cloud id  *)
(* given to it, and the surfaces it can be found by; it appears all at     *)
(* once and never goes.  A submission is answered with the cloud id of an  *)
(* entry: accepted, once, for the submission the entry was made from, and  *)
(* as a duplicate for any submission with the original hash of the entry.  *)
(***************************************************************************)
CONSTANTS
    Submissions,    \* requests: incident body plus the certificate's tenant
    CloudIds        \* identifiers the vault hands out

VARIABLES
    entries,        \* what the vault holds
    replies         \* every answer ever sent

vars == <<entries, replies>>

\* The entry made from submission s under cloud id c.
EntryOf(c, s) == [cloud_id |-> c, sub |-> s, surfaces |-> s.surfaces]

\* No two entries share an original hash, an incident id or a cloud id.
Fits(c, s) ==
    \A e \in entries :
        /\ e.cloud_id # c
        /\ e.sub.original_hash # s.original_hash
        /\ e.sub.incident_id # s.incident_id

Store(c, s) ==
    /\ Fits(c, s)
    /\ entries' = entries \cup {EntryOf(c, s)}
    /\ UNCHANGED replies

Accept(e) ==
    /\ \A a \in replies : a.accepted => a.sub.original_hash # e.sub.original_hash
    /\ replies' = replies \cup
            {[sub |-> e.sub, cloud_id |-> e.cloud_id, accepted |-> TRUE]}
    /\ UNCHANGED entries

Deduplicate(e, s) ==
    /\ s.original_hash = e.sub.original_hash
    /\ replies' = replies \cup
            {[sub |-> s, cloud_id |-> e.cloud_id, accepted |-> FALSE]}
    /\ UNCHANGED entries

Init == entries = {} /\ replies = {}

Next ==
    \/ \E c \in CloudIds, s \in Submissions : Store(c, s)
    \/ \E e \in entries : Accept(e)
    \/ \E e \in entries, s \in Submissions : Deduplicate(e, s)

Spec == Init /\ [][Next]_vars

--------------------------------------------------------------------------------

(* What the vault shows of an incident identifies it: no two entries share
   an original hash, an incident id or a cloud id, so a list of entries never
   has one incident twice (UNIQUE, storage.py:114-139). *)
EntriesApart ==
    \A e, f \in entries :
        \/ e.cloud_id = f.cloud_id
        \/ e.sub.original_hash = f.sub.original_hash
        \/ e.sub.incident_id = f.sub.incident_id
        => e = f

(* An answer, however old, still names an entry with the original hash the
   client submitted; an acceptance names the entry made from its submission. *)
Backed(a) ==
    \E e \in entries :
        /\ e.cloud_id = a.cloud_id
        /\ e.sub.original_hash = a.sub.original_hash
        /\ a.accepted => e.sub = a.sub

(* To its clients the vault gives each original hash one cloud id for good:
   of all answers ever sent about a hash, early and late, to whichever
   tenant, every one names the same entry, and the accepted ones are one
   ("accepted: True if newly stored, False if duplicate", storage.py:311). *)
AnswersAgree ==
    /\ \A a \in replies : Backed(a)
    /\ \A a, b \in replies : a.sub.original_hash = b.sub.original_hash =>
          /\ a.cloud_id = b.cloud_id
          /\ a.accepted /\ b.accepted => a = b

================================================================================
