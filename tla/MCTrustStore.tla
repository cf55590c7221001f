----------------------------- MODULE MCTrustStore ------------------------------
(* Instances of TrustStore for TLC. *)
EXTENDS TrustStore, Naturals, FiniteSets, TLC

CONSTANT MaxAudit   \* states with more audit rows than this are not left

(* In global mode, whose states differ in that nothing registers itself, the
   first row ends a behaviour. *)
AuditBound == Cardinality(audit) <= (IF mode = "org" THEN MaxAudit ELSE 0)

\* Nor are those in which two dates have passed, a certificate's or a row's.
DateBound == Cardinality(expired) + Cardinality(lapsed) <= 1

Bound == AuditBound /\ DateBound

MCSymmetry == Permutations(Workers)

================================================================================
