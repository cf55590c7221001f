--------------------------------- MODULE MCPki ---------------------------------
(***************************************************************************)
(* Two runs of init-certs, one of issue-client-cert and one server.  All   *)
(* certificates are issued for one client, so that the issue meets files   *)
(* an init-certs has written, or died writing.                             *)
(***************************************************************************)
EXTENDS Pki, Naturals, TLC

MCClient == [r \in Inits \cup Issues |-> "admin"]

MCSymmetry == Permutations(Inits)

\* No more than two commands run at once, besides a server that serves.
Bound == Cardinality({r \in Runs : Busy(r) /\ pc[r] # "serving"}) <= 2

================================================================================
