------------------------------- MODULE MCStartup -------------------------------
(* Instances of Startup for TLC: three servers, so that one can wait for
   another that creates the schema while a third comes late, and a command
   that may do any of this too, as often as it is typed. *)
EXTENDS Startup

================================================================================
