-------------------------------- MODULE Startup --------------------------------
(***************************************************************************)
(* Processes that start on one database: servers (create_app in main.py)   *)
(* and the commands init-certs and issue-client-cert, which all run        *)
(* configure_pool and ensure_schema (storage.py) before they use it.       *)
(*                                                                         *)
(* A process waits for a connection of its pool, looks whether the schema  *)
(* is there, and creates or migrates it, all in one transaction of get_db. *)
(* The statements that create the schema are one step: PostgreSQL makes    *)
(* them together or not at all, and two transactions that create the same  *)
(* object exclude each other.  An exception ends the process.  Docker      *)
(* starts a server again ("restart: unless-stopped"); a command is run     *)
(* again if whoever typed it does so.                                      *)
(***************************************************************************)
EXTENDS Naturals, FiniteSets

CONSTANTS
    Processes,      \* servers and commands
    Commands,       \* those that are init-certs or issue-client-cert
    SCHEMA_VERSION, \* the version this code writes
    ByHand,         \* whether an administrator creates the extension vector
    MaxFailures     \* bound on the errors and crashes that are nobody's doing

ASSUME CommandsAssumption == Commands \subseteq Processes
ASSUME VersionAssumption == SCHEMA_VERSION \in Nat \ {0}
ASSUME ByHandAssumption == ByHand \in BOOLEAN
ASSUME FailuresAssumption == MaxFailures \in Nat

VARIABLES
    extension,      \* the extension vector is there, committed
    tables,         \* the tables are there, schema_version among them, committed
    versions,       \* committed rows of schema_version
    tx,             \* [process -> what its open transaction has written]
    pc,             \* [process -> where it stands]
    failures        \* how many errors and crashes there were

vars == <<extension, tables, versions, tx, pc, failures>>
database == <<extension, tables, versions>>

Steps == {"down", "connect", "look", "create", "wait", "record", "version",
          "update", "commit", "up"}
Writes == {"tables", "version", "update"}

Servers == Processes \ Commands

(* A database without the schema, or with one that this or an earlier
   version of the code made; servers starting, no command typed yet. *)
Init ==
    /\ tables \in BOOLEAN
    /\ versions \in IF tables THEN {{v} : v \in 1 .. SCHEMA_VERSION} ELSE {{}}
    /\ extension = tables
    /\ tx = [p \in Processes |-> {}]
    /\ pc = [p \in Processes |-> IF p \in Commands THEN "down" ELSE "connect"]
    /\ failures = 0

Goto(p, step) == pc' = [pc EXCEPT ![p] = step]

(* Mutant of Die: nothing ends the transaction of a process that has failed. *)
DieOpen(p) == Goto(p, "down") /\ UNCHANGED tx

\* The transaction of p is rolled back and the exception ends the process.
Die(p) ==
    /\ tx' = [tx EXCEPT ![p] = {}]
    /\ Goto(p, "down")

OthersWrite(p, what) == \E q \in Processes \ {p} : what \in tx[q]

--------------------------------------------------------------------------------

(* CREATE EXTENSION vector, typed by an administrator; nothing in the
   repository does this before a process starts. *)
Prepare ==
    /\ ByHand
    /\ ~extension
    /\ extension' = TRUE
    /\ UNCHANGED <<tables, versions, tx, pc, failures>>

(* Mutant of Connect: the pool does without the type. *)
ConnectUntyped(p) ==
    /\ pc[p] = "connect"
    /\ Goto(p, "look")
    /\ UNCHANGED <<database, tx, failures>>

(* The pool hands out a connection only once on_connect has registered the
   type vector with it. *)
Connect(p) ==
    /\ pc[p] = "connect"
    /\ extension
    /\ Goto(p, "look")
    /\ UNCHANGED <<database, tx, failures>>

(* There is no such type: register_vector raises, the pool throws the
   connection away and tries again, and get_db times out. *)
PoolTimeout(p) ==
    /\ pc[p] = "connect"
    /\ ~extension
    /\ Die(p)
    /\ UNCHANGED <<database, failures>>

(* Mutant of Look: IF NOT EXISTS taken to make the look superfluous. *)
LookAway(p) ==
    /\ pc[p] = "look"
    /\ Goto(p, "create")
    /\ UNCHANGED <<database, tx, failures>>

(* SELECT EXISTS ... information_schema.tables: schema_version is there or not. *)
Look(p) ==
    /\ pc[p] = "look"
    /\ Goto(p, IF tables THEN "version" ELSE "create")
    /\ UNCHANGED <<database, tx, failures>>

(* Mutant of Create: each statement commits by itself. *)
CreateAutocommit(p) ==
    /\ pc[p] \in {"create", "wait"}
    /\ ~tables
    /\ ~OthersWrite(p, "tables")
    /\ tables' = TRUE
    /\ extension' = TRUE
    /\ Goto(p, "record")
    /\ UNCHANGED <<versions, tx, failures>>

(* The statements of _SCHEMA_STATEMENTS create what they name. *)
Create(p) ==
    /\ pc[p] \in {"create", "wait"}
    /\ ~tables
    /\ ~OthersWrite(p, "tables")
    /\ tx' = [tx EXCEPT ![p] = @ \cup {"tables"}]
    /\ Goto(p, "record")
    /\ UNCHANGED <<database, failures>>

(* IF NOT EXISTS does not see what an open transaction creates: the
   statement goes on, and waits for that transaction at the catalog's unique
   keys; *)
Await(p) ==
    /\ pc[p] = "create"
    /\ ~tables
    /\ OthersWrite(p, "tables")
    /\ Goto(p, "wait")
    /\ UNCHANGED <<database, tx, failures>>

(* when it commits, the statement fails. *)
CreateFails(p) ==
    /\ pc[p] = "wait"
    /\ tables
    /\ Die(p)
    /\ UNCHANGED <<database, failures>>

(* The schema appeared between the look and the first statement: none of
   them does anything. *)
CreateNothing(p) ==
    /\ pc[p] = "create"
    /\ tables
    /\ Goto(p, "record")
    /\ UNCHANGED <<database, tx, failures>>

(* INSERT INTO schema_version, *)
RecordVersion(p) ==
    /\ pc[p] = "record"
    /\ SCHEMA_VERSION \notin versions
    /\ ~OthersWrite(p, "version")
    /\ tx' = [tx EXCEPT ![p] = @ \cup {"version"}]
    /\ Goto(p, "commit")
    /\ UNCHANGED <<database, failures>>

(* or a violation of its primary key. *)
RecordFails(p) ==
    /\ pc[p] = "record"
    /\ SCHEMA_VERSION \in versions
    /\ Die(p)
    /\ UNCHANGED <<database, failures>>

(* Mutant of ReadVersion: a schema of any version will do. *)
ReadAnyVersion(p) ==
    /\ pc[p] = "version"
    /\ Goto(p, "commit")
    /\ UNCHANGED <<database, tx, failures>>

(* SELECT version FROM schema_version: the one row fetchone gets, 0 if there
   is none. *)
ReadVersion(p) ==
    /\ pc[p] = "version"
    /\ \E v \in IF versions = {} THEN {0} ELSE versions :
          Goto(p, IF v < SCHEMA_VERSION THEN "update" ELSE "commit")
    /\ UNCHANGED <<database, tx, failures>>

(* UPDATE schema_version SET version, which waits for another such update. *)
UpdateVersion(p) ==
    /\ pc[p] = "update"
    /\ ~OthersWrite(p, "update")
    /\ tx' = [tx EXCEPT ![p] = @ \cup {"update"}]
    /\ Goto(p, "commit")
    /\ UNCHANGED <<database, failures>>

(* Mutant of Commit: the migration counts up instead of setting the version. *)
CommitNext(p) ==
    /\ pc[p] = "commit"
    /\ tables' = (tables \/ "tables" \in tx[p])
    /\ extension' = (extension \/ "tables" \in tx[p])
    /\ versions' = {IF "update" \in tx[p] THEN v + 1 ELSE v : v \in versions}
                        \cup (IF "version" \in tx[p] THEN {SCHEMA_VERSION} ELSE {})
    /\ tx' = [tx EXCEPT ![p] = {}]
    /\ Goto(p, "up")
    /\ UNCHANGED failures

(* get_db commits, and the process uses the schema: a server for requests, a
   command to register its certificate. *)
Commit(p) ==
    /\ pc[p] = "commit"
    /\ tables' = (tables \/ "tables" \in tx[p])
    /\ extension' = (extension \/ "tables" \in tx[p])
    /\ versions' = {IF "update" \in tx[p] THEN SCHEMA_VERSION ELSE v : v \in versions}
                        \cup (IF "version" \in tx[p] THEN {SCHEMA_VERSION} ELSE {})
    /\ tx' = [tx EXCEPT ![p] = {}]
    /\ Goto(p, "up")
    /\ UNCHANGED failures

(* A database error or a crash, at any time. *)
Fail(p) ==
    /\ pc[p] # "down"
    /\ failures < MaxFailures
    /\ failures' = failures + 1
    /\ Die(p)
    /\ UNCHANGED database

(* Docker starts a server again. *)
Restart(p) ==
    /\ p \in Servers
    /\ pc[p] = "down"
    /\ Goto(p, "connect")
    /\ UNCHANGED <<database, tx, failures>>

(* Somebody types a command, for the first time or again. *)
Run(p) ==
    /\ p \in Commands
    /\ pc[p] = "down"
    /\ Goto(p, "connect")
    /\ UNCHANGED <<database, tx, failures>>

(* A command has registered its certificate and ends; a server stays. *)
Exit(p) ==
    /\ p \in Commands
    /\ pc[p] = "up"
    /\ Goto(p, "down")
    /\ UNCHANGED <<database, tx, failures>>

--------------------------------------------------------------------------------

Start(p) ==
    \/ Connect(p) \/ PoolTimeout(p)
    \/ Look(p)
    \/ Create(p) \/ Await(p) \/ CreateFails(p) \/ CreateNothing(p)
    \/ RecordVersion(p) \/ RecordFails(p)
    \/ ReadVersion(p) \/ UpdateVersion(p)
    \/ Commit(p)
    \/ Restart(p) \/ Exit(p)

Next ==
    \/ Prepare
    \/ \E p \in Processes : Start(p) \/ Run(p) \/ Fail(p)

Spec == Init /\ [][Next]_vars

(* A process that can go on does, and Docker restarts a server that ended.
   Where an administrator is to create the extension, it happens in the end.
   Nothing makes a process fail, and nobody need type a command. *)
Fairness ==
    /\ WF_vars(Prepare)
    /\ \A p \in Processes : WF_vars(Start(p))

FairSpec == Spec /\ Fairness

--------------------------------------------------------------------------------

TypeOK ==
    /\ extension \in BOOLEAN
    /\ tables \in BOOLEAN
    /\ versions \subseteq 1 .. SCHEMA_VERSION
    /\ tx \in [Processes -> SUBSET Writes]
    /\ pc \in [Processes -> Steps]
    /\ failures \in 0 .. MaxFailures

(* Whoever looks finds no schema, or a whole one with its one version row,
   although processes create it side by side and may fail half way; and a
   server that serves, or a command that registers its certificate, runs on
   the version it was made for. *)
SchemaWhole ==
    /\ tables => \E v \in versions : versions = {v}
    /\ \A p \in Processes :
          pc[p] = "up" => tables /\ versions = {SCHEMA_VERSION}

(* The transactions whose end a statement of p waits for. *)
WaitsFor(p) ==
    {q \in Processes \ {p} :
        \/ pc[p] \in {"create", "wait"} /\ "tables" \in tx[q]
        \/ pc[p] = "record" /\ "version" \in tx[q]
        \/ pc[p] = "update" /\ "update" \in tx[q]}

(* A process that waits, waits for processes that wait for nobody: whoever
   has written what another process meets has only the version row and the
   commit before it, and a process that ends, in whatever way, leaves no
   transaction behind, since get_db rolls it back (storage.py:97-99). *)
WaitsEnd ==
    \A p \in Processes : \A q \in WaitsFor(p) :
        WaitsFor(q) = {} /\ pc[q] \in {"record", "commit"}

(* The extension is an administrator's doing alone: the CREATE EXTENSION of
   _SCHEMA_STATEMENTS (storage.py:110) is never what creates it, in whatever
   order processes start, fail and start again. *)
OnlyByHand == [][~extension /\ extension' => Prepare]_vars

(* Without an administrator who creates the extension no server ever serves
   and no command ever registers on a fresh database, in whatever order
   processes start, fail and start again, and however many there are: what
   the violation of StartsUp shows of one behaviour (storage.py:62). *)
StaysDown ==
    ~ByHand /\ ~extension => [](\A p \in Processes : pc[p] # "up")

(* Every server comes up in the end and stays up ("Initialize database on
   startup", main.py:93), those too that lost the race to create the schema,
   to each other or to a command.  It holds when an administrator creates the
   extension; left to the code it does not, on a fresh database: only a
   connection of the pool could create the extension that the pool's
   connections need ("Fresh database - create schema", storage.py:221). *)
StartsUp == \A p \in Servers : <>[](pc[p] = "up")

--------------------------------------------------------------------------------

(* What SchemaWhole rests on: a transaction that creates the tables runs
   while they are not there, and is the one that records the version; *)
Transaction(p) ==
    /\ "tables" \in tx[p] => ~tables /\ pc[p] \in {"record", "commit"}
    /\ tx[p] # {} => pc[p] \in {"record", "commit"}
    /\ pc[p] \in {"create", "wait"} => ~tables \/ SCHEMA_VERSION \in versions
    /\ pc[p] = "record" =>
          \/ tx[p] = {"tables"}
          \/ tx[p] = {} /\ SCHEMA_VERSION \in versions
    /\ pc[p] = "commit" =>
          \/ tx[p] = {"tables", "version"}
          \/ tx[p] = {"update"} /\ tables
          \/ tx[p] = {} /\ tables /\ versions = {SCHEMA_VERSION}
    /\ pc[p] \in {"version", "update"} => tables

(* and only one transaction creates them at a time. *)
Creation ==
    /\ ~tables => versions = {}
    /\ \A p \in Processes : Transaction(p)
    /\ \A p \in Processes : \A q \in Processes \ {p} :
          "tables" \in tx[p] => "tables" \notin tx[q]

IInv == TypeOK /\ SchemaWhole /\ Creation

(* And OnlyByHand on this, so long as there is no extension: whoever would
   create it needs it. *)
Untyped ==
    /\ ~extension
    /\ ~tables
    /\ \A p \in Processes : pc[p] \in {"down", "connect"} /\ tx[p] = {}

--------------------------------------------------------------------------------

(* The schema as whoever looks finds it: the version fetchone gets. *)
Version == IF versions = {} THEN 0 ELSE CHOOSE v \in versions : TRUE

S == INSTANCE Schema WITH
        version <- Version,
        users <- {p \in Processes : pc[p] = "up"}

(* Starting implements the schema's promise: each step of a process is one
   of its steps or none. *)
SchemaSpec == S!Spec

================================================================================
