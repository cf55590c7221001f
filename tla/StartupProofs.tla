----------------------------- MODULE StartupProofs -----------------------------
(***************************************************************************)
(* Proofs about Startup for any number of processes and failures: IInv is  *)
(* inductive, and the schema is whole.                                     *)
(***************************************************************************)
EXTENDS Startup, TLAPS

(* Types are preserved by every step. *)
LEMMA TypeStep == TypeOK /\ [Next]_vars => TypeOK'
<1> SUFFICES ASSUME TypeOK, [Next]_vars
             PROVE  TypeOK'
  OBVIOUS
<1> USE CommandsAssumption, VersionAssumption, FailuresAssumption
        DEF TypeOK, Steps, Writes, database, Goto, Die
<1>1. CASE Prepare
  BY <1>1 DEF Prepare
<1>2. ASSUME NEW p \in Processes,
             \/ Connect(p) \/ PoolTimeout(p) \/ Look(p) \/ Await(p) \/ CreateFails(p)
             \/ CreateNothing(p) \/ RecordFails(p) \/ ReadVersion(p) \/ Restart(p)
             \/ Run(p) \/ Exit(p)
      PROVE  TypeOK'
  BY <1>2 DEF Connect, PoolTimeout, Look, Await, CreateFails, CreateNothing,
              RecordFails, ReadVersion, Restart, Run, Exit
<1>3. ASSUME NEW p \in Processes, Create(p) \/ RecordVersion(p) \/ UpdateVersion(p)
      PROVE  TypeOK'
  <2>1. /\ UNCHANGED <<database, failures>>
        /\ pc' \in [Processes -> Steps]
    BY <1>3 DEF Create, RecordVersion, UpdateVersion
  <2>2. PICK e \in Writes : tx' = [tx EXCEPT ![p] = @ \cup {e}]
    BY <1>3 DEF Create, RecordVersion, UpdateVersion
  <2>3. tx[p] \cup {e} \in SUBSET Writes
    OBVIOUS
  <2>4. tx' \in [Processes -> SUBSET Writes]
    BY <2>2, <2>3
  <2> QED
    BY <2>1, <2>4
<1>4. ASSUME NEW p \in Processes, Commit(p)
      PROVE  TypeOK'
  BY <1>4 DEF Commit
<1>5. ASSUME NEW p \in Processes, Fail(p)
      PROVE  TypeOK'
  BY <1>5 DEF Fail
<1>6. CASE UNCHANGED vars
  BY <1>6 DEF vars
<1> QED
  BY <1>1, <1>2, <1>3, <1>4, <1>5, <1>6 DEF Next, Start

(* A transaction that commits leaves the schema whole: it made the tables and
   their version row, or set the version, or changed nothing. *)
LEMMA CommitStep ==
  ASSUME IInv, NEW p \in Processes, Commit(p)
  PROVE  tables' /\ versions' = {SCHEMA_VERSION}
<1>1. /\ tables' = (tables \/ "tables" \in tx[p])
      /\ versions' = {IF "update" \in tx[p] THEN SCHEMA_VERSION ELSE v : v \in versions}
                        \cup (IF "version" \in tx[p] THEN {SCHEMA_VERSION} ELSE {})
  BY DEF Commit
<1>2. \/ tx[p] = {"tables", "version"} /\ versions = {}
      \/ tx[p] = {"update"} /\ tables /\ \E v \in versions : versions = {v}
      \/ tx[p] = {} /\ tables /\ versions = {SCHEMA_VERSION}
  BY DEF IInv, Creation, Transaction, SchemaWhole, Commit
<1>3. CASE tx[p] = {"tables", "version"} /\ versions = {}
  <2>1. versions' = {} \cup {SCHEMA_VERSION}
    BY <1>1, <1>3
  <2> QED
    BY <1>1, <1>3, <2>1
<1>4. CASE tx[p] = {"update"} /\ tables /\ \E v \in versions : versions = {v}
  <2>1. PICK v \in versions : versions = {v}
    BY <1>4
  <2>2. versions' = {SCHEMA_VERSION : u \in {v}} \cup {}
    BY <1>1, <1>4, <2>1
  <2> QED
    BY <1>1, <1>4, <2>2
<1>5. CASE tx[p] = {} /\ tables /\ versions = {SCHEMA_VERSION}
  <2>1. versions' = {v : v \in versions} \cup {}
    BY <1>1, <1>5
  <2> QED
    BY <1>1, <1>5, <2>1
<1> QED
  BY <1>2, <1>3, <1>4, <1>5

(* Nothing but a commit changes the schema. *)
LEMMA SchemaUnchanged ==
  ASSUME [Next]_vars, ~\E p \in Processes : Commit(p)
  PROVE  UNCHANGED <<tables, versions>>
  BY DEF Next, Start, vars, database, Prepare, Connect, PoolTimeout, Look, Create,
         Await, CreateFails, CreateNothing, RecordVersion, RecordFails,
         ReadVersion, UpdateVersion, Fail, Restart, Run, Exit

(* A whole schema stays whole. *)
LEMMA SchemaStep == IInv /\ [Next]_vars => SchemaWhole'
<1> SUFFICES ASSUME IInv, [Next]_vars
             PROVE  SchemaWhole'
  OBVIOUS
<1>1. ASSUME NEW p \in Processes, Commit(p)
      PROVE  SchemaWhole'
  BY <1>1, CommitStep DEF SchemaWhole
<1>2. CASE ~\E p \in Processes : Commit(p)
  <2>1. UNCHANGED <<tables, versions>>
    BY <1>2, SchemaUnchanged
  <2>2. \A q \in Processes : pc'[q] = "up" => pc[q] = "up"
    BY <1>2 DEF IInv, TypeOK, Next, Start, vars, Goto, Die, Prepare, Connect,
                PoolTimeout, Look, Create, Await, CreateFails, CreateNothing,
                RecordVersion, RecordFails, ReadVersion, UpdateVersion, Fail,
                Restart, Run, Exit
  <2> QED
    BY <2>1, <2>2 DEF IInv, SchemaWhole
<1> QED
  BY <1>1, <1>2

(* A step of one process leaves the transactions of the others what they
   are, a commit included: it never meets another that creates the tables. *)
LEMMA Others ==
  ASSUME IInv, [Next]_vars, NEW q \in Processes, tx'[q] = tx[q], pc'[q] = pc[q]
  PROVE  Transaction(q)'
<1>1. CASE ~\E p \in Processes : Commit(p)
  <2>1. UNCHANGED <<tables, versions>>
    BY <1>1, SchemaUnchanged
  <2> QED
    BY <2>1 DEF IInv, Creation, Transaction
<1>2. ASSUME NEW p \in Processes, Commit(p)
      PROVE  Transaction(q)'
  <2>1. tables' /\ versions' = {SCHEMA_VERSION}
    BY <1>2, CommitStep
  <2>2. p # q
    BY <1>2 DEF Commit, Goto, IInv, TypeOK
  <2>3. "tables" \notin tx[q]
    BY <1>2, <2>2 DEF Commit, IInv, Creation, Transaction
  <2>4. Transaction(q)
    BY DEF IInv, Creation
  <2> QED
    BY <2>1, <2>3, <2>4 DEF Transaction
<1> QED
  BY <1>1, <1>2

(* So does a step leave its own. *)
LEMMA Own ==
  ASSUME IInv, NEW p \in Processes, Start(p) \/ Run(p) \/ Fail(p)
  PROVE  Transaction(p)'
<1> USE DEF IInv, TypeOK, Creation, Transaction, Goto, Die, database
<1>1. CASE Connect(p) \/ Restart(p) \/ Run(p) \/ Exit(p) \/ Await(p)
  BY <1>1 DEF Connect, Restart, Run, Exit, Await
<1>2. CASE PoolTimeout(p) \/ CreateFails(p) \/ RecordFails(p) \/ Fail(p)
  BY <1>2 DEF PoolTimeout, CreateFails, RecordFails, Fail
<1>3. CASE Look(p)
  BY <1>3 DEF Look
<1>4. CASE Create(p)
  <2>1. tx[p] = {}
    BY <1>4 DEF Create
  <2>2. tx'[p] = {"tables"} /\ pc'[p] = "record" /\ UNCHANGED <<tables, versions>>
    BY <1>4, <2>1 DEF Create
  <2>3. ~tables
    BY <1>4 DEF Create
  <2> QED
    BY <2>2, <2>3
<1>5. CASE RecordVersion(p)
  <2>1. tx[p] = {"tables"}
    BY <1>5 DEF RecordVersion
  <2>2. /\ tx'[p] = {"tables", "version"}
        /\ pc'[p] = "commit"
        /\ UNCHANGED <<tables, versions>>
    BY <1>5, <2>1 DEF RecordVersion
  <2> QED
    BY <2>1, <2>2
<1>6. CASE CreateNothing(p)
  <2>1. tx[p] = {} /\ tables
    BY <1>6 DEF CreateNothing
  <2>2. SCHEMA_VERSION \in versions
    BY <1>6 DEF CreateNothing
  <2> QED
    BY <1>6, <2>1, <2>2 DEF CreateNothing
<1>7. CASE ReadVersion(p)
  <2>1. tx[p] = {} /\ tables /\ \E v \in versions : versions = {v}
    BY <1>7 DEF ReadVersion, SchemaWhole
  <2>2. PICK v \in versions : versions = {v}
    BY <2>1
  <2>3. CASE v < SCHEMA_VERSION
    BY <1>7, <2>1, <2>2, <2>3 DEF ReadVersion
  <2>4. CASE ~(v < SCHEMA_VERSION)
    <3>1. v = SCHEMA_VERSION
      BY <2>4, VersionAssumption
    <3> QED
      BY <1>7, <2>1, <2>2, <2>4, <3>1 DEF ReadVersion
  <2> QED
    BY <2>3, <2>4
<1>8. CASE UpdateVersion(p)
  <2>1. tx[p] = {} /\ tables
    BY <1>8 DEF UpdateVersion
  <2>2. tx'[p] = {"update"} /\ pc'[p] = "commit" /\ UNCHANGED <<tables, versions>>
    BY <1>8, <2>1 DEF UpdateVersion
  <2> QED
    BY <2>1, <2>2
<1>9. CASE Commit(p)
  BY <1>9 DEF Commit
<1> QED
  BY <1>1, <1>2, <1>3, <1>4, <1>5, <1>6, <1>7, <1>8, <1>9 DEF Start

(* The processes go on excluding each other. *)
LEMMA CreationStep == IInv /\ [Next]_vars => Creation'
<1> SUFFICES ASSUME IInv, [Next]_vars
             PROVE  Creation'
  OBVIOUS
<1>1. ~tables' => versions' = {}
  <2>1. CASE ~\E p \in Processes : Commit(p)
    BY <2>1, SchemaUnchanged DEF IInv, Creation
  <2> QED
    BY <2>1, CommitStep
<1>2. CASE Prepare \/ UNCHANGED vars
  <2>1. UNCHANGED <<tx, pc>>
    BY <1>2 DEF Prepare, vars
  <2> QED
    BY <1>1, <2>1, Others DEF IInv, Creation
<1>3. ASSUME NEW p \in Processes, Start(p) \/ Run(p) \/ Fail(p)
      PROVE  Creation'
  <2>1. \A q \in Processes \ {p} : tx'[q] = tx[q] /\ pc'[q] = pc[q]
    BY <1>3 DEF IInv, TypeOK, Start, Goto, Die, Connect, PoolTimeout, Look, Create,
                Await, CreateFails, CreateNothing, RecordVersion, RecordFails,
                ReadVersion, UpdateVersion, Commit, Fail, Restart, Run, Exit
  <2>2. \A q \in Processes : Transaction(q)'
    BY <1>3, <2>1, Own, Others
  <2>3. "tables" \in tx'[p] => "tables" \in tx[p] \/ ~OthersWrite(p, "tables")
    BY <1>3 DEF IInv, TypeOK, Start, Goto, Die, Connect, PoolTimeout, Look, Create,
                Await, CreateFails, CreateNothing, RecordVersion, RecordFails,
                ReadVersion, UpdateVersion, Commit, Fail, Restart, Run, Exit
  <2>4. "tables" \in tx'[p] => \A q \in Processes \ {p} : "tables" \notin tx[q]
    BY <2>3 DEF IInv, Creation, OthersWrite
  <2>5. \A r \in Processes : \A q \in Processes \ {r} :
            "tables" \in tx'[r] => "tables" \notin tx'[q]
    BY <2>1, <2>4 DEF IInv, Creation
  <2> QED
    BY <1>1, <2>2, <2>5 DEF Creation
<1> QED
  BY <1>2, <1>3 DEF Next

(* The invariant holds at first. *)
LEMMA InitHolds == Init => IInv
  BY VersionAssumption, FailuresAssumption
     DEF Init, IInv, TypeOK, SchemaWhole, Creation, Transaction, Steps

(* The inductive invariant: processes that create the schema exclude each
   other, and record the version in the transaction that makes the tables. *)
THEOREM Invariance == Spec => []IInv
<1>1. IInv /\ [Next]_vars => IInv'
  BY TypeStep, SchemaStep, CreationStep DEF IInv
<1> QED
  BY InitHolds, <1>1, PTL DEF Spec

(* Every variable of Startup keeps its type (the statements of ensure_schema). *)
THEOREM TypeCorrect == Spec => []TypeOK
<1>1. IInv => TypeOK
  BY DEF IInv
<1> QED
  BY Invariance, <1>1, PTL

(* Whoever looks finds no schema or a whole one, whichever processes run
   ensure_schema side by side and wherever they fail. *)
THEOREM WholeSchema == Spec => []SchemaWhole
<1>1. IInv => SchemaWhole
  BY DEF IInv
<1> QED
  BY Invariance, <1>1, PTL

--------------------------------------------------------------------------------

(* Waits are one step long: a process past its own writes waits for nobody. *)
THEOREM NoWaitForWaiters == Spec => []WaitsEnd
<1>1. IInv => WaitsEnd
  <2> SUFFICES ASSUME IInv, NEW p \in Processes, NEW q \in WaitsFor(p)
               PROVE  WaitsFor(q) = {} /\ pc[q] \in {"record", "commit"}
    BY DEF WaitsEnd
  <2> USE DEF WaitsFor
  <2>1. q \in Processes /\ tx[q] # {} /\ Transaction(q)
    BY DEF IInv, Creation
  <2>2. CASE pc[q] = "commit"
    BY <2>2
  <2>3. CASE pc[q] = "record"
    <3>1. tx[q] = {"tables"}
      BY <2>1, <2>3 DEF Transaction
    <3>2. ASSUME NEW r \in WaitsFor(q)
          PROVE  FALSE
      <4>1. r \in Processes \ {q} /\ "version" \in tx[r] /\ Transaction(r)
        BY <2>3, <3>2 DEF IInv, Creation
      <4>2. tx[r] = {"tables", "version"}
        BY <4>1 DEF Transaction
      <4> QED BY <2>1, <3>1, <4>1, <4>2 DEF IInv, Creation
    <3> QED BY <2>3, <3>2
  <2> QED BY <2>1, <2>2, <2>3 DEF Transaction
<1> QED
  BY Invariance, <1>1, PTL

(* Nothing but the administrator gets past the connection that no pool can
   make. *)
LEMMA UntypedStep == TypeOK /\ Untyped /\ [Next]_vars => Untyped' \/ Prepare
<1> SUFFICES ASSUME TypeOK, Untyped, [Next]_vars, ~Prepare
             PROVE  Untyped'
  OBVIOUS
<1>1. CASE UNCHANGED vars
  BY <1>1 DEF vars, Untyped
<1>2. ASSUME NEW p \in Processes,
             PoolTimeout(p) \/ Fail(p) \/ Restart(p) \/ Run(p)
      PROVE  Untyped'
  BY <1>2 DEF PoolTimeout, Fail, Restart, Run, Die, Goto, database, Untyped, TypeOK
<1>3. Next => \E p \in Processes :
                PoolTimeout(p) \/ Fail(p) \/ Restart(p) \/ Run(p)
  BY DEF Untyped, Next, Start, Exit, Connect, Look, Create, Await, CreateFails,
         CreateNothing, RecordVersion, RecordFails, ReadVersion, UpdateVersion, Commit
<1> QED
  BY <1>1, <1>2, <1>3

(* An extension that is there stays. *)
LEMMA ExtensionStays == extension /\ [Next]_vars => extension'
BY DEF Next, Start, Prepare, Connect, PoolTimeout, Look, Create, Await, CreateFails,
       CreateNothing, RecordVersion, RecordFails, ReadVersion, UpdateVersion, Commit,
       Fail, Restart, Run, Exit, database, vars

(* While there is no extension, nobody is past asking for a connection. *)
LEMMA NeedsType == Spec => [](~extension => Untyped)
<1>1. Init => (~extension => Untyped)
  BY DEF Init, Untyped
<1>2. TypeOK /\ (~extension => Untyped) /\ [Next]_vars => (~extension => Untyped)'
  BY UntypedStep, ExtensionStays DEF Prepare
<1> QED
  BY <1>1, <1>2, TypeCorrect, PTL DEF Spec

(* No process ever creates the extension, although each would. *)
THEOREM AdministratorNeeded == Spec => OnlyByHand
<1>1. TypeOK /\ (~extension => Untyped) /\ [Next]_vars
        => [~extension /\ extension' => Prepare]_vars
  BY UntypedStep DEF Untyped
<1> QED
  BY <1>1, TypeCorrect, NeedsType, PTL DEF Spec, OnlyByHand

(* On a fresh database that nobody prepares no server ever serves and no
   command ever registers: the code that creates the extension is reached only
   with it. *)
THEOREM FreshStaysDown == Spec => StaysDown
<1>1. Untyped => \A p \in Processes : pc[p] # "up"
  BY DEF Untyped
<1>2. CASE ByHand
  BY <1>2 DEF StaysDown
<1>3. CASE ~ByHand
  <2>1. ~extension /\ [~extension /\ extension' => Prepare]_vars => ~extension'
    BY <1>3 DEF Prepare, vars
  <2>2. Spec /\ ~extension => [](\A p \in Processes : pc[p] # "up")
    BY <1>1, <2>1, AdministratorNeeded, NeedsType, PTL DEF OnlyByHand
  <2> QED BY <2>2 DEF StaysDown
<1> QED
  BY <1>2, <1>3

--------------------------------------------------------------------------------

(* A commit lets its process use the schema, and brings it to this
   code's version. *)
LEMMA CommitBrings ==
  ASSUME IInv, NEW p \in Processes, Commit(p)
  PROVE  S!Bring(p)
<1>1. versions' = {SCHEMA_VERSION}
  BY CommitStep
<1>2. Version' = SCHEMA_VERSION
  BY <1>1 DEF Version
<1>3. pc[p] # "up" /\ pc' = [pc EXCEPT ![p] = "up"]
  BY DEF Commit, Goto
<1>4. {q \in Processes : pc'[q] = "up"} = {q \in Processes : pc[q] = "up"} \cup {p}
  BY <1>3 DEF IInv, TypeOK
<1> QED BY <1>2, <1>3, <1>4 DEF S!Bring

(* Every step of the processes is a step of the schema, or none. *)
LEMMA StepImplements == IInv /\ [Next]_vars => [S!Next]_(S!vars)
<1> SUFFICES ASSUME IInv, [Next]_vars
             PROVE  \/ S!Next
                    \/ /\ Version' = Version
                       /\ {p \in Processes : pc'[p] = "up"} = {p \in Processes : pc[p] = "up"}
  BY DEF S!vars
<1>1. ASSUME NEW p \in Processes, Commit(p)
      PROVE  S!Next
  BY <1>1, CommitBrings DEF S!Next
<1>2. CASE ~\E p \in Processes : Commit(p)
  <2>1. Version' = Version
    <3>1. versions' = versions
      BY <1>2, SchemaUnchanged
    <3> QED BY <3>1 DEF Version
  <2>2. ASSUME NEW p \in Processes, Fail(p) \/ Exit(p), pc[p] = "up"
        PROVE  S!Next
    <3>1. pc' = [pc EXCEPT ![p] = "down"]
      BY <2>2 DEF Fail, Exit, Die, Goto
    <3>2. {q \in Processes : pc'[q] = "up"} = {q \in Processes : pc[q] = "up"} \ {p}
      BY <3>1 DEF IInv, TypeOK
    <3> QED BY <2>1, <2>2, <3>2 DEF S!Next, S!Leave
  <2>3. CASE ~\E p \in Processes : (Fail(p) \/ Exit(p)) /\ pc[p] = "up"
    <3>1. \A q \in Processes : pc'[q] = "up" <=> pc[q] = "up"
      BY <1>2, <2>3 DEF IInv, TypeOK, Next, Start, vars, Goto, Die, Prepare, Connect,
         PoolTimeout, Look, Create, Await, CreateFails, CreateNothing,
         RecordVersion, RecordFails, ReadVersion, UpdateVersion, Fail, Restart,
         Run, Exit
    <3> QED BY <2>1, <3>1
  <2> QED BY <2>2, <2>3
<1> QED
  BY <1>1, <1>2

(* Starting side by side, servers and commands, failing and starting again
   implement the schema's promise: it appears whole, in the step in which a
   process begins to use it, and only its version changes after. *)
THEOREM Refinement == Spec => SchemaSpec
<1>1. Init => S!Init
  <2> SUFFICES ASSUME Init
               PROVE  /\ Version \in 0 .. SCHEMA_VERSION
                      /\ {p \in Processes : pc[p] = "up"} = {}
    BY DEF S!Init
  <2>1. Version \in 0 .. SCHEMA_VERSION
    BY VersionAssumption DEF Init, Version
  <2> QED BY <2>1 DEF Init
<1> QED
  BY <1>1, Invariance, StepImplements, PTL DEF Spec, SchemaSpec, S!Spec

================================================================================
