------------------------- MODULE ServerProcessProofs -------------------------
(* Proofs about ServerProcess and AgentRegistry, for any servers, scripts,    *)
(* builds and lists of user agents.                                           *)
EXTENDS ServerProcess, FiniteSetTheorems, TLAPS

-----------------------------------------------------------------------------
(* The processes.                                                             *)

Phases == {"off", "owner", "migrating", "recovering", "running", "stopping", "draining",
           "failing", "closed"}
Working == {"recovering", "running", "stopping", "draining"}
Answering == {"running", "stopping", "draining"}

ProcessTypes ==
  /\ lock \in Servers \cup {None}
  /\ schema \in Seq(Nat)
  /\ phase \in [Processes -> Phases]
  /\ todo \in [Processes -> SUBSET Nat]
  /\ serving \in [Servers -> BOOLEAN]

(* A server that has begun and has not failed has the lock.                   *)
HasLock == \A p \in Servers : phase[p] \in Working \cup {"owner", "migrating"} => lock = p

InOrder == schema = [i \in 1..Len(schema) |-> i]

(* What a process found missing, and what was there, is all it needs.         *)
KnowsMissing ==
  \A p \in Processes : phase[p] = "migrating" =>
    /\ todo[p] \subseteq 1..Build[p]
    /\ 1..Build[p] \subseteq 1..Len(schema) \cup todo[p]

HasTables == \A p \in Servers : phase[p] \in Working => Build[p] <= Len(schema)
ServesOpen == \A p \in Servers : serving[p] => phase[p] \in Answering

ProcessInv == ProcessTypes /\ HasLock /\ InOrder /\ KnowsMissing /\ HasTables /\ ServesOpen

LEMMA ServersAreProcesses ==
  /\ Servers \subseteq Processes /\ Scripts \subseteq Processes
  /\ None \notin Servers
  /\ \A p \in Processes : p \in Servers \/ p \in Scripts
  /\ \A p \in Scripts : p \notin Servers
BY ProcessAssumption, RegistryAssumption DEF Processes, ProcessAssumption, RegistryAssumption

LEMMA BuildsAreNumbers == \A p \in Processes : Build[p] \in Nat
BY ProcessAssumption DEF ProcessAssumption, Processes

(* The numbers that are recorded.                                             *)
LEMMA RangeInOrder ==
  ASSUME schema \in Seq(Nat), InOrder
  PROVE  Range(schema) = 1..Len(schema) /\ Len(schema) \in Nat
BY DEF InOrder, Range

(* One process moves and nothing else of the invariant changes.               *)
LEMMA MovesKeeps ==
  ASSUME ProcessInv, NEW p \in Processes, NEW to \in Phases, Moves(p, to),
         UNCHANGED <<lock, schema, todo, serving>>,
         p \in Servers /\ to \in Working \cup {"owner", "migrating"} => lock = p,
         to = "migrating" => phase[p] = "migrating",
         p \in Servers /\ to \in Working => Build[p] <= Len(schema),
         p \in Servers /\ serving[p] => to \in Answering
  PROVE  ProcessInv'
<1>1. /\ phase' \in [Processes -> Phases] /\ phase'[p] = to
      /\ \A q \in Processes : q # p => phase'[q] = phase[q]
  BY DEF Moves, ProcessInv, ProcessTypes
<1>2. Servers \subseteq Processes
  BY ServersAreProcesses
<1>3. ProcessTypes' /\ InOrder'
  BY <1>1 DEF ProcessInv, ProcessTypes, InOrder
<1>4. HasLock' /\ HasTables' /\ ServesOpen'
  BY <1>1, <1>2 DEF ProcessInv, HasLock, HasTables, ServesOpen
<1>5. KnowsMissing'
  BY <1>1 DEF ProcessInv, KnowsMissing
<1> QED
  BY <1>3, <1>4, <1>5 DEF ProcessInv

LEMMA ProcessInit == Init => ProcessInv
<1> SUFFICES ASSUME Init PROVE ProcessInv
  OBVIOUS
<1>1. schema = <<>> /\ Len(schema) = 0 /\ schema \in Seq(Nat)
  BY DEF Init
<1>2. InOrder
  BY <1>1 DEF InOrder
<1>3. ProcessTypes
  BY <1>1 DEF Init, ProcessTypes, Phases
<1>4. HasLock /\ KnowsMissing /\ HasTables /\ ServesOpen
  BY ServersAreProcesses DEF Init, HasLock, KnowsMissing, HasTables, ServesOpen, Working, Answering
<1> QED
  BY <1>2, <1>3, <1>4 DEF ProcessInv

LEMMA BootKeeps ==
  ASSUME ProcessInv, NEW p \in Servers, Boot(p)
  PROVE  ProcessInv'
<1>1. p \in Processes /\ Servers \subseteq Processes /\ p # None /\ phase[p] = "off" /\ ~serving[p]
  BY ServersAreProcesses DEF Boot, ProcessInv, ServesOpen, Answering
<1>2. CASE ~MayOwn(p)
  BY <1>1, <1>2, MovesKeeps DEF Boot, Phases, Working, Answering
<1>3. CASE MayOwn(p)
  <2>1. /\ lock = None /\ lock' = p
        /\ phase' = [phase EXCEPT ![p] = "owner"] /\ UNCHANGED <<schema, todo, serving>>
    BY <1>3 DEF Boot, Moves, MayOwn
  <2>2. /\ phase' \in [Processes -> Phases] /\ phase'[p] = "owner"
        /\ \A q \in Processes : q # p => phase'[q] = phase[q]
    BY <1>1, <2>1 DEF ProcessInv, ProcessTypes, Phases
  <2>3. \A q \in Servers : phase[q] \notin Working \cup {"owner", "migrating"}
    BY <1>1, <2>1, ServersAreProcesses DEF ProcessInv, HasLock
  <2>4. ProcessTypes' /\ InOrder'
    BY <2>1, <2>2 DEF ProcessInv, ProcessTypes, InOrder
  <2>5. HasLock' /\ HasTables' /\ ServesOpen'
    BY <1>1, <2>1, <2>2, <2>3 DEF ProcessInv, HasLock, HasTables, ServesOpen, Working, Answering
  <2>6. KnowsMissing'
    BY <2>1, <2>2 DEF ProcessInv, KnowsMissing
  <2> QED
    BY <2>4, <2>5, <2>6 DEF ProcessInv
<1> QED
  BY <1>2, <1>3

LEMMA ReadSchemaKeeps ==
  ASSUME ProcessInv, NEW p \in Processes, ReadSchema(p)
  PROVE  ProcessInv'
<1>1. /\ phase' = [phase EXCEPT ![p] = "migrating"] /\ UNCHANGED <<lock, schema, serving>>
      /\ todo' = [todo EXCEPT ![p] = Missing(p)]
      /\ IF p \in Servers THEN phase[p] = "owner" ELSE phase[p] = "off"
  BY DEF ReadSchema, Moves
<1>2. Range(schema) = 1..Len(schema) /\ Len(schema) \in Nat /\ Build[p] \in Nat
  BY RangeInOrder, BuildsAreNumbers DEF ProcessInv, ProcessTypes
<1>3. Missing(p) \in SUBSET Nat /\ Missing(p) \subseteq 1..Build[p]
      /\ 1..Build[p] \subseteq 1..Len(schema) \cup Missing(p)
  BY <1>2 DEF Missing
<1>4. /\ phase' \in [Processes -> Phases] /\ phase'[p] = "migrating"
      /\ \A q \in Processes : q # p => phase'[q] = phase[q]
      /\ todo' \in [Processes -> SUBSET Nat] /\ todo'[p] = Missing(p)
      /\ \A q \in Processes : q # p => todo'[q] = todo[q]
  BY <1>1, <1>3 DEF ProcessInv, ProcessTypes, Phases
<1>5. ProcessTypes' /\ InOrder'
  BY <1>1, <1>4 DEF ProcessInv, ProcessTypes, InOrder
<1>6. HasLock' /\ HasTables' /\ ServesOpen'
  BY <1>1, <1>4, ServersAreProcesses
  DEF ProcessInv, HasLock, HasTables, ServesOpen, Working, Answering
<1>7. KnowsMissing'
  BY <1>1, <1>3, <1>4 DEF ProcessInv, KnowsMissing
<1> QED
  BY <1>5, <1>6, <1>7 DEF ProcessInv

LEMMA MigrateKeeps ==
  ASSUME ProcessInv, NEW p \in Processes, Migrate(p)
  PROVE  ProcessInv'
<1>1. phase[p] = "migrating" /\ UNCHANGED <<lock, serving>>
  BY DEF Migrate
<1>2. p \in Servers => ~serving[p]
  BY <1>1 DEF ProcessInv, ServesOpen, Answering
<1>3. PICK file \in todo[p] :
        /\ \A other \in todo[p] : file <= other
        /\ IF file \in Range(schema)
           THEN Fails(p) /\ UNCHANGED <<schema, todo>>
           ELSE /\ schema' = Append(schema, file)
                /\ todo' = [todo EXCEPT ![p] = @ \ {file}]
                /\ UNCHANGED phase
  BY DEF Migrate
<1>4. CASE file \in Range(schema)
  <2>1. Moves(p, IF p \in Servers THEN "failing" ELSE "off") /\ UNCHANGED <<lock, schema, todo, serving>>
    BY <1>1, <1>3, <1>4 DEF Fails
  <2> QED
    BY <1>2, <2>1, MovesKeeps DEF Phases, Working
<1>5. CASE file \notin Range(schema)
  <2> DEFINE k == Len(schema)
  <2>1. Range(schema) = 1..k /\ k \in Nat /\ Build[p] \in Nat /\ schema \in Seq(Nat)
    BY RangeInOrder, BuildsAreNumbers DEF ProcessInv, ProcessTypes
  <2>2. todo[p] \subseteq 1..Build[p] /\ 1..Build[p] \subseteq 1..k \cup todo[p]
    BY <1>1 DEF ProcessInv, KnowsMissing
  <2>3. schema' = Append(schema, file) /\ todo' = [todo EXCEPT ![p] = todo[p] \ {file}]
        /\ phase' = phase
    BY <1>3, <1>5
  <2>4. file = k + 1
    <3>1. file \in 1..Build[p] /\ file \notin 1..k
      BY <1>5, <2>1, <2>2
    <3>2. file \in Nat /\ file >= k + 1
      BY <2>1, <3>1
    <3>3. CASE file > k + 1
      <4>1. k + 1 \in 1..Build[p] /\ k + 1 \notin 1..k
        BY <2>1, <3>1, <3>2, <3>3
      <4>2. k + 1 \in todo[p]
        BY <2>2, <4>1
      <4> QED
        BY <1>3, <2>1, <3>2, <3>3, <4>2
    <3> QED
      BY <2>1, <3>2, <3>3
  <2>5. schema' \in Seq(Nat) /\ Len(schema') = k + 1
    BY <2>1, <2>3, <2>4
  <2>6. InOrder'
    <3>1. \A i \in 1..(k + 1) : schema'[i] = i
      BY <2>1, <2>3, <2>4 DEF ProcessInv, InOrder
    <3>2. DOMAIN schema' = 1..(k + 1) /\ schema' = [i \in DOMAIN schema' |-> schema'[i]]
      BY <2>5
    <3>3. schema' = [i \in 1..(k + 1) |-> i]
      BY <3>1, <3>2
    <3> QED
      BY <2>5, <3>3 DEF InOrder
  <2>7. /\ todo' \in [Processes -> SUBSET Nat] /\ todo'[p] = todo[p] \ {file}
        /\ \A q \in Processes : q # p => todo'[q] = todo[q]
    BY <2>3 DEF ProcessInv, ProcessTypes
  <2>8. ProcessTypes'
    BY <1>1, <2>3, <2>5, <2>7 DEF ProcessInv, ProcessTypes
  <2>9. HasLock' /\ ServesOpen'
    BY <1>1, <2>3 DEF ProcessInv, HasLock, ServesOpen
  <2>10. HasTables'
    BY <2>1, <2>3, <2>5, BuildsAreNumbers, ServersAreProcesses DEF ProcessInv, HasTables
  <2>11. KnowsMissing'
    <3> SUFFICES ASSUME NEW q \in Processes, phase[q] = "migrating"
                 PROVE  /\ todo'[q] \subseteq 1..Build[q]
                        /\ 1..Build[q] \subseteq 1..Len(schema') \cup todo'[q]
      BY <2>3 DEF KnowsMissing
    <3>1. todo[q] \subseteq 1..Build[q] /\ 1..Build[q] \subseteq 1..k \cup todo[q]
      BY DEF ProcessInv, KnowsMissing
    <3>2. 1..k \subseteq 1..(k + 1) /\ k + 1 \in 1..(k + 1)
      BY <2>1
    <3> QED
      BY <2>4, <2>5, <2>7, <3>1, <3>2
  <2> QED
    BY <2>6, <2>8, <2>9, <2>10, <2>11 DEF ProcessInv
<1> QED
  BY <1>4, <1>5

LEMMA MigratedKeeps ==
  ASSUME ProcessInv, NEW p \in Processes, Migrated(p)
  PROVE  ProcessInv'
<1>1. phase[p] = "migrating" /\ todo[p] = {} /\ UNCHANGED <<lock, schema, todo, serving>>
      /\ Moves(p, IF p \in Servers THEN "recovering" ELSE "off")
  BY DEF Migrated
<1>2. Len(schema) \in Nat /\ Build[p] \in Nat
  BY BuildsAreNumbers DEF ProcessInv, ProcessTypes
<1>3. 1..Build[p] \subseteq 1..Len(schema)
  BY <1>1 DEF ProcessInv, KnowsMissing
<1>4. Build[p] <= Len(schema)
  <2>1. Build[p] = 0 \/ Build[p] \in 1..Build[p]
    BY <1>2
  <2> QED
    BY <1>2, <1>3, <2>1
<1>5. p \in Servers => lock = p /\ ~serving[p]
  BY <1>1 DEF ProcessInv, HasLock, ServesOpen, Answering
<1> QED
  BY <1>1, <1>4, <1>5, MovesKeeps DEF Phases, Working

LEMMA EndsKeeps ==
  ASSUME ProcessInv, NEW p \in Servers, Ends(p)
  PROVE  ProcessInv'
<1>1. /\ phase' = [phase EXCEPT ![p] = "off"] /\ schema' = schema
      /\ lock' = (IF lock = p THEN None ELSE lock)
      /\ serving' = [serving EXCEPT ![p] = FALSE] /\ todo' = [todo EXCEPT ![p] = {}]
  BY DEF Ends, Moves
<1>2. /\ phase' \in [Processes -> Phases] /\ phase'[p] = "off"
      /\ \A q \in Processes : q # p => phase'[q] = phase[q] /\ todo'[q] = todo[q]
      /\ \A q \in Servers : q # p => serving'[q] = serving[q]
      /\ ~serving'[p] /\ serving' \in [Servers -> BOOLEAN]
      /\ todo' \in [Processes -> SUBSET Nat]
  BY <1>1, ServersAreProcesses DEF ProcessInv, ProcessTypes, Phases
<1>3. ProcessTypes' /\ InOrder'
  BY <1>1, <1>2 DEF ProcessInv, ProcessTypes, InOrder
<1>4. HasLock' /\ HasTables' /\ ServesOpen'
  BY <1>1, <1>2, ServersAreProcesses
  DEF ProcessInv, HasLock, HasTables, ServesOpen, Working, Answering
<1>5. KnowsMissing'
  BY <1>1, <1>2 DEF ProcessInv, KnowsMissing
<1> QED
  BY <1>3, <1>4, <1>5 DEF ProcessInv

LEMMA KillScriptKeeps ==
  ASSUME ProcessInv, NEW p \in Scripts, KillScript(p)
  PROVE  ProcessInv'
<1>1. /\ phase' = [phase EXCEPT ![p] = "off"] /\ UNCHANGED <<lock, schema, serving>>
      /\ todo' = [todo EXCEPT ![p] = {}]
  BY ServersAreProcesses DEF KillScript, Fails, Moves
<1>2. /\ phase' \in [Processes -> Phases] /\ phase'[p] = "off"
      /\ \A q \in Processes : q # p => phase'[q] = phase[q] /\ todo'[q] = todo[q]
      /\ todo' \in [Processes -> SUBSET Nat]
  BY <1>1, ServersAreProcesses DEF ProcessInv, ProcessTypes, Phases
<1>3. ProcessTypes' /\ InOrder'
  BY <1>1, <1>2 DEF ProcessInv, ProcessTypes, InOrder
<1>4. HasLock' /\ HasTables' /\ ServesOpen'
  BY <1>1, <1>2, ServersAreProcesses
  DEF ProcessInv, HasLock, HasTables, ServesOpen, Working, Answering
<1>5. KnowsMissing'
  BY <1>1, <1>2 DEF ProcessInv, KnowsMissing
<1> QED
  BY <1>3, <1>4, <1>5 DEF ProcessInv

LEMMA ServingKeeps ==
  ASSUME ProcessInv, NEW p \in Servers, Request(p) \/ RequestEnds(p)
  PROVE  ProcessInv'
<1>1. UNCHANGED <<lock, schema, phase, todo>>
      /\ \E b \in BOOLEAN : serving' = [serving EXCEPT ![p] = b] /\ (b => phase[p] = "running")
  BY DEF Request, RequestEnds
<1>2. PICK b \in BOOLEAN : serving' = [serving EXCEPT ![p] = b] /\ (b => phase[p] = "running")
  BY <1>1
<1>3. /\ serving' \in [Servers -> BOOLEAN] /\ serving'[p] = b
      /\ \A q \in Servers : q # p => serving'[q] = serving[q]
  BY <1>2 DEF ProcessInv, ProcessTypes
<1>4. ServesOpen'
  BY <1>1, <1>2, <1>3 DEF ProcessInv, ServesOpen, Answering
<1> QED
  BY <1>1, <1>3, <1>4
  DEF ProcessInv, ProcessTypes, HasLock, InOrder, KnowsMissing, HasTables

(* The steps of a server that only move it.                                   *)
LEMMA ServerMoves ==
  ASSUME ProcessInv, NEW p \in Servers,
         Started(p) \/ Quiesced(p) \/ Stop(p) \/ CoordinatorStopped(p) \/ CloseDatabase(p)
  PROVE  ProcessInv'
<1> USE DEF Working, Answering, Phases
<1>1. p \in Processes /\ UNCHANGED <<lock, schema, todo, serving>>
  BY ServersAreProcesses DEF Started, Quiesced, Stop, CoordinatorStopped, CloseDatabase
<1>2. phase[p] \in Working => lock = p /\ Build[p] <= Len(schema)
  BY DEF ProcessInv, HasLock, HasTables
<1>3. serving[p] => phase[p] \in Answering
  BY DEF ProcessInv, ServesOpen
<1>4. CASE Started(p)
  BY <1>1, <1>2, <1>3, <1>4, MovesKeeps DEF Started
<1>5. CASE Quiesced(p)
  BY <1>1, <1>2, <1>3, <1>5, MovesKeeps DEF Quiesced
<1>6. CASE Stop(p)
  BY <1>1, <1>2, <1>3, <1>6, MovesKeeps DEF Stop
<1>7. CASE CoordinatorStopped(p)
  BY <1>1, <1>2, <1>3, <1>7, MovesKeeps DEF CoordinatorStopped
<1>8. CASE CloseDatabase(p)
  BY <1>1, <1>2, <1>3, <1>8, MovesKeeps DEF CloseDatabase
<1> QED
  BY <1>4, <1>5, <1>6, <1>7, <1>8

LEMMA StepFailsKeeps ==
  ASSUME ProcessInv, NEW p \in Processes, StepFails(p)
  PROVE  ProcessInv'
<1>1. /\ phase[p] \in {"migrating", "recovering"} /\ UNCHANGED <<lock, schema, todo, serving>>
      /\ Moves(p, IF p \in Servers THEN "failing" ELSE "off")
  BY DEF StepFails, Fails
<1>2. p \in Servers => ~serving[p]
  BY <1>1 DEF ProcessInv, ServesOpen, Answering
<1> QED
  BY <1>1, <1>2, MovesKeeps DEF Phases, Working

LEMMA ProcessUnchanged ==
  ASSUME ProcessInv, UNCHANGED <<lock, schema, phase, todo, serving>>
  PROVE  ProcessInv'
BY DEF ProcessInv, ProcessTypes, HasLock, InOrder, KnowsMissing, HasTables, ServesOpen

LEMMA ProcessStep == ProcessInv /\ [Next]_vars => ProcessInv'
<1> SUFFICES ASSUME ProcessInv, [Next]_vars PROVE ProcessInv'
  OBVIOUS
<1>1. ASSUME NEW p \in Processes, ReadSchema(p) \/ Migrate(p) \/ Migrated(p) \/ StepFails(p)
      PROVE  ProcessInv'
  BY <1>1, ReadSchemaKeeps, MigrateKeeps, MigratedKeeps, StepFailsKeeps
<1>2. ASSUME NEW p \in Scripts, KillScript(p)
      PROVE  ProcessInv'
  BY <1>2, KillScriptKeeps
<1>3. ASSUME NEW p \in Servers, Boot(p) \/ Request(p) \/ RequestEnds(p)
      PROVE  ProcessInv'
  BY <1>3, BootKeeps, ServingKeeps
<1>4. ASSUME NEW p \in Servers,
             Started(p) \/ Quiesced(p) \/ Stop(p) \/ CoordinatorStopped(p) \/ CloseDatabase(p)
      PROVE  ProcessInv'
  BY <1>4, ServerMoves
<1>5. ASSUME NEW p \in Servers, Release(p) \/ ExitTimer(p) \/ Kill(p)
      PROVE  ProcessInv'
  BY <1>5, EndsKeeps DEF Release, ExitTimer, Kill
<1>6. ASSUME NEW p \in Servers, Refreshing(p) \/ WriteError(p)
      PROVE  ProcessInv'
  BY <1>6, ProcessUnchanged DEF Refreshing, WriteError, processVars
<1>7. CASE UNCHANGED vars
  BY <1>7, ProcessUnchanged DEF vars, processVars
<1> QED
  BY <1>1, <1>2, <1>3, <1>4, <1>5, <1>6, <1>7 DEF Next

LEMMA ProcessInvariant == Spec => []ProcessInv
BY ProcessInit, ProcessStep, PTL DEF Spec

(* At most one process recovers, runs or serves, and it has every table of    *)
(* its build (start and stop of runtime.ts, runMigrations of connection.ts),  *)
(* however many servers and scripts try, and whenever they end.               *)
THEOREM OnlyOneOwner == Spec => []OwnerIsAlone
<1>1. ProcessInv => OwnerIsAlone
  <2> SUFFICES ASSUME ProcessInv PROVE OwnerIsAlone
    OBVIOUS
  <2>1. \A p \in Servers : Works(p) => lock = p
    BY DEF Works, Working, ProcessInv, HasLock
  <2>2. \A p \in Servers : Works(p) => 1..Build[p] \subseteq Range(schema)
    <3> SUFFICES ASSUME NEW p \in Servers, Works(p) PROVE 1..Build[p] \subseteq Range(schema)
      OBVIOUS
    <3>1. Build[p] <= Len(schema)
      BY DEF Works, Working, ProcessInv, HasTables
    <3>2. Range(schema) = 1..Len(schema) /\ Len(schema) \in Nat /\ Build[p] \in Nat
      BY RangeInOrder, BuildsAreNumbers, ServersAreProcesses DEF ProcessInv, ProcessTypes
    <3> QED
      BY <3>1, <3>2
  <2>3. \A p \in Servers : serving[p] => Works(p)
    BY DEF ProcessInv, ServesOpen, Answering, Works
  <2> QED
    BY <2>1, <2>2, <2>3 DEF OwnerIsAlone, ProcessInv, InOrder
<1> QED
  BY <1>1, ProcessInvariant, PTL

-----------------------------------------------------------------------------
(* The registry of user agents.                                               *)

Rows == [id : Ids, editor : Editors]
Entries == [editor : Editors, listed : BOOLEAN]
Up == Answering \cup {"closed"}

(* A refresh, as far as it matters what it read and for whom.                 *)
IsRefresh(r) ==
  /\ r = [target |-> r.target, page |-> r.page, seen |-> r.seen, rows |-> r.rows,
          phase |-> r.phase, aborted |-> r.aborted, accounts |-> r.accounts]
  /\ r.target \in Nat /\ r.seen \subseteq Rows /\ Agree(r.seen)
  /\ r.phase \in {"paging", "read", "staged"}

(* A refresh has read pages of the accounts connected since it began.  One    *)
(* that has read the last page belongs to the account that is connected, and  *)
(* its server runs; no other is past its pages.                               *)
RefreshOK(p) ==
  LET r == refresh[p]
  IN  r # None =>
        /\ IsRefresh(r) /\ phase[p] \in Up
        /\ r.target <= generation /\ r.accounts \subseteq r.target..generation
        /\ phase[p] # "running" => r.aborted /\ r.phase = "paging"
        /\ r.phase # "paging" => ~r.aborted /\ r.target = generation /\ r.accounts # {}
        /\ r.phase = "staged" => staging = r.seen

NamesOf == [id \in Ids |-> IF registry[id] = None THEN None ELSE registry[id].editor]

(* Only a server that has the lock shows names, and they are the stored ones. *)
NamesOK(p) == names[p] # None => phase[p] \in Up /\ lock = p /\ names[p] = NamesOf

RegistryInv ==
  /\ generation \in Nat
  /\ registry \in [Ids -> Entries \cup {None}]
  /\ DOMAIN refresh = Servers /\ refresh = [p \in Servers |-> refresh[p]]
  /\ DOMAIN names = Servers /\ names = [p \in Servers |-> names[p]]
  /\ \A p \in Servers : RefreshOK(p) /\ NamesOK(p)
  /\ RegistryIsOneReading

LEMMA RegistryBegins == Init => RegistryInv
<1> SUFFICES ASSUME Init PROVE RegistryInv
  OBVIOUS
<1> QED
  BY DEF Init, RegistryInit, RegistryInv, RefreshOK, NamesOK, RegistryIsOneReading

(* Nothing of the registry changes, and what a process moves to suits what it *)
(* has read and shows.                                                        *)
LEMMA RegistryKept ==
  ASSUME RegistryInv, UNCHANGED registryVars,
         \A q \in Servers : refresh[q] # None =>
           /\ phase'[q] \in Up
           /\ phase'[q] # "running" => refresh[q].aborted /\ refresh[q].phase = "paging",
         \A q \in Servers : names[q] # None => phase'[q] \in Up /\ lock' = q
  PROVE  RegistryInv'
<1>1. \A q \in Servers : RefreshOK(q)'
  BY DEF RegistryInv, RefreshOK, registryVars
<1>2. \A q \in Servers : NamesOK(q)'
  BY DEF RegistryInv, NamesOK, NamesOf, registryVars
<1>3. RegistryIsOneReading'
  BY DEF RegistryInv, RegistryIsOneReading, registryVars
<1> QED
  BY <1>1, <1>2, <1>3 DEF RegistryInv, registryVars

(* A process moves on that has no refresh and shows no names, or only one     *)
(* that was aborted.                                                          *)
LEMMA RegistryKeptByMove ==
  ASSUME RegistryInv, UNCHANGED registryVars, phase \in [Processes -> Phases],
         NEW p \in Processes, NEW to, Moves(p, to), lock' = lock,
         p \in Servers => phase[p] \notin Up \/ (phase[p] \in Up \ {"running"} /\ to \in Up)
  PROVE  RegistryInv'
<1>1. phase'[p] = to /\ \A q \in Processes : q # p => phase'[q] = phase[q]
  BY DEF Moves
<1>2. \A q \in Servers : q \in Processes
  BY ServersAreProcesses
<1>3. \A q \in Servers : refresh[q] # None =>
        /\ phase'[q] \in Up
        /\ phase'[q] # "running" => refresh[q].aborted /\ refresh[q].phase = "paging"
  BY <1>1, <1>2 DEF RegistryInv, RefreshOK
<1>4. \A q \in Servers : names[q] # None => phase'[q] \in Up /\ lock' = q
  BY <1>1, <1>2 DEF RegistryInv, NamesOK
<1> QED
  BY <1>3, <1>4, RegistryKept

LEMMA RegistryKeptByBoot ==
  ASSUME ProcessInv, RegistryInv, NEW p \in Servers, Boot(p)
  PROVE  RegistryInv'
<1>1. UNCHANGED registryVars /\ p \in Processes /\ phase[p] = "off" /\ phase \in [Processes -> Phases]
  BY ServersAreProcesses DEF Boot, ProcessInv, ProcessTypes
<1>2. phase[p] \notin Up
  BY <1>1 DEF Up, Answering
<1>3. CASE ~MayOwn(p)
  BY <1>1, <1>2, <1>3, RegistryKeptByMove DEF Boot
<1>4. CASE MayOwn(p)
  <2>1. lock = None /\ Moves(p, "owner")
    BY <1>4 DEF MayOwn, Boot
  <2>2. \A q \in Processes : q # p => phase'[q] = phase[q]
    BY <1>1, <2>1 DEF Moves
  <2>3. \A q \in Servers : refresh[q] # None => q # p /\ q \in Processes
    BY <1>2, ServersAreProcesses DEF RegistryInv, RefreshOK
  <2>4. \A q \in Servers : names[q] = None
    BY <2>1, ServersAreProcesses DEF RegistryInv, NamesOK
  <2>5. \A q \in Servers : refresh[q] # None =>
          /\ phase'[q] \in Up
          /\ phase'[q] # "running" => refresh[q].aborted /\ refresh[q].phase = "paging"
    BY <2>2, <2>3 DEF RegistryInv, RefreshOK
  <2> QED
    BY <1>1, <2>4, <2>5, RegistryKept
<1> QED
  BY <1>3, <1>4

LEMMA RegistryKeptByEnd ==
  ASSUME ProcessInv, RegistryInv, NEW p \in Servers, Ends(p)
  PROVE  RegistryInv'
<1>1. /\ refresh' = [refresh EXCEPT ![p] = None] /\ names' = [names EXCEPT ![p] = None]
      /\ UNCHANGED <<generation, registry, staging, reading>>
      /\ phase' = [phase EXCEPT ![p] = "off"] /\ lock' = (IF lock = p THEN None ELSE lock)
  BY DEF Ends, Forget, Moves
<1>2. \A q \in Servers : q # p =>
        phase'[q] = phase[q] /\ refresh'[q] = refresh[q] /\ names'[q] = names[q]
  BY <1>1, ServersAreProcesses DEF ProcessInv, ProcessTypes, RegistryInv
<1>3. refresh'[p] = None /\ names'[p] = None
  BY <1>1 DEF RegistryInv
<1>4. ASSUME NEW q \in Servers, q # p
      PROVE  RefreshOK(q)' /\ NamesOK(q)'
  <2>1. RefreshOK(q) /\ NamesOK(q)
    BY DEF RegistryInv
  <2>2. RefreshOK(q)'
    BY <1>1, <1>2, <1>4, <2>1 DEF RefreshOK
  <2>3. NamesOf' = NamesOf
    BY <1>1 DEF NamesOf
  <2>4. lock = q => lock' = q
    BY <1>1, <1>4
  <2>5. NamesOK(q)'
    BY <1>2, <1>4, <2>1, <2>3, <2>4 DEF NamesOK
  <2> QED
    BY <2>2, <2>5
<1>5. RefreshOK(p)' /\ NamesOK(p)'
  BY <1>3 DEF RefreshOK, NamesOK
<1>6. RegistryIsOneReading'
  BY <1>1 DEF RegistryInv, RegistryIsOneReading
<1>7. /\ DOMAIN refresh' = Servers /\ refresh' = [q \in Servers |-> refresh'[q]]
      /\ DOMAIN names' = Servers /\ names' = [q \in Servers |-> names'[q]]
  BY <1>1 DEF RegistryInv
<1> QED
  BY <1>1, <1>4, <1>5, <1>6, <1>7 DEF RegistryInv

(* One refresh goes on; only one that is alone changes what is staged.        *)
LEMMA OneRefreshChanges ==
  ASSUME RegistryInv, NEW p \in Servers, NEW r,
         refresh' = [refresh EXCEPT ![p] = r], RefreshOK(p)',
         UNCHANGED <<generation, registry, names, reading, lock>>,
         \A q \in Servers : q # p => phase'[q] = phase[q],
         names[p] # None => phase'[p] \in Up,
         \A q \in Servers : q # p /\ refresh[q] # None =>
           staging' = staging \/ refresh[q].phase = "paging"
  PROVE  RegistryInv'
<1>1. \A q \in Servers : q # p => refresh'[q] = refresh[q]
  BY DEF RegistryInv
<1>2. \A q \in Servers : q # p => RefreshOK(q)'
  BY <1>1 DEF RegistryInv, RefreshOK
<1>3. \A q \in Servers : NamesOK(q)'
  BY DEF RegistryInv, NamesOK, NamesOf
<1>4. RegistryIsOneReading'
  BY DEF RegistryInv, RegistryIsOneReading
<1>5. DOMAIN refresh' = Servers /\ refresh' = [q \in Servers |-> refresh'[q]]
  BY DEF RegistryInv
<1> QED
  BY <1>2, <1>3, <1>4, <1>5 DEF RegistryInv

LEMMA RefreshGivenUp ==
  ASSUME RegistryInv, NEW p \in Servers, GiveUp(p), UNCHANGED <<lock, phase>>,
         \A q \in Servers : q # p /\ refresh[q] # None =>
           staging' = staging \/ refresh[q].phase = "paging"
  PROVE  RegistryInv'
<1>1. refresh' = [refresh EXCEPT ![p] = None] /\ refresh'[p] = None
  BY DEF GiveUp, RegistryInv
<1>2. RefreshOK(p)'
  BY <1>1 DEF RefreshOK
<1>3. names[p] # None => phase'[p] \in Up
  BY DEF RegistryInv, NamesOK
<1> QED
  BY <1>1, <1>2, <1>3, OneRefreshChanges DEF GiveUp

(* The one refresh that is past its pages is that of the server that runs.    *)
LEMMA PastPagesIsAlone ==
  ASSUME ProcessInv, RegistryInv, NEW p \in Servers, refresh[p] # None, refresh[p].phase # "paging"
  PROVE  /\ phase[p] = "running" /\ lock = p
         /\ \A q \in Servers : q # p /\ refresh[q] # None => refresh[q].phase = "paging"
         /\ \A q \in Servers : q # p => phase[q] # "running" /\ names[q] = None
<1>1. \A q \in Servers : refresh[q] # None /\ refresh[q].phase # "paging" => phase[q] = "running"
  BY DEF RegistryInv, RefreshOK
<1>2. \A q \in Servers : phase[q] = "running" => lock = q
  BY DEF ProcessInv, HasLock, Working
<1>3. \A q \in Servers : names[q] # None => lock = q
  BY DEF RegistryInv, NamesOK
<1> QED
  BY <1>1, <1>2, <1>3

(* What a page that is accepted adds.                                         *)
LEMMA ReadAdds ==
  ASSUME NEW r, IsRefresh(r), NEW answer, answer.rows \subseteq Rows,
         Agree(r.seen \cup answer.rows)
  PROVE  /\ IsRefresh(Read(r, answer))
         /\ Read(r, answer).target = r.target /\ Read(r, answer).phase = r.phase
         /\ Read(r, answer).aborted = r.aborted
         /\ Read(r, answer).accounts = r.accounts \cup {generation}
<1> DEFINE rows == r.rows + Cardinality(answer.rows)
           page == IF IsLast(answer) THEN r.page ELSE answer.next
           seen == r.seen \cup answer.rows
           accounts == r.accounts \cup {generation}
           read == [target |-> r.target, page |-> page, seen |-> seen, rows |-> rows,
                    phase |-> r.phase, aborted |-> r.aborted, accounts |-> accounts]
           e == [r EXCEPT !.seen = seen]
           f == [e EXCEPT !.rows = rows]
           g == [f EXCEPT !.accounts = accounts]
<1>1. Read(r, answer) = [g EXCEPT !.page = page]
  BY DEF Read, IsRefresh
<1>0. seen \subseteq Rows /\ Agree(seen)
  BY DEF IsRefresh
<1> HIDE DEF rows, page, seen, accounts
<1>2. e = [target |-> r.target, page |-> r.page, seen |-> seen, rows |-> r.rows,
           phase |-> r.phase, aborted |-> r.aborted, accounts |-> r.accounts]
  BY DEF IsRefresh
<1> HIDE DEF e
<1>3. f = [target |-> r.target, page |-> r.page, seen |-> seen, rows |-> rows,
           phase |-> r.phase, aborted |-> r.aborted, accounts |-> r.accounts]
  BY <1>2
<1> HIDE DEF f
<1>4. g = [target |-> r.target, page |-> r.page, seen |-> seen, rows |-> rows,
           phase |-> r.phase, aborted |-> r.aborted, accounts |-> accounts]
  BY <1>3
<1> HIDE DEF g
<1>5. Read(r, answer) = read
  BY <1>1, <1>4
<1>6. IsRefresh(read)
  BY <1>0 DEF IsRefresh
<1> QED
  BY <1>5, <1>6 DEF accounts

LEMMA RegistryKeptByPage ==
  ASSUME ProcessInv, RegistryInv, NEW p \in Servers, NEW answer \in Answers,
         PageAnswered(p, answer), UNCHANGED <<lock, phase>>
  PROVE  RegistryInv'
<1> DEFINE r == refresh[p]
           read == Read(r, answer)
           q == IF IsLast(answer) THEN [read EXCEPT !.phase = "read"] ELSE read
<1>1. r # None /\ r.phase = "paging" /\ staging' = staging
  BY DEF PageAnswered
<1>2. CASE GiveUp(p)
  BY <1>1, <1>2, RefreshGivenUp
<1>3. CASE ~GiveUp(p)
  <2>1. /\ IsAcceptable(r, answer) /\ (IsLast(answer) => StillCurrent(r))
        /\ refresh' = [refresh EXCEPT ![p] = q]
        /\ UNCHANGED <<generation, registry, names, reading, refreshes>>
    BY <1>3 DEF PageAnswered
  <2>2. /\ IsRefresh(r) /\ phase[p] \in Up
        /\ r.target <= generation /\ r.accounts \subseteq r.target..generation
        /\ phase[p] # "running" => r.aborted
        /\ generation \in Nat /\ r.target \in Nat
    BY <1>1 DEF RegistryInv, RefreshOK, IsRefresh
  <2>3. answer.rows \subseteq Rows
    BY RegistryAssumption DEF RegistryAssumption, Rows
  <2>4. Agree(r.seen \cup answer.rows)
    BY <2>1 DEF IsAcceptable
  <2>5. /\ IsRefresh(read) /\ read.target = r.target /\ read.phase = r.phase
        /\ read.aborted = r.aborted /\ read.accounts = r.accounts \cup {generation}
    BY <2>2, <2>3, <2>4, ReadAdds
  <2>6. generation \in r.target..generation
    BY <2>2
  <2>7. refresh'[p] = q
    BY <2>1 DEF RegistryInv
  <2>12. /\ RefreshOK(p)' <=> (q # None =>
              /\ IsRefresh(q) /\ phase[p] \in Up
              /\ q.target <= generation /\ q.accounts \subseteq q.target..generation
              /\ phase[p] # "running" => q.aborted /\ q.phase = "paging"
              /\ q.phase # "paging" => ~q.aborted /\ q.target = generation /\ q.accounts # {}
              /\ q.phase = "staged" => staging' = q.seen)
    <3> HIDE DEF q
    <3> QED
      BY <2>1, <2>7 DEF RefreshOK
  <2> HIDE DEF read, r
  <2>8. ASSUME ~IsLast(answer) PROVE RefreshOK(p)'
    <3>1. q = read
      BY <2>8
    <3> QED
      BY <1>1, <2>2, <2>5, <2>6, <2>12, <3>1
  <2>9. ASSUME IsLast(answer) PROVE RefreshOK(p)'
    <3>1. q = [read EXCEPT !.phase = "read"]
      BY <2>9
    <3>2. /\ IsRefresh(q) /\ q.target = read.target /\ q.phase = "read"
          /\ q.aborted = read.aborted /\ q.accounts = read.accounts
      BY <2>5, <3>1 DEF IsRefresh
    <3>3. ~r.aborted /\ r.target = generation
      BY <2>1, <2>9 DEF StillCurrent
    <3> HIDE DEF q
    <3> QED
      BY <2>2, <2>5, <2>6, <2>12, <3>2, <3>3
  <2>10. RefreshOK(p)'
    BY <2>8, <2>9
  <2>11. names[p] # None => phase'[p] \in Up
    BY DEF RegistryInv, NamesOK
  <2> QED
    BY <1>1, <2>1, <2>10, <2>11, OneRefreshChanges
<1> QED
  BY <1>2, <1>3

(* A refresh that is aborted keeps what it has read.                          *)
LEMMA AbortKeeps ==
  ASSUME NEW r, IsRefresh(r)
  PROVE  LET q == [r EXCEPT !.aborted = TRUE]
         IN  /\ IsRefresh(q) /\ q.aborted
             /\ q.target = r.target /\ q.accounts = r.accounts /\ q.phase = r.phase
             /\ q.seen = r.seen
<1> DEFINE q == [r EXCEPT !.aborted = TRUE]
<1>0. ASSUME NEW b
      PROVE  [r EXCEPT !.aborted = b] =
               [target |-> r.target, page |-> r.page, seen |-> r.seen, rows |-> r.rows,
                phase |-> r.phase, aborted |-> b, accounts |-> r.accounts]
  BY DEF IsRefresh
<1>1. q = [target |-> r.target, page |-> r.page, seen |-> r.seen, rows |-> r.rows,
           phase |-> r.phase, aborted |-> TRUE, accounts |-> r.accounts]
  BY Zenon, <1>0
<1> HIDE DEF q
<1>2. /\ IsRefresh(q) /\ q.aborted
      /\ q.target = r.target /\ q.accounts = r.accounts /\ q.phase = r.phase
      /\ q.seen = r.seen
  BY <1>1 DEF IsRefresh
<1> QED
  BY <1>2 DEF q

LEMMA RegistryKeptByAbort ==
  ASSUME ProcessInv, RegistryInv, NEW p \in Servers, Free(p), refresh' = Aborted(p),
         UNCHANGED <<generation, registry, staging, names, reading, lock>>,
         \A q \in Servers : q # p => phase'[q] = phase[q],
         phase'[p] = phase[p] \/ (phase[p] \in Up /\ phase'[p] \in Up)
  PROVE  RegistryInv'
<1>1. names[p] # None => phase'[p] \in Up
  BY DEF RegistryInv, NamesOK
<1>2. CASE refresh[p] = None
  <2>1. refresh' = refresh /\ refresh' = [refresh EXCEPT ![p] = None]
    BY <1>2 DEF Aborted, RegistryInv
  <2>2. RefreshOK(p)'
    BY <1>2, <2>1 DEF RefreshOK
  <2> QED
    BY <1>1, <2>1, <2>2, OneRefreshChanges
<1>3. CASE refresh[p] # None
  <2> DEFINE r == refresh[p]
             q == [r EXCEPT !.aborted = TRUE]
  <2>1. refresh' = [refresh EXCEPT ![p] = q]
    BY <1>3 DEF Aborted
  <2>2. refresh'[p] = q
    BY <2>1 DEF RegistryInv
  <2>3. /\ IsRefresh(r) /\ r.phase = "paging" /\ phase[p] \in Up
        /\ r.target <= generation /\ r.accounts \subseteq r.target..generation
    BY <1>3 DEF RegistryInv, RefreshOK, Free
  <2>4. /\ IsRefresh(q) /\ q.aborted
        /\ q.target = r.target /\ q.accounts = r.accounts /\ q.phase = r.phase
    BY <2>3, AbortKeeps
  <2>5. phase'[p] \in Up
    BY <2>3
  <2> HIDE DEF r, q
  <2>6. RefreshOK(p)'
    BY <2>2, <2>3, <2>4, <2>5 DEF RefreshOK
  <2> QED
    BY <1>1, <2>1, <2>6, OneRefreshChanges
<1> QED
  BY <1>2, <1>3

LEMMA RegistryKeptByStart ==
  ASSUME ProcessInv, RegistryInv, NEW p \in Servers, phase[p] = "running", StartRefresh(p),
         UNCHANGED <<lock, phase>>
  PROVE  RegistryInv'
<1>1. refresh' = [refresh EXCEPT ![p] = NewRefresh] /\ refresh'[p] = NewRefresh
      /\ UNCHANGED <<generation, registry, staging, names, reading>>
  BY DEF StartRefresh, RegistryInv
<1>2. generation \in Nat /\ phase[p] \in Up
  BY DEF RegistryInv, Up, Answering
<1>3. /\ IsRefresh(NewRefresh) /\ NewRefresh.target = generation /\ NewRefresh.accounts = {}
      /\ NewRefresh.phase = "paging"
  BY <1>2 DEF NewRefresh, IsRefresh, Agree
<1>4. RefreshOK(p)'
  BY <1>1, <1>2, <1>3 DEF RefreshOK
<1> QED
  BY <1>1, <1>2, <1>4, OneRefreshChanges

LEMMA RegistryKeptByStage ==
  ASSUME ProcessInv, RegistryInv, NEW p \in Servers, Stage(p), UNCHANGED <<lock, phase>>
  PROVE  RegistryInv'
<1> DEFINE r == refresh[p]
           q == [r EXCEPT !.phase = "staged"]
<1>1. /\ r # None /\ r.phase = "read" /\ staging' = r.seen
      /\ refresh' = [refresh EXCEPT ![p] = q]
      /\ UNCHANGED <<generation, registry, names, reading>>
  BY DEF Stage
<1>2. /\ IsRefresh(r) /\ phase[p] \in Up /\ phase[p] = "running"
      /\ r.target <= generation /\ r.accounts \subseteq r.target..generation
      /\ ~r.aborted /\ r.target = generation /\ r.accounts # {}
  BY <1>1 DEF RegistryInv, RefreshOK
<1>3. /\ IsRefresh(q) /\ q.aborted = r.aborted /\ q.phase = "staged"
      /\ q.target = r.target /\ q.accounts = r.accounts /\ q.seen = r.seen
  BY <1>2 DEF IsRefresh
<1>4. refresh'[p] = q
  BY <1>1 DEF RegistryInv
<1>5. \A s \in Servers : s # p /\ refresh[s] # None => refresh[s].phase = "paging"
  BY <1>1, PastPagesIsAlone
<1> HIDE DEF r, q
<1>6. RefreshOK(p)'
  BY <1>1, <1>2, <1>3, <1>4 DEF RefreshOK
<1> QED
  BY <1>1, <1>2, <1>5, <1>6, OneRefreshChanges

(* What is published of a staged list is that list.                           *)
LEMMA PublishedIsStaged ==
  ASSUME registry \in [Ids -> Entries \cup {None}], staging \subseteq Rows, Agree(staging)
  PROVE  /\ Published \in [Ids -> Entries \cup {None}]
         /\ {row \in Rows : Published[row.id] = [editor |-> row.editor, listed |-> TRUE]} = staging
<1>1. ASSUME NEW id \in Ids, NEW row \in staging, row.id = id
      PROVE  Published[id] = [editor |-> row.editor, listed |-> TRUE] /\ Published[id] \in Entries
  <2> DEFINE chosen == CHOOSE other \in staging : other.id = id
  <2>1. chosen \in staging /\ chosen.id = id
    BY <1>1
  <2>2. chosen = row
    BY <1>1, <2>1 DEF Agree
  <2>3. Published[id] = [editor |-> chosen.editor, listed |-> TRUE]
    BY <1>1 DEF Published
  <2>4. row.editor \in Editors
    BY <1>1 DEF Rows
  <2> HIDE DEF chosen
  <2> QED
    BY <2>2, <2>3, <2>4 DEF Entries
<1>2. ASSUME NEW id \in Ids, ~\E row \in staging : row.id = id
      PROVE  /\ Published[id] \in Entries \cup {None}
             /\ \A editor \in Editors : Published[id] # [editor |-> editor, listed |-> TRUE]
  <2>1. Published[id] = (IF registry[id] = None THEN None ELSE [registry[id] EXCEPT !.listed = FALSE])
    BY <1>2 DEF Published
  <2>2. CASE registry[id] = None
    <3>1. \A editor \in Editors : [editor |-> editor, listed |-> TRUE] \in Entries
      BY DEF Entries
    <3>2. None \notin Entries
      BY RegistryAssumption DEF RegistryAssumption, Entries
    <3>3. Published[id] = None
      BY <2>1, <2>2
    <3>4. \A editor \in Editors : Published[id] # [editor |-> editor, listed |-> TRUE]
      BY Zenon, <3>1, <3>2, <3>3
    <3>5. Published[id] \in Entries \cup {None}
      BY <3>3
    <3> QED
      BY Zenon, <3>4, <3>5
  <2>3. CASE registry[id] # None
    <3>1. registry[id] \in Entries
      BY <2>3
    <3>2. Published[id] \in Entries /\ Published[id].listed = FALSE
      BY <2>1, <2>3, <3>1 DEF Entries
    <3>4. \A editor : Published[id] # [editor |-> editor, listed |-> TRUE]
      BY <3>2
    <3>5. Published[id] \in Entries \cup {None}
      BY <3>2
    <3> QED
      BY Zenon, <3>4, <3>5
  <2> QED
    BY <2>2, <2>3
<1>3. Published \in [Ids -> Entries \cup {None}]
  <2>1. \A id \in Ids : Published[id] \in Entries \cup {None}
    BY <1>1, <1>2
  <2>2. Published = [id \in Ids |-> Published[id]]
    BY DEF Published
  <2> QED
    BY <2>1, <2>2
<1>4. ASSUME NEW row \in Rows
      PROVE  Published[row.id] = [editor |-> row.editor, listed |-> TRUE] <=> row \in staging
  <2>1. row.id \in Ids /\ row.editor \in Editors
    BY DEF Rows
  <2>2. CASE row \in staging
    BY <1>1, <2>1, <2>2
  <2>3. CASE row \notin staging
    <3>1. CASE \E other \in staging : other.id = row.id
      <4>1. PICK other \in staging : other.id = row.id
        BY <3>1
      <4>2. Published[row.id] = [editor |-> other.editor, listed |-> TRUE]
        BY <1>1, <2>1, <4>1
      <4>3. other.editor # row.editor
        BY <2>3, <4>1 DEF Rows
      <4> QED
        BY <2>3, <4>2, <4>3
    <3>2. CASE ~\E other \in staging : other.id = row.id
      BY <1>2, <2>1, <2>3, <3>2
    <3> QED
      BY <3>1, <3>2
  <2> QED
    BY <2>2, <2>3
<1> QED
  BY <1>3, <1>4

LEMMA RegistryKeptByPublish ==
  ASSUME ProcessInv, RegistryInv, NEW p \in Servers, Publish(p), UNCHANGED <<lock, phase>>
  PROVE  RegistryInv'
<1> DEFINE r == refresh[p]
<1>1. /\ r # None /\ r.phase = "staged" /\ registry' = Published /\ staging' = {}
      /\ names' = [names EXCEPT ![p] = None]
      /\ reading' = [rows |-> r.seen, accounts |-> r.accounts]
      /\ refresh' = [refresh EXCEPT ![p] = None]
      /\ generation' = generation
  BY DEF Publish
<1>2. /\ staging = r.seen /\ r.seen \subseteq Rows /\ Agree(r.seen)
      /\ r.accounts \subseteq r.target..generation /\ r.target = generation /\ r.accounts # {}
      /\ generation \in Nat
  BY <1>1 DEF RegistryInv, RefreshOK, IsRefresh
<1>3. /\ \A q \in Servers : q # p /\ refresh[q] # None => refresh[q].phase = "paging"
      /\ \A q \in Servers : q # p => names[q] = None
  BY <1>1, PastPagesIsAlone
<1>4. /\ refresh'[p] = None /\ names'[p] = None
      /\ \A q \in Servers : q # p => refresh'[q] = refresh[q] /\ names'[q] = names[q]
      /\ DOMAIN refresh' = Servers /\ refresh' = [q \in Servers |-> refresh'[q]]
      /\ DOMAIN names' = Servers /\ names' = [q \in Servers |-> names'[q]]
  BY <1>1 DEF RegistryInv
<1>5. /\ registry' \in [Ids -> Entries \cup {None}]
      /\ {row \in Rows : registry'[row.id] = [editor |-> row.editor, listed |-> TRUE]} = r.seen
  BY <1>1, <1>2, PublishedIsStaged DEF RegistryInv
<1>6. Cardinality(r.accounts) = 1
  <2>1. r.accounts = {generation}
    BY <1>2
  <2> QED
    BY <2>1, FS_Singleton
<1> HIDE DEF r
<1>7. RegistryIsOneReading'
  BY <1>1, <1>5, <1>6 DEF RegistryIsOneReading, Rows
<1>8. ASSUME NEW q \in Servers
      PROVE  NamesOK(q)'
  BY <1>3, <1>4 DEF NamesOK
<1>9. ASSUME NEW q \in Servers
      PROVE  RefreshOK(q)'
  <2>1. CASE q = p
    BY <1>4, <2>1 DEF RefreshOK
  <2>2. CASE q # p
    BY <1>1, <1>3, <1>4, <2>2 DEF RegistryInv, RefreshOK
  <2> QED
    BY <2>1, <2>2
<1> QED
  BY <1>1, <1>2, <1>4, <1>5, <1>7, <1>8, <1>9 DEF RegistryInv

LEMMA RegistryKeptByShow ==
  ASSUME ProcessInv, RegistryInv, NEW p \in Servers, phase[p] = "running", ShowNames(p),
         UNCHANGED <<lock, phase>>
  PROVE  RegistryInv'
<1>1. names' = [names EXCEPT ![p] = NamesOf]
      /\ UNCHANGED <<generation, registry, staging, refresh, reading>>
  BY DEF ShowNames, NamesOf
<1>2. /\ names'[p] = NamesOf /\ NamesOf' = NamesOf
      /\ \A q \in Servers : q # p => names'[q] = names[q]
      /\ DOMAIN names' = Servers /\ names' = [q \in Servers |-> names'[q]]
  BY <1>1 DEF RegistryInv, NamesOf
<1>3. phase[p] \in Up /\ lock = p
  BY DEF ProcessInv, HasLock, Working, Up, Answering
<1>4. \A q \in Servers : NamesOK(q)'
  BY <1>2, <1>3 DEF RegistryInv, NamesOK
<1>5. \A q \in Servers : RefreshOK(q)'
  BY <1>1 DEF RegistryInv, RefreshOK
<1>6. RegistryIsOneReading'
  BY <1>1 DEF RegistryInv, RegistryIsOneReading
<1> QED
  BY <1>1, <1>2, <1>4, <1>5, <1>6 DEF RegistryInv

LEMMA RegistryKeptByReconnect ==
  ASSUME ProcessInv, RegistryInv, NEW p \in Servers, phase[p] = "running", Reconnect(p),
         UNCHANGED <<lock, phase>>
  PROVE  RegistryInv'
<1>1. /\ generation' = generation + 1 /\ generation \in Nat
      /\ UNCHANGED <<registry, staging, refresh, names, reading>>
  BY DEF Reconnect, RegistryInv
<1>2. ASSUME NEW q \in Servers
      PROVE  RefreshOK(q)'
  <2> DEFINE r == refresh[q]
  <2>1. RefreshOK(q)
    BY DEF RegistryInv
  <2>2. r # None => r.phase = "paging"
    <3> SUFFICES ASSUME r # None, r.phase # "paging" PROVE FALSE
      OBVIOUS
    <3>1. q = p \/ phase[p] # "running"
      BY PastPagesIsAlone
    <3> QED
      BY <3>1 DEF Reconnect, Free
  <2>3. r # None => r.target \in Nat
    BY <2>1 DEF RefreshOK, IsRefresh
  <2>4. r # None => r.target <= generation + 1 /\ r.accounts \subseteq r.target..(generation + 1)
    BY <1>1, <2>1, <2>3 DEF RefreshOK
  <2> QED
    BY <1>1, <2>1, <2>2, <2>4 DEF RefreshOK
<1>3. \A q \in Servers : NamesOK(q)'
  BY <1>1 DEF RegistryInv, NamesOK, NamesOf
<1>4. RegistryIsOneReading'
  BY <1>1 DEF RegistryInv, RegistryIsOneReading
<1> QED
  BY <1>1, <1>2, <1>3, <1>4 DEF RegistryInv

LEMMA RegistryStep == ProcessInv /\ RegistryInv /\ [Next]_vars => RegistryInv'
<1> SUFFICES ASSUME ProcessInv, RegistryInv, [Next]_vars PROVE RegistryInv'
  OBVIOUS
<1>0. phase \in [Processes -> Phases] /\ Servers \subseteq Processes
  BY ServersAreProcesses DEF ProcessInv, ProcessTypes
<1>1. ASSUME NEW p \in Processes, ReadSchema(p) \/ Migrate(p) \/ Migrated(p) \/ StepFails(p)
      PROVE  RegistryInv'
  <2>1. UNCHANGED registryVars /\ lock' = lock
    BY <1>1 DEF ReadSchema, Migrate, Migrated, StepFails
  <2>2. p \in Servers => phase[p] \notin Up
    BY <1>1 DEF ReadSchema, Migrate, Migrated, StepFails, Up, Answering
  <2>3. (\E to : Moves(p, to)) \/ phase' = phase
    BY <1>1 DEF ReadSchema, Migrate, Migrated, StepFails, Fails
  <2>4. CASE phase' = phase
    BY <1>0, <2>1, <2>4, RegistryKept DEF RegistryInv, RefreshOK, NamesOK
  <2> QED
    BY <1>0, <2>1, <2>2, <2>3, <2>4, RegistryKeptByMove
<1>2. ASSUME NEW p \in Scripts, KillScript(p)
      PROVE  RegistryInv'
  <2>1. UNCHANGED registryVars /\ lock' = lock /\ p \notin Servers /\ p \in Processes
        /\ \E to : Moves(p, to)
    BY <1>2, ServersAreProcesses DEF KillScript, Fails
  <2> QED
    BY <1>0, <2>1, RegistryKeptByMove
<1>3. ASSUME NEW p \in Servers, Boot(p)
      PROVE  RegistryInv'
  BY <1>3, RegistryKeptByBoot
<1>4. ASSUME NEW p \in Servers, Request(p) \/ RequestEnds(p)
      PROVE  RegistryInv'
  <2>1. UNCHANGED registryVars /\ lock' = lock /\ phase' = phase
    BY <1>4 DEF Request, RequestEnds
  <2> QED
    BY <2>1, RegistryKept DEF RegistryInv, RefreshOK, NamesOK
<1>5. ASSUME NEW p \in Servers, Started(p) \/ Quiesced(p) \/ CoordinatorStopped(p) \/ CloseDatabase(p)
      PROVE  RegistryInv'
  <2>1. UNCHANGED registryVars /\ lock' = lock
    BY <1>5 DEF Started, Quiesced, CoordinatorStopped, CloseDatabase
  <2>2. PICK to \in {"running", "closed", "draining"} : 
          /\ Moves(p, to)
          /\ phase[p] \notin Up \/ (phase[p] \in Up \ {"running"} /\ to \in Up)
    BY <1>5 DEF Started, Quiesced, CoordinatorStopped, CloseDatabase, Up, Answering
  <2> QED
    BY <1>0, <2>1, <2>2, RegistryKeptByMove
<1>6. ASSUME NEW p \in Servers, Stop(p)
      PROVE  RegistryInv'
  <2>1. /\ Free(p) /\ refresh' = Aborted(p) /\ phase[p] = "running"
        /\ phase' = [phase EXCEPT ![p] = "stopping"]
        /\ UNCHANGED <<generation, registry, staging, names, reading, lock>>
    BY <1>6 DEF Stop, Moves
  <2>2. /\ \A q \in Servers : q # p => phase'[q] = phase[q]
        /\ phase'[p] = "stopping"
    BY <1>0, <2>1
  <2> QED
    BY <2>1, <2>2, RegistryKeptByAbort DEF Up, Answering
<1>7. ASSUME NEW p \in Servers, Release(p) \/ ExitTimer(p) \/ Kill(p)
      PROVE  RegistryInv'
  BY <1>7, RegistryKeptByEnd DEF Release, ExitTimer, Kill
<1>8. ASSUME NEW p \in Servers, Refreshing(p)
      PROVE  RegistryInv'
  <2>1. UNCHANGED <<lock, phase>>
    BY <1>8 DEF Refreshing, processVars
  <2>2. CASE phase[p] = "running" /\ StartRefresh(p)
    BY <2>1, <2>2, RegistryKeptByStart
  <2>3. CASE phase[p] = "running" /\ CancelRefresh(p)
    BY <2>1, <2>3, RegistryKeptByAbort DEF CancelRefresh
  <2>4. CASE phase[p] = "running" /\ ShowNames(p)
    BY <2>1, <2>4, RegistryKeptByShow
  <2>5. CASE phase[p] = "running" /\ Reconnect(p)
    BY <2>1, <2>5, RegistryKeptByReconnect
  <2>6. CASE PageFailed(p)
    BY <2>1, <2>6, RefreshGivenUp DEF PageFailed
  <2>7. CASE \E answer \in Answers : PageAnswered(p, answer)
    BY <2>1, <2>7, RegistryKeptByPage
  <2>8. CASE Stage(p)
    BY <2>1, <2>8, RegistryKeptByStage
  <2>9. CASE Publish(p)
    BY <2>1, <2>9, RegistryKeptByPublish
  <2> QED
    BY <1>8, <2>2, <2>3, <2>4, <2>5, <2>6, <2>7, <2>8, <2>9 DEF Refreshing
<1>9. ASSUME NEW p \in Servers, WriteError(p)
      PROVE  RegistryInv'
  <2>1. UNCHANGED <<lock, phase>> /\ GiveUp(p) /\ refresh[p] # None /\ refresh[p].phase # "paging"
    BY <1>9 DEF WriteError, WriteFails, Free
  <2>2. \A q \in Servers : q # p /\ refresh[q] # None => refresh[q].phase = "paging"
    BY <2>1, PastPagesIsAlone
  <2> QED
    BY <2>1, <2>2, RefreshGivenUp
<1>10. CASE UNCHANGED vars
  <2>1. UNCHANGED registryVars /\ lock' = lock /\ phase' = phase
    BY <1>10 DEF vars, processVars
  <2> QED
    BY <2>1, RegistryKept DEF RegistryInv, RefreshOK, NamesOK
<1> QED
  BY <1>1, <1>2, <1>3, <1>4, <1>5, <1>6, <1>7, <1>8, <1>9, <1>10 DEF Next

(* What is listed is one list of one account, read as a whole, and what is    *)
(* shown is what is stored (refreshUserAgentRegistry, publishRegistryStaging, *)
(* getEditorNameMap), for any lists, whatever ends, fails or is connected in  *)
(* between.                                                                   *)
THEOREM RegistryStaysRight == Spec => []RegistryIsRight
<1>1. RegistryInv => RegistryIsRight
  BY DEF RegistryInv, RegistryIsRight, NamesAreCurrent, NamesOK, NamesOf
<1> QED
  BY <1>1, ProcessInit, ProcessStep, RegistryBegins, RegistryStep, PTL DEF Spec
=============================================================================
