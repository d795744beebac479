---------------------------- MODULE ServerProcess ----------------------------
(* The processes that open one database: the web server, which the container  *)
(* starts again whenever it ends and of which an update may have two for a     *)
(* while, and the maintenance scripts.  Only a lock on a file beside the       *)
(* database keeps servers apart; scripts do not ask for it.  The other modules *)
(* take for granted what is shown here: that one process at a time recovers,   *)
(* runs and serves, on a database with every table it knows.                   *)
EXTENDS AgentRegistry, Sequences, SequencesExt

CONSTANTS
  Scripts,         \* processes
  Build,           \* for each process, how many migrations it comes with
  MaxDisruptions   \* bound: stops, kills, failed steps and scripts

ASSUME ProcessAssumption ==
  /\ Scripts \cap Servers = {}
  /\ Build \in [Servers \cup Scripts -> Nat]
  /\ MaxDisruptions \in Nat

VARIABLES
  lock,         \* the process that has the lock, or None
  schema,       \* schema_migrations, in the order applied
  phase,        \* of a process: how far its start or its end has come
  todo,         \* migrations it found missing
  serving,      \* is it answering a request
  disruptions

processVars == <<lock, schema, phase, todo, serving, disruptions>>
vars == <<registryVars, processVars>>

Processes == Servers \cup Scripts

(* off, owner, migrating, recovering, running, stopping, draining, closed; and *)
(* failing for a start that did not succeed.                                   *)
Works(p) == phase[p] \in {"recovering", "running", "stopping", "draining"}
Moves(p, to) == phase' = [phase EXCEPT ![p] = to]

Disrupt == disruptions < MaxDisruptions /\ disruptions' = disruptions + 1
Undisturbed == UNCHANGED disruptions

-----------------------------------------------------------------------------
(* Mutant: A lock that is shared.                                              *)
MayShare(p) == lock = None \/ phase[lock] # "owner"

MayOwn(p) == lock = None

(* lifecycle.start: the lock, or the end of it.                                *)
Boot(p) ==
  /\ phase[p] = "off"
  /\ IF MayOwn(p) THEN Moves(p, "owner") /\ lock' = p
     ELSE Moves(p, "failing") /\ UNCHANGED lock
  /\ UNCHANGED <<schema, todo, serving, disruptions, registryVars>>

Missing(p) == 1..Build[p] \ Range(schema)

(* What is missing is found out once, before the first of it is applied.       *)
ReadSchema(p) ==
  /\ IF p \in Servers THEN phase[p] = "owner" /\ Undisturbed ELSE phase[p] = "off" /\ Disrupt
  /\ Moves(p, "migrating")
  /\ todo' = [todo EXCEPT ![p] = Missing(p)]
  /\ UNCHANGED <<lock, schema, serving, registryVars>>

Fails(p) == Moves(p, IF p \in Servers THEN "failing" ELSE "off")

(* The files are applied in the order of their numbers.  A migration and its   *)
(* record are one transaction; one that was recorded in the meantime is not    *)
(* skipped, it fails.                                                          *)
Migrate(p) ==
  /\ phase[p] = "migrating"
  /\ \E file \in todo[p] :
       /\ \A other \in todo[p] : file <= other
       /\ IF file \in Range(schema)
          THEN Fails(p) /\ UNCHANGED <<schema, todo>>
          ELSE /\ schema' = Append(schema, file)
               /\ todo' = [todo EXCEPT ![p] = @ \ {file}]
               /\ UNCHANGED phase
  /\ UNCHANGED <<lock, serving, disruptions, registryVars>>

Migrated(p) ==
  /\ phase[p] = "migrating" /\ todo[p] = {}
  /\ Moves(p, IF p \in Servers THEN "recovering" ELSE "off")
  /\ UNCHANGED <<lock, schema, todo, serving, disruptions, registryVars>>

(* Recovery is over, the coordinator and the scheduler have started.           *)
Started(p) ==
  /\ phase[p] = "recovering"
  /\ Moves(p, "running")
  /\ UNCHANGED <<lock, schema, todo, serving, disruptions, registryVars>>

StepFails(p) ==
  /\ phase[p] \in {"migrating", "recovering"} /\ Disrupt
  /\ Fails(p)
  /\ UNCHANGED <<lock, schema, todo, serving, registryVars>>

Quiesced(p) ==
  /\ phase[p] = "failing"
  /\ Moves(p, "closed")
  /\ UNCHANGED <<lock, schema, todo, serving, disruptions, registryVars>>

-----------------------------------------------------------------------------
(* A request, which may be one that never ends by itself.                      *)
Request(p) ==
  /\ phase[p] = "running" /\ ~serving[p] /\ Free(p)
  /\ serving' = [serving EXCEPT ![p] = TRUE]
  /\ UNCHANGED <<lock, schema, phase, todo, disruptions, registryVars>>

RequestEnds(p) ==
  /\ serving[p] /\ Free(p)
  /\ serving' = [serving EXCEPT ![p] = FALSE]
  /\ UNCHANGED <<lock, schema, phase, todo, disruptions, registryVars>>

(* SIGTERM: no new requests, no new work, and the work there is is aborted.     *)
Stop(p) ==
  /\ phase[p] = "running" /\ Free(p) /\ Disrupt
  /\ Moves(p, "stopping")
  /\ refresh' = Aborted(p)
  /\ UNCHANGED <<lock, schema, todo, serving, generation, registry, staging, names, reading, refreshes>>

(* The active run has ended, or the deadline was met.                          *)
CoordinatorStopped(p) ==
  /\ phase[p] = "stopping" /\ Free(p)
  /\ Moves(p, "draining")
  /\ UNCHANGED <<lock, schema, todo, serving, disruptions, registryVars>>

CloseDatabase(p) ==
  /\ phase[p] = "draining" /\ ~serving[p]
  /\ Moves(p, "closed")
  /\ UNCHANGED <<lock, schema, todo, serving, disruptions, registryVars>>

(* The end of a process, whose lock goes with it.                              *)
Ends(p) ==
  /\ Moves(p, "off")
  /\ lock' = IF lock = p THEN None ELSE lock
  /\ serving' = [serving EXCEPT ![p] = FALSE]
  /\ todo' = [todo EXCEPT ![p] = {}]
  /\ Forget(p)
  /\ UNCHANGED schema

Release(p) == phase[p] = "closed" /\ Ends(p) /\ Undisturbed

IsStopping(p) == phase[p] \in {"stopping", "draining", "closed"}

(* Twenty seconds after the signal.                                            *)
ExitTimer(p) == IsStopping(p) /\ Free(p) /\ Ends(p) /\ Undisturbed

Kill(p) == phase[p] # "off" /\ Disrupt /\ Ends(p)

KillScript(p) ==
  /\ phase[p] # "off" /\ Disrupt
  /\ Fails(p) /\ todo' = [todo EXCEPT ![p] = {}]
  /\ UNCHANGED <<lock, schema, serving, registryVars>>

(* What the registry does in a process that runs.                              *)
Refreshing(p) ==
  /\ UNCHANGED processVars
  /\ \/ phase[p] = "running" /\ (StartRefresh(p) \/ CancelRefresh(p) \/ ShowNames(p) \/ Reconnect(p))
     \/ PageFailed(p) \/ \E answer \in Answers : PageAnswered(p, answer)
     \/ Stage(p) \/ Publish(p)

WriteError(p) ==
  /\ Disrupt /\ WriteFails(p)
  /\ UNCHANGED <<lock, schema, phase, todo, serving>>

-----------------------------------------------------------------------------
Init ==
  /\ RegistryInit
  /\ lock = None
  /\ schema = <<>>
  /\ phase = [p \in Processes |-> "off"]
  /\ todo = [p \in Processes |-> {}]
  /\ serving = [p \in Servers |-> FALSE]
  /\ disruptions = 0

Next ==
  \/ \E p \in Processes : ReadSchema(p) \/ Migrate(p) \/ Migrated(p) \/ StepFails(p)
  \/ \E p \in Scripts : KillScript(p)
  \/ \E p \in Servers :
       \/ Boot(p) \/ Started(p) \/ Quiesced(p)
       \/ Request(p) \/ RequestEnds(p)
       \/ Stop(p) \/ CoordinatorStopped(p) \/ CloseDatabase(p) \/ Release(p)
       \/ ExitTimer(p) \/ Kill(p)
       \/ Refreshing(p) \/ WriteError(p)

(* A process goes on by itself; the container starts a server that ended; a    *)
(* request to WakaTime ends, an answer or not; a request of a client need not. *)
Goes(p) ==
  Boot(p) \/ (p \in Servers /\ ReadSchema(p)) \/ Migrate(p) \/ Migrated(p) \/ Started(p)
    \/ Quiesced(p) \/ CoordinatorStopped(p) \/ CloseDatabase(p) \/ Release(p) \/ ExitTimer(p)

Reads ==
  /\ UNCHANGED processVars
  /\ \E p \in Servers :
       PageFailed(p) \/ (\E answer \in Answers : PageAnswered(p, answer)) \/ Stage(p) \/ Publish(p)

Spec == Init /\ [][Next]_vars /\ (\A p \in Servers : WF_vars(Goes(p))) /\ WF_vars(Reads)

-----------------------------------------------------------------------------
(* Properties.                                                                *)

(* At most one process recovers, runs or serves, whatever others try; it has   *)
(* the lock and every table of its build.  Migrations were applied once each   *)
(* and in order, scripts or not.  A request never meets a closed database.     *)
OwnerIsAlone ==
  /\ \A p, q \in Servers : Works(p) /\ Works(q) => p = q
  /\ \A p \in Servers : Works(p) => lock = p /\ 1..Build[p] \subseteq Range(schema)
  /\ schema = [i \in 1..Len(schema) |-> i]
  /\ \A p \in Servers : serving[p] => Works(p)

(* When stops and failures are over a server runs again, two of them or a      *)
(* request that never ends notwithstanding; and a refresh ends.                *)
ServiceReturns ==
  []<>((\E p \in Servers : phase[p] = "running") /\ \A p \in Servers : refresh[p] = None)
==============================================================================
