---------------------------- MODULE AgentRegistry ----------------------------
(* The names of editors and machines: a refresh reads WakaTime's list of user *)
(* agents page by page, checks it as a whole and publishes it; pages show the *)
(* names from a copy in memory.  A process has one refresh at a time; what     *)
(* processes are, and when they end, is in ServerProcess.                      *)
EXTENDS Integers, FiniteSets

CONSTANTS
  None,
  Servers,         \* processes
  Ids, Editors,
  Answers,         \* what WakaTime may answer for a page
  MaxPages, MaxRows,
  MaxGeneration, MaxRefreshes    \* bounds

ASSUME RegistryAssumption ==
  /\ MaxPages \in Nat \ {0} /\ MaxRows \in Nat
  /\ Answers \subseteq [page : Nat, total : Nat, next : Nat \cup {None},
                       rows : SUBSET [id : Ids, editor : Editors], sound : BOOLEAN]
  /\ None \notin Servers \cup Editors \cup [editor : Editors, listed : BOOLEAN]

VARIABLES
  generation,   \* of the connection to WakaTime
  registry,     \* user_agent_registry
  staging,      \* user_agent_registry_staging
  refresh,      \* what a process has read so far, or None
  names,        \* the copy a process shows, or None
  reading,      \* the last list that was published: history
  refreshes     \* how many have begun: bound

registryVars == <<generation, registry, staging, refresh, names, reading, refreshes>>

(* accounts is history: whose data was read.                                   *)
NewRefresh ==
  [target |-> generation, page |-> 1, seen |-> {}, rows |-> 0, phase |-> "paging",
   aborted |-> FALSE, accounts |-> {}]

(* Between the last page and the end of the publication nothing is awaited:   *)
(* the process does nothing else, but it may end.                             *)
Free(p) == refresh[p] # None => refresh[p].phase = "paging"

-----------------------------------------------------------------------------
(* Every row has an identity and an editor, and fields of the right form.      *)
IsSound(answer) == answer.sound

(* A page as it arrives, of the right form and size, is the one asked for.     *)
Fits(answer, page) ==
  /\ IsSound(answer)
  /\ answer.page = page
  /\ answer.total <= MaxPages
  /\ page <= answer.total \/ (answer.total = 0 /\ answer.rows = {})

(* Mutant: Another page than this one is good enough.                          *)
LeadsAway(answer) ==
  IF answer.next = None THEN answer.page >= answer.total
  ELSE answer.next # answer.page /\ answer.next <= answer.total

(* The pointer moves on, within the list, and is there unless the list ends.   *)
LeadsOn(answer) ==
  IF answer.next = None THEN answer.page >= answer.total
  ELSE answer.page < answer.next /\ answer.next <= answer.total

Agree(rows) == \A x, y \in rows : x.id = y.id => x = y

IsAcceptable(r, answer) ==
  /\ Fits(answer, r.page) /\ LeadsOn(answer)
  /\ r.rows + Cardinality(answer.rows) <= MaxRows
  /\ Agree(r.seen \cup answer.rows)

IsLast(answer) == answer.page >= answer.total

Read(r, answer) ==
  [r EXCEPT !.seen = @ \cup answer.rows, !.rows = @ + Cardinality(answer.rows),
            !.accounts = @ \cup {generation},
            !.page = IF IsLast(answer) THEN @ ELSE answer.next]

(* Mutant: The account is checked when the refresh begins.                     *)
StillWanted(r) == ~r.aborted

(* Before the publication, and once more in its transaction.                   *)
StillCurrent(r) == ~r.aborted /\ r.target = generation

-----------------------------------------------------------------------------
StartRefresh(p) ==
  /\ refresh[p] = None /\ refreshes < MaxRefreshes
  /\ refresh' = [refresh EXCEPT ![p] = NewRefresh]
  /\ refreshes' = refreshes + 1
  /\ UNCHANGED <<generation, registry, staging, names, reading>>

(* The run is cancelled, or its process stops.                                 *)
Aborted(p) ==
  IF refresh[p] = None THEN refresh ELSE [refresh EXCEPT ![p].aborted = TRUE]

CancelRefresh(p) ==
  /\ Free(p) /\ refresh[p] # None
  /\ refresh' = Aborted(p)
  /\ UNCHANGED <<generation, registry, staging, names, reading, refreshes>>

GiveUp(p) ==
  /\ refresh' = [refresh EXCEPT ![p] = None]
  /\ UNCHANGED <<generation, registry, names, reading, refreshes>>

(* The request failed, or was aborted.                                         *)
PageFailed(p) ==
  /\ refresh[p] # None /\ refresh[p].phase = "paging"
  /\ GiveUp(p) /\ UNCHANGED staging

PageAnswered(p, answer) ==
  /\ refresh[p] # None /\ refresh[p].phase = "paging"
  /\ LET r == refresh[p]
         read == Read(r, answer)
     IN  IF ~IsAcceptable(r, answer) \/ (~IsLast(answer) /\ r.aborted)
            \/ (IsLast(answer) /\ ~StillCurrent(r))
         THEN GiveUp(p)
         ELSE /\ refresh' = [refresh EXCEPT ![p] =
                    IF IsLast(answer) THEN [read EXCEPT !.phase = "read"] ELSE read]
              /\ UNCHANGED <<generation, registry, names, reading, refreshes>>
  /\ UNCHANGED staging

(* Emptied and filled, in two transactions.                                    *)
Stage(p) ==
  /\ refresh[p] # None /\ refresh[p].phase = "read"
  /\ staging' = refresh[p].seen
  /\ refresh' = [refresh EXCEPT ![p].phase = "staged"]
  /\ UNCHANGED <<generation, registry, names, reading, refreshes>>

(* What is staged replaces what is listed; what is listed no more stays known. *)
Published ==
  [id \in Ids |->
     IF \E row \in staging : row.id = id
     THEN [editor |-> (CHOOSE row \in staging : row.id = id).editor, listed |-> TRUE]
     ELSE IF registry[id] = None THEN None
     ELSE [registry[id] EXCEPT !.listed = FALSE]]

Publish(p) ==
  /\ refresh[p] # None /\ refresh[p].phase = "staged"
  /\ StillCurrent(refresh[p])
  /\ registry' = Published
  /\ staging' = {}
  /\ names' = [names EXCEPT ![p] = None]
  /\ reading' = [rows |-> refresh[p].seen, accounts |-> refresh[p].accounts]
  /\ refresh' = [refresh EXCEPT ![p] = None]
  /\ UNCHANGED <<generation, refreshes>>

(* A write fails, or the transaction finds another account.                    *)
WriteFails(p) ==
  /\ ~Free(p)
  /\ staging' = {}
  /\ GiveUp(p)

ShowNames(p) ==
  /\ Free(p) /\ names[p] = None
  /\ names' = [names EXCEPT ![p] =
        [id \in Ids |-> IF registry[id] = None THEN None ELSE registry[id].editor]]
  /\ UNCHANGED <<generation, registry, staging, refresh, reading, refreshes>>

(* The operator connects an account again, or another one.                     *)
Reconnect(p) ==
  /\ Free(p) /\ generation < MaxGeneration
  /\ generation' = generation + 1
  /\ UNCHANGED <<registry, staging, refresh, names, reading, refreshes>>

(* The memory of a process that ends.                                          *)
Forget(p) ==
  /\ refresh' = [refresh EXCEPT ![p] = None]
  /\ names' = [names EXCEPT ![p] = None]
  /\ UNCHANGED <<generation, registry, staging, reading, refreshes>>

RegistryInit ==
  /\ generation = 1
  /\ registry = [id \in Ids |-> None]
  /\ staging = {}
  /\ refresh = [p \in Servers |-> None]
  /\ names = [p \in Servers |-> None]
  /\ reading = None
  /\ refreshes = 0

-----------------------------------------------------------------------------
(* What is listed is one list of one account, read as a whole, whatever was    *)
(* staged, aborted or half written before.                                     *)
RegistryIsOneReading ==
  reading # None =>
    /\ Cardinality(reading.accounts) = 1
    /\ {row \in [id : Ids, editor : Editors] :
          registry[row.id] = [editor |-> row.editor, listed |-> TRUE]} = reading.rows

(* The pages of the operator show what is stored.                              *)
NamesAreCurrent ==
  \A p \in Servers : names[p] # None =>
    \A id \in Ids : IF registry[id] = None THEN names[p][id] = None
                    ELSE names[p][id] = registry[id].editor

RegistryIsRight == RegistryIsOneReading /\ NamesAreCurrent
==============================================================================
