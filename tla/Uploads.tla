------------------------------ MODULE Uploads ------------------------------
(* The import of an export through the browser: a page sends the two files of *)
(* an export in chunks to a staged upload session, and has the session        *)
(* validated or imported.  Pages, requests that are under way, sessions and   *)
(* the database interleave; requests may arrive twice, connections break, the *)
(* process may stop, and the synchronisation writes days meanwhile.           *)
(* Left out: the temporary directory a stopped process leaves behind (nothing *)
(* reads it), the sign-in of the administrator, and what the rows of a day    *)
(* hold, which DayArchive describes.                                          *)
EXTENDS Integers, FiniteSets

CONSTANTS
  Tabs,           \* pages that are open
  SignIns,        \* tab -> the sign-in that owns its upload sessions
  Exports,        \* exports of WakaTime, each of a daily and a heartbeat file
  Size,           \* export -> kind -> the chunks of that file
  Days,           \* export -> the dates it covers
  Selections,     \* kind -> export: what may be selected together
  Sound,          \* the exports whose files the importer accepts
  SyncDates,      \* the dates a synchronisation may write meanwhile
  MaxSessions, MaxSubmits, MaxFaults,  \* bounds
  None

Kinds == {"daily", "heartbeats"}
Dates == UNION {Days[e] : e \in Exports}

ASSUME UploadsAssumption ==
  /\ Size \in [Exports -> [Kinds -> Nat \ {0}]]
  /\ Selections \subseteq [Kinds -> Exports] /\ Sound \subseteq Exports /\ SyncDates \subseteq Dates
  /\ {MaxSessions, MaxSubmits, MaxFaults} \subseteq Nat
  /\ None \notin Exports \cup Nat /\ "sync" \notin Exports \cup {None}

VARIABLES
  owner,      \* tab -> who is signed in there
  tab,        \* tab -> what its page remembers and waits for
  net,        \* requests on their way to the server
  unheard,    \* starts the server goes on with though their page has gone
  sessions,   \* id -> the upload session of that id
  running,    \* requests the server works on, past their checks
  day,        \* date -> the export its rows come from, "sync", or None
  imports,    \* pairs of source_imports rows that are completed
  made,       \* ids of sessions given out so far
  submits, faults

vars == <<owner, tab, net, unheard, sessions, running, day, imports, made, submits, faults>>

Ids == 1 .. MaxSessions

-----------------------------------------------------------------------------
(* Pages.                                                                     *)

(* pc "idle", or the request it waits for.  files: what is selected.  id: the *)
(* session of the upload under way.  validated: a session that passed.        *)
Page(pc, mode, files, id, kind, offset, validated) ==
  [pc |-> pc, mode |-> mode, files |-> files, id |-> id, kind |-> kind,
   offset |-> offset, validated |-> validated]
Idle(p, validated) == Page("idle", None, p.files, None, None, 0, validated)
NoPage == Page("idle", None, None, None, None, 0, None)

Finishing(p, id) == Page("finish", p.mode, p.files, id, None, 0, p.validated)
Sending(p, id, kind, offset) == Page("put", p.mode, p.files, id, kind, offset, p.validated)

(* After a chunk has been acknowledged.                                       *)
Advanced(p) ==
  IF p.offset + 1 < Size[p.files[p.kind]][p.kind]
  THEN Sending(p, p.id, p.kind, p.offset + 1)
  ELSE IF p.kind = "daily" THEN Sending(p, p.id, "heartbeats", 0)
  ELSE Finishing(p, p.id)

Put(t, id, kind, offset, file, copy) ==
  [op |-> "put", tab |-> t, id |-> id, kind |-> kind, offset |-> offset,
   file |-> file, mode |-> None, copy |-> copy]
Finish(t, id, mode, copy) ==
  [op |-> "finish", tab |-> t, id |-> id, kind |-> None, offset |-> 0,
   file |-> None, mode |-> mode, copy |-> copy]
Delete(t, id) ==
  [op |-> "delete", tab |-> t, id |-> id, kind |-> None, offset |-> 0,
   file |-> None, mode |-> None, copy |-> 1]

RequestOf(t, p) ==
  CASE p.pc = "put" -> {Put(t, p.id, p.kind, p.offset, p.files[p.kind], 1)}
    [] p.pc = "finish" -> {Finish(t, p.id, p.mode, 1)}
    [] OTHER -> {}
Cancel(t, id) == IF id = None THEN {} ELSE {Delete(t, id)}

(* The page waits for the answer to m.                                        *)
Awaits(p, m) ==
  /\ p.pc = m.op /\ p.id = m.id /\ p.kind = m.kind /\ p.offset = m.offset
  /\ m.op = "finish" => p.mode = m.mode

(* Any error ends the upload: the page asks for the session to be removed and *)
(* does not wait for that.                                                    *)
Failed(p) == Idle(p, None)

(* What the page makes of the end of m; q: the page when m succeeds.          *)
Answered(m, ok, q) ==
  LET p == tab[m.tab] IN
  IF ~Awaits(p, m)
  THEN net' = net \ {m} /\ UNCHANGED tab
  ELSE IF ok
  THEN /\ tab' = [tab EXCEPT ![m.tab] = q]
       /\ net' = (net \ {m}) \cup RequestOf(m.tab, q)
  ELSE /\ tab' = [tab EXCEPT ![m.tab] = Failed(p)]
       /\ net' = (net \ {m}) \cup Cancel(m.tab, m.id)

-----------------------------------------------------------------------------
(* Sessions.  written: the chunks on disk, by kind.  passed: a validation of  *)
(* it has succeeded and no day has been written since; the code has no such   *)
(* field, it is there to state a property.                                    *)

NewSession(who, pair) ==
  [owner |-> who, expected |-> [k \in Kinds |-> Size[pair[k]][k]],
   received |-> [k \in Kinds |-> 0], written |-> [k \in Kinds |-> {}],
   busy |-> FALSE, passed |-> FALSE]

Live == DOMAIN sessions
Without(ids) == [i \in Live \ ids |-> sessions[i]]
With(id, s) == [i \in Live \cup {id} |-> IF i = id THEN s ELSE sessions[i]]

(* Mutant: A chunk is taken whatever its offset.                              *)
FitsAnywhere(m) == sessions[m.id].received[m.kind] < sessions[m.id].expected[m.kind]

(* A chunk is taken where the last one ended.                                 *)
Fits(m) ==
  /\ m.offset = sessions[m.id].received[m.kind]
  /\ m.offset < sessions[m.id].expected[m.kind]

Complete(s) == s.received = s.expected

(* The file is truncated for the first chunk and written in place after that. *)
Writes(s, m) ==
  (IF m.offset = 0 THEN {} ELSE {w \in s.written[m.kind] : w[1] # m.offset})
  \cup {<<m.offset, m.file>>}

(* Mutant: A chunk that has been written leaves the session busy.             *)
AppendedStillBusy(s, m) ==
  [s EXCEPT !.received[m.kind] = @ + 1, !.written[m.kind] = Writes(s, m)]

Appended(s, m) ==
  [s EXCEPT !.received[m.kind] = @ + 1, !.written[m.kind] = Writes(s, m), !.busy = FALSE]

-----------------------------------------------------------------------------
(* The importer.                                                              *)

Holds(s, kind, e) == s.written[kind] = {<<o, e>> : o \in 0 .. Size[e][kind] - 1}
Readable(s) == {pair \in Selections : \A k \in Kinds : Holds(s, k, pair[k])}

(* Both files are what they should be, and of one account and range.          *)
Valid(pair) == \A k \in Kinds : pair[k] \in Sound
SameRange(pair) == Days[pair["daily"]] = Days[pair["heartbeats"]]
Agreeing(pair) == Valid(pair) /\ SameRange(pair)

(* Both files belong to imports that are completed, be it to two of them.     *)
Already(pair) == \A k \in Kinds : \E done \in imports : done[k] = pair[k]

(* No date has rows, of an import or of a synchronisation.                    *)
Vacant(pair) == \A d \in Days[pair["daily"]] : day[d] = None

(* Mutant: A validation reads the files and stops there.                      *)
VerdictOfParser(s, dryRun) ==
  IF \A pair \in Readable(s) : ~Agreeing(pair) THEN "refused"
  ELSE IF \E pair \in Readable(s) : Already(pair) THEN "already"
  ELSE IF dryRun \/ \E pair \in Readable(s) : Vacant(pair) THEN "done"
  ELSE "refused"

Verdict(s, dryRun) ==
  IF \A pair \in Readable(s) : ~Agreeing(pair) THEN "refused"
  ELSE IF \E pair \in Readable(s) : Already(pair) THEN "already"
  ELSE IF \E pair \in Readable(s) : Vacant(pair) THEN "done"
  ELSE "refused"

(* Mutant: The days before the first known one stay written.                  *)
ImportedUntilRefused(s, verdict) ==
  [d \in Dates |->
     IF \E pair \in Readable(s) :
          /\ Agreeing(pair) /\ ~Already(pair) /\ d \in Days[pair["daily"]]
          /\ \A e \in Days[pair["daily"]] : e <= d => day[e] = None
     THEN (CHOOSE pair \in Readable(s) : TRUE)["daily"] ELSE day[d]]

(* All rows of all dates are one transaction.                                 *)
Imported(s, verdict) ==
  [d \in Dates |->
     IF verdict = "done" /\ \E pair \in Readable(s) : d \in Days[pair["daily"]]
     THEN (CHOOSE pair \in Readable(s) : TRUE)["daily"] ELSE day[d]]

(* A page is done with an upload.  A validation of something new is kept for  *)
(* the import; one of something known is not.                                 *)
Settled(p, id, verdict) ==
  Idle(p, IF p.mode = "validate" /\ verdict = "done" THEN id ELSE None)

-----------------------------------------------------------------------------
(* Steps of a page.                                                           *)

(* The operator selects files, or leaves those that are selected, and presses *)
(* a button.  Selecting forgets, and has removed, what was validated.         *)
Submit(t) ==
  \E mode \in {"validate", "import"}, files \in Selections :
    LET same == files = tab[t].files
        p == Page("start", mode, files, None, None, 0, IF same THEN tab[t].validated ELSE None)
        q == IF p.validated # None THEN Finishing(p, p.validated) ELSE p
    IN  /\ tab[t].pc = "idle" /\ submits < MaxSubmits
        /\ submits' = submits + 1
        /\ tab' = [tab EXCEPT ![t] = q]
        /\ net' = net \cup RequestOf(t, q) \cup (IF same THEN {} ELSE Cancel(t, tab[t].validated))
        /\ UNCHANGED <<owner, unheard, sessions, running, day, imports, made, faults>>

(* The start t has asked for; faults tells one such start from another.       *)
Start(t) == [of |-> t, files |-> tab[t].files, pc |-> tab[t].pc, nr |-> faults]

(* The connection is lost before the answer; the server goes on, also with a  *)
(* start, unless that has not reached it.                                     *)
Disconnected(t) ==
  /\ tab[t].pc \in {"start", "making", "put", "finish"} /\ faults < MaxFaults
  /\ faults' = faults + 1
  /\ tab' = [tab EXCEPT ![t] = Failed(tab[t])]
  /\ net' = net \cup Cancel(t, tab[t].id)
  /\ \/ tab[t].pc # "making" /\ UNCHANGED unheard
     \/ tab[t].pc \in {"start", "making"} /\ unheard' = unheard \cup {Start(t)}
  /\ UNCHANGED <<owner, sessions, running, day, imports, made, submits>>

-----------------------------------------------------------------------------
(* Steps of the server.                                                       *)

Own(t) == {i \in Live : sessions[i].owner = owner[t]}

(* The owner's other sessions go, one at a time, unless one is busy.          *)
StartDrops(t) ==
  \E i \in Own(t) :
    /\ tab[t].pc = "start" /\ \A j \in Own(t) : i <= j
    /\ IF sessions[i].busy
       THEN /\ tab' = [tab EXCEPT ![t] = Failed(tab[t])]
            /\ UNCHANGED sessions
       ELSE sessions' = Without({i}) /\ UNCHANGED tab
    /\ UNCHANGED <<owner, net, unheard, running, day, imports, made, submits, faults>>

(* The directory is made meanwhile another start may be under way.            *)
StartMakes(t) ==
  /\ tab[t].pc = "start" /\ Own(t) = {}
  /\ tab' = [tab EXCEPT ![t].pc = "making"]
  /\ UNCHANGED <<owner, net, unheard, sessions, running, day, imports, made, submits, faults>>

StartAnswers(t) ==
  LET id == made + 1
      q == Sending(tab[t], id, "daily", 0)
  IN  /\ tab[t].pc = "making" /\ made < MaxSessions
      /\ made' = id
      /\ sessions' = With(id, NewSession(owner[t], tab[t].files))
      /\ tab' = [tab EXCEPT ![t] = q]
      /\ net' = net \cup RequestOf(t, q)
      /\ UNCHANGED <<owner, unheard, running, day, imports, submits, faults>>

(* The same of a start nobody waits for: it leaves a session nobody knows.    *)
UnheardDrops(u) ==
  \E i \in Own(u.of) :
    /\ u.pc = "start" /\ \A j \in Own(u.of) : i <= j
    /\ IF sessions[i].busy
       THEN unheard' = unheard \ {u} /\ UNCHANGED sessions
       ELSE sessions' = Without({i}) /\ UNCHANGED unheard
    /\ UNCHANGED <<owner, tab, net, running, day, imports, made, submits, faults>>

UnheardMakes(u) ==
  /\ u.pc = "start" /\ Own(u.of) = {}
  /\ unheard' = (unheard \ {u}) \cup {[u EXCEPT !.pc = "making"]}
  /\ UNCHANGED <<owner, tab, net, sessions, running, day, imports, made, submits, faults>>

UnheardAnswers(u) ==
  LET id == made + 1
  IN  /\ u.pc = "making" /\ made < MaxSessions
      /\ made' = id
      /\ sessions' = With(id, NewSession(owner[u.of], u.files))
      /\ unheard' = unheard \ {u}
      /\ UNCHANGED <<owner, tab, net, running, day, imports, submits, faults>>

(* The request of m finds the session, at rest, and as m expects it.          *)
Accepts(m) ==
  /\ m.id \in Live /\ sessions[m.id].owner = owner[m.tab] /\ ~sessions[m.id].busy
  /\ m.op = "put" => Fits(m)
  /\ m.op = "finish" => Complete(sessions[m.id])

Begin(m) ==
  /\ m.op \in {"put", "finish"} /\ Accepts(m)
  /\ sessions' = With(m.id, [sessions[m.id] EXCEPT !.busy = TRUE])
  /\ running' = running \cup {m}
  /\ net' = net \ {m}
  /\ UNCHANGED <<owner, tab, unheard, day, imports, made, submits, faults>>

Refuse(m) ==
  /\ m.op \in {"put", "finish"} /\ ~Accepts(m)
  /\ Answered(m, FALSE, None)
  /\ UNCHANGED <<owner, unheard, sessions, running, day, imports, made, submits, faults>>

Remove(m) ==
  /\ m.op = "delete"
  /\ net' = net \ {m}
  /\ sessions' = IF Accepts(m) THEN Without({m.id}) ELSE sessions
  /\ UNCHANGED <<owner, tab, unheard, running, day, imports, made, submits, faults>>

Written(m) ==
  /\ m.op = "put"
  /\ running' = running \ {m}
  /\ sessions' = With(m.id, Appended(sessions[m.id], m))
  /\ Answered(m, TRUE, Advanced(tab[m.tab]))
  /\ UNCHANGED <<owner, unheard, day, imports, made, submits, faults>>

(* The chunk ends early, or the disk refuses it: the session is given up.     *)
Broken(m) ==
  /\ m.op = "put" /\ faults < MaxFaults
  /\ faults' = faults + 1
  /\ running' = running \ {m}
  /\ sessions' = Without({m.id})
  /\ Answered(m, FALSE, None)
  /\ UNCHANGED <<owner, unheard, day, imports, made, submits>>

(* The files are read, which takes its time, and then the rows are looked at  *)
(* and written at once.  Only a validation that raised no error keeps them.   *)
Finished(m) ==
  LET s == sessions[m.id]
      verdict == Verdict(s, m.mode = "validate")
      wrote == m.mode = "import" /\ verdict = "done"
  IN  /\ m.op = "finish"
      /\ running' = running \ {m}
      /\ day' = IF m.mode = "import" THEN Imported(s, verdict) ELSE day
      /\ imports' = IF wrote THEN imports \cup Readable(s) ELSE imports
      /\ sessions' =
           [i \in (IF m.mode = "validate" /\ verdict # "refused" THEN Live ELSE Live \ {m.id}) |->
              [sessions[i] EXCEPT
                 !.busy = IF i = m.id THEN FALSE ELSE @,
                 !.passed = IF wrote THEN FALSE
                            ELSE IF i = m.id THEN verdict = "done" ELSE @]]
      /\ IF verdict = "refused"
         THEN Answered(m, FALSE, None)
         ELSE /\ tab' = IF Awaits(tab[m.tab], m)
                        THEN [tab EXCEPT ![m.tab] = Settled(tab[m.tab], m.id, verdict)] ELSE tab
              /\ net' = IF Awaits(tab[m.tab], m) /\ m.mode = "validate" /\ verdict = "already"
                        THEN net \cup Cancel(m.tab, m.id) ELSE net
      /\ UNCHANGED <<owner, unheard, made, submits, faults>>

(* The timer of a session, or a start that finds it too old: an hour after    *)
(* the last request for it, which no request on its way takes.                *)
Expire(i) ==
  /\ i \in Live /\ ~sessions[i].busy /\ \A m \in net : m.id # i
  /\ sessions' = Without({i})
  /\ UNCHANGED <<owner, tab, net, unheard, running, day, imports, made, submits, faults>>

-----------------------------------------------------------------------------
(* The surroundings.                                                          *)

(* A request reaches the server a second time.                                *)
Resend(m) ==
  /\ m.op \in {"put", "finish"} /\ m.copy = 1 /\ faults < MaxFaults
  /\ faults' = faults + 1
  /\ net' = net \cup {[m EXCEPT !.copy = 2]}
  /\ UNCHANGED <<owner, tab, unheard, sessions, running, day, imports, made, submits>>

Crash ==
  /\ faults < MaxFaults /\ Live # {}
  /\ faults' = faults + 1
  /\ sessions' = [i \in {} |-> 0] /\ running' = {} /\ net' = {} /\ unheard' = {}
  /\ tab' = [t \in Tabs |-> IF tab[t].pc = "idle" THEN tab[t] ELSE Failed(tab[t])]
  /\ UNCHANGED <<owner, day, imports, made, submits>>

Sync(d) ==
  /\ day[d] # "sync"
  /\ day' = [day EXCEPT ![d] = "sync"]
  /\ sessions' = [i \in Live |-> [sessions[i] EXCEPT !.passed = FALSE]]
  /\ UNCHANGED <<owner, tab, net, unheard, running, imports, made, submits, faults>>

Init ==
  /\ owner \in SignIns
  /\ tab = [t \in Tabs |-> NoPage]
  /\ net = {} /\ unheard = {} /\ running = {}
  /\ sessions = [i \in {} |-> 0]
  /\ day = [d \in Dates |-> None]
  /\ imports = {}
  /\ made = 0 /\ submits = 0 /\ faults = 0

Next ==
  \/ \E t \in Tabs : Submit(t) \/ Disconnected(t)
  \/ \E t \in Tabs : StartDrops(t) \/ StartMakes(t) \/ StartAnswers(t)
  \/ \E u \in unheard : UnheardDrops(u) \/ UnheardMakes(u) \/ UnheardAnswers(u)
  \/ \E m \in net : Begin(m) \/ Refuse(m) \/ Remove(m) \/ Resend(m)
  \/ \E m \in running : Written(m) \/ Broken(m) \/ Finished(m)
  \/ \E i \in Ids : Expire(i)
  \/ Crash
  \/ \E d \in SyncDates : Sync(d)

(* Requests arrive, the server ends what it has begun, and its timers fire.   *)
Spec ==
  /\ Init /\ [][Next]_vars
  /\ WF_vars(\E m \in net : Begin(m) \/ Refuse(m) \/ Remove(m))
  /\ WF_vars(\E m \in running : Written(m) \/ Finished(m))
  /\ \A i \in Ids : WF_vars(Expire(i))

-----------------------------------------------------------------------------
(* Properties.                                                                *)

(* A session at rest has on disk what it has counted, chunk after chunk and   *)
(* of one file: a chunk that comes twice, late or beside another one changes  *)
(* nothing (append).                                                          *)
ReceivedIsOnDisk ==
  \A i \in Live : ~sessions[i].busy =>
    \A k \in Kinds : \E e \in Exports :
      sessions[i].written[k] = {<<o, e>> : o \in 0 .. sessions[i].received[k] - 1}

(* An import is in the database with every date it covers, whatever else was  *)
(* uploaded or synchronised meanwhile, and no date has rows of an import that *)
(* did not complete (importDumps, executeImport).                             *)
ImportsAreWhole ==
  /\ \A pair \in imports : \A d \in Days[pair["daily"]] : day[d] \in {pair["daily"], "sync"}
  /\ \A d \in Dates : day[d] \in Exports => \E pair \in imports : day[d] = pair["daily"]

(* What has been validated can be imported as long as no day is written in    *)
(* between: a validation exercises everything the import will                 *)
(* (importDumps: "a dry run that passes cannot be followed by a real import   *)
(* that violates a UNIQUE or CHECK the dry run never reached").               *)
ValidatedImports ==
  [][\A m \in running \ running' :
       m.mode = "import" /\ sessions[m.id].passed /\ faults' = faults
         => Readable(sessions[m.id]) \cap imports' # {}]_vars

(* No session stays for ever: an upload given up half-way, or validated and   *)
(* forgotten, is removed, and with it the two files (scheduleExpiry).         *)
UploadsEnd == \A i \in Ids : i \in Live ~> i \notin Live
=============================================================================
