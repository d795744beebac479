--------------------------- MODULE UploadsProofs ---------------------------
(* Theorems about the upload of an export: for any pages, exports, chunks and *)
(* dates, and any number of sessions, submits and faults.  Each step is       *)
(* classified first, by what it may do to a page, to a request and to a       *)
(* session; the invariants follow from these classes.                         *)
EXTENDS Uploads, TLAPS

(* What a page and a request may be while n sessions have been given out.     *)
Pages(n) ==
  {p \in [pc : {"idle", "start", "making", "put", "finish"}, mode : {"validate", "import", None},
          files : Selections \cup {None}, id : (1 .. n) \cup {None}, kind : Kinds \cup {None},
          offset : Nat, validated : (1 .. n) \cup {None}] :
     /\ p.pc \in {"put", "finish"} => p.id \in 1 .. n
     /\ p.pc # "idle" => p.files \in Selections
     /\ p.pc = "put" => p.kind \in Kinds}

Requests(n) ==
  {m \in [op : {"put", "finish", "delete"}, tab : Tabs, id : 1 .. n, kind : Kinds \cup {None},
          offset : Nat, file : Exports \cup {None}, mode : {"validate", "import", None},
          copy : {1, 2}] :
     m.op = "put" => m.kind \in Kinds /\ m.file \in Exports}

Owners == {who[t] : who \in SignIns, t \in Tabs}

SessionRecords ==
  [owner : Owners, expected : [Kinds -> Nat], received : [Kinds -> Nat],
   written : [Kinds -> SUBSET (Nat \X Exports)], busy : BOOLEAN, passed : BOOLEAN]

PagesOK == tab \in [Tabs -> Pages(made)]
RequestsOK == net \subseteq Requests(made) /\ running \subseteq Requests(made)
SessionsOK == sessions \in [Live -> SessionRecords] /\ Live \subseteq 1 .. made

TypeInv == owner \in SignIns /\ made \in Nat /\ PagesOK /\ RequestsOK /\ SessionsOK

UnheardInv == \A u \in unheard : u.of \in Tabs /\ u.files \in Selections

-----------------------------------------------------------------------------
(* The server works on one request of a session at a time, and what it        *)
(* checked when it took the request still holds.                              *)
RunningInv ==
  \A m \in running :
    /\ m.op \in {"put", "finish"}
    /\ m.id \in Live /\ sessions[m.id].busy
    /\ m.op = "put" => Fits(m)
    /\ m.op = "finish" => Complete(sessions[m.id])
    /\ \A n \in running : n.id = m.id => n = m

(* Everything that is sent to session i, and all it has on disk, is of pair.  *)
SentTo(i, pair) ==
  /\ \A t \in Tabs : tab[t].pc = "put" /\ tab[t].id = i => tab[t].files = pair
  /\ \A m \in net \cup running : m.op = "put" /\ m.id = i => m.file = pair[m.kind]

OnDisk(s, pair) ==
  \A k \in Kinds : s.written[k] = {<<o, pair[k]>> : o \in 0 .. s.received[k] - 1}

SessionsInv ==
  \A i \in 1 .. made : \E pair \in Selections :
    SentTo(i, pair) /\ (i \in Live => OnDisk(sessions[i], pair))

(* What was validated and not overtaken would still be imported.              *)
Importable(s) ==
  \E pair \in Selections :
    /\ \A k \in Kinds : Holds(s, k, pair[k])
    /\ Agreeing(pair) /\ ~Already(pair) /\ Vacant(pair)

PassedInv ==
  \A i \in Live : sessions[i].passed => Complete(sessions[i]) /\ Importable(sessions[i])

DaysInv ==
  /\ day \in [Dates -> Exports \cup {None, "sync"}]
  /\ imports \subseteq Selections /\ faults \in Nat

Inv == TypeInv /\ UnheardInv /\ RunningInv /\ SessionsInv /\ PassedInv /\ DaysInv /\ ImportsAreWhole

-----------------------------------------------------------------------------
(* What a step may do.                                                        *)

Rests(t) == tab'[t] \in Pages(made) /\ tab'[t].pc # "put"
GoesOn(t) ==
  /\ tab[t].pc = "put" /\ tab'[t] \in Pages(made)
  /\ tab'[t].id = tab[t].id /\ tab'[t].files = tab[t].files
Opens(t, i) ==
  /\ i = made + 1 /\ tab'[t] \in Pages(i) /\ tab'[t].pc = "put" /\ tab'[t].id = i
  /\ sessions'[i] = NewSession(owner[t], tab'[t].files)
  /\ \A u \in Tabs \ {t} : tab'[u] = tab[u]

OpensUnheard(i) ==
  /\ i = made + 1 /\ UNCHANGED tab
  /\ \E t \in Tabs, pair \in Selections : sessions'[i] = NewSession(owner[t], pair)

PageStep(t) == tab'[t] = tab[t] \/ Rests(t) \/ GoesOn(t) \/ (made' = made + 1 /\ Opens(t, made'))

(* A put is one that was there, or one the page has just turned to.           *)
PutStep(m) ==
  \/ \E n \in net \cup running : n.op = "put" /\ m.id = n.id /\ m.kind = n.kind /\ m.file = n.file
  \/ \E t \in Tabs : /\ tab'[t].pc = "put" /\ m.id = tab'[t].id
                     /\ m.file = tab'[t].files[m.kind]

RequestStep(m) == m \in Requests(made') /\ (m.op = "put" => PutStep(m))

SameFiles(s, t) == s.expected = t.expected /\ s.received = t.received /\ s.written = t.written

SessionStep(i) ==
  \/ /\ i \in Live /\ sessions'[i] \in SessionRecords /\ SameFiles(sessions'[i], sessions[i])
  \/ /\ made' = made + 1 /\ i = made' /\ sessions'[i] \in SessionRecords
     /\ \E t \in Tabs : tab[t].files \in Selections /\ tab'[t].files = tab[t].files /\ Opens(t, i)
  \/ made' = made + 1 /\ i = made' /\ sessions'[i] \in SessionRecords /\ OpensUnheard(i)
  \/ \E m \in running : m.op = "put" /\ m.id = i /\ sessions'[i] = Appended(sessions[i], m)

Classified ==
  /\ owner' = owner /\ made' \in {made, made + 1}
  /\ \/ made' = made
     \/ \E t \in Tabs : made' = made + 1 /\ Opens(t, made')
     \/ made' = made + 1 /\ OpensUnheard(made')
  /\ tab' = [t \in Tabs |-> tab'[t]] /\ \A t \in Tabs : PageStep(t)
  /\ \A m \in net' \cup running' : RequestStep(m)
  /\ sessions' = [i \in DOMAIN sessions' |-> sessions'[i]]
  /\ \A i \in DOMAIN sessions' : SessionStep(i)

-----------------------------------------------------------------------------
(* Records.                                                                   *)

LEMMA SelectionIsTyped ==
  ASSUME NEW pair \in Selections
  PROVE  /\ pair \in [Kinds -> Exports]
         /\ \A k \in Kinds : pair[k] \in Exports /\ Size[pair[k]][k] \in Nat \ {0}
BY UploadsAssumption

LEMMA NoneIsApart == None \notin Exports /\ None \notin Nat /\ None # "sync" /\ "sync" \notin Exports
BY UploadsAssumption

LEMMA PagesGrow ==
  ASSUME NEW n \in Nat, NEW k \in Nat, n <= k
  PROVE  Pages(n) \subseteq Pages(k) /\ Requests(n) \subseteq Requests(k)
<1>1. 1 .. n \subseteq 1 .. k
  OBVIOUS
<1>2. Pages(n) \subseteq Pages(k)
  BY <1>1 DEF Pages
<1>3. Requests(n) \subseteq Requests(k)
  BY <1>1 DEF Requests
<1> QED
  BY <1>2, <1>3

LEMMA RequestsOfPage ==
  ASSUME NEW n \in Nat, NEW t \in Tabs, NEW p \in Pages(n), NEW m \in RequestOf(t, p)
  PROVE  /\ m \in Requests(n)
         /\ m.op = "put" => p.pc = "put" /\ m.id = p.id /\ m.kind = p.kind /\ m.file = p.files[m.kind]
<1>1. CASE p.pc = "put"
  <2>1. p.files \in Selections /\ p.kind \in Kinds /\ p.id \in 1 .. n /\ p.offset \in Nat
    BY <1>1 DEF Pages
  <2>2. p.files[p.kind] \in Exports
    BY <2>1, SelectionIsTyped
  <2>3. m = Put(t, p.id, p.kind, p.offset, p.files[p.kind], 1)
    BY <1>1 DEF RequestOf
  <2> QED
    BY <1>1, <2>1, <2>2, <2>3 DEF Put, Requests
<1>2. CASE p.pc = "finish"
  <2>1. p.id \in 1 .. n /\ p.mode \in {"validate", "import", None}
    BY <1>2 DEF Pages
  <2>2. m = Finish(t, p.id, p.mode, 1)
    BY <1>2 DEF RequestOf
  <2> QED
    BY <2>1, <2>2 DEF Finish, Requests
<1> QED
  BY <1>1, <1>2 DEF RequestOf

LEMMA RemovalOfPage ==
  ASSUME NEW n \in Nat, NEW t \in Tabs, NEW id \in (1 .. n) \cup {None}, NEW m \in Cancel(t, id)
  PROVE  m \in Requests(n) /\ m.op = "delete"
BY DEF Cancel, Delete, Requests

LEMMA PageFails ==
  ASSUME NEW n \in Nat, NEW p \in Pages(n)
  PROVE  Failed(p) \in Pages(n) /\ Failed(p).pc = "idle"
BY DEF Failed, Idle, Page, Pages

LEMMA PageAdvances ==
  ASSUME NEW n \in Nat, NEW p \in Pages(n), p.pc = "put"
  PROVE  /\ Advanced(p) \in Pages(n)
         /\ Advanced(p).id = p.id /\ Advanced(p).files = p.files
<1>1. p.files \in Selections /\ p.kind \in Kinds /\ p.id \in 1 .. n /\ p.offset \in Nat
      /\ p.mode \in {"validate", "import", None} /\ p.validated \in (1 .. n) \cup {None}
  BY DEF Pages
<1>2. /\ Sending(p, p.id, p.kind, p.offset + 1) \in Pages(n)
      /\ Sending(p, p.id, "heartbeats", 0) \in Pages(n)
      /\ Finishing(p, p.id) \in Pages(n)
  BY <1>1 DEF Sending, Finishing, Page, Pages, Kinds
<1>3. \A k, o : Sending(p, p.id, k, o).id = p.id /\ Sending(p, p.id, k, o).files = p.files
  BY DEF Sending, Page
<1>4. Finishing(p, p.id).id = p.id /\ Finishing(p, p.id).files = p.files
  BY DEF Finishing, Page
<1> QED
  BY <1>2, <1>3, <1>4 DEF Advanced

LEMMA SameButOne ==
  ASSUME NEW t \in Tabs, NEW p, NEW S, tab \in [Tabs -> S], tab' = [tab EXCEPT ![t] = p]
  PROVE  /\ tab' = [u \in Tabs |-> tab'[u]]
         /\ tab'[t] = p /\ \A u \in Tabs \ {t} : tab'[u] = tab[u]
OBVIOUS

-----------------------------------------------------------------------------
(* How the page takes the end of a request.                                   *)

LEMMA AnswerFails ==
  ASSUME TypeInv, NEW m \in net \cup running, Answered(m, FALSE, None)
  PROVE  /\ tab' = [t \in Tabs |-> tab'[t]] /\ \A t \in Tabs : tab'[t] = tab[t] \/ Rests(t)
         /\ \A n \in net' : n \in net \/ (n \in Requests(made) /\ n.op = "delete")
<1>1. made \in Nat /\ m \in Requests(made) /\ m.tab \in Tabs /\ m.id \in 1 .. made
  BY DEF TypeInv, RequestsOK, Requests
<1>2. tab[m.tab] \in Pages(made) /\ tab \in [Tabs -> Pages(made)]
  BY <1>1 DEF TypeInv, PagesOK
<1>3. CASE ~Awaits(tab[m.tab], m)
  BY <1>2, <1>3 DEF Answered
<1>4. CASE Awaits(tab[m.tab], m)
  <2>1. tab' = [tab EXCEPT ![m.tab] = Failed(tab[m.tab])] /\ net' = (net \ {m}) \cup Cancel(m.tab, m.id)
    BY <1>4 DEF Answered
  <2>2. tab' = [t \in Tabs |-> tab'[t]]
        /\ tab'[m.tab] = Failed(tab[m.tab]) /\ \A u \in Tabs \ {m.tab} : tab'[u] = tab[u]
    BY <1>1, <1>2, <2>1, SameButOne
  <2>3. Failed(tab[m.tab]) \in Pages(made) /\ Failed(tab[m.tab]).pc = "idle"
    BY <1>1, <1>2, PageFails
  <2>4. Rests(m.tab)
    BY <2>2, <2>3 DEF Rests
  <2>5. \A n \in Cancel(m.tab, m.id) : n \in Requests(made) /\ n.op = "delete"
    BY <1>1, RemovalOfPage
  <2> QED
    BY <2>1, <2>2, <2>4, <2>5
<1> QED
  BY <1>3, <1>4

LEMMA AnswerAdvances ==
  ASSUME TypeInv, NEW m \in net \cup running, m.op = "put", Answered(m, TRUE, Advanced(tab[m.tab]))
  PROVE  /\ tab' = [t \in Tabs |-> tab'[t]] /\ \A t \in Tabs : tab'[t] = tab[t] \/ GoesOn(t)
         /\ \A n \in net' : n \in net \/ (n \in Requests(made) /\ (n.op = "put" => PutStep(n)))
<1>1. made \in Nat /\ m \in Requests(made) /\ m.tab \in Tabs
  BY DEF TypeInv, RequestsOK, Requests
<1>2. tab[m.tab] \in Pages(made) /\ tab \in [Tabs -> Pages(made)]
  BY <1>1 DEF TypeInv, PagesOK
<1>3. CASE ~Awaits(tab[m.tab], m)
  BY <1>2, <1>3 DEF Answered
<1>4. CASE Awaits(tab[m.tab], m)
  <2>1. tab' = [tab EXCEPT ![m.tab] = Advanced(tab[m.tab])]
        /\ net' = (net \ {m}) \cup RequestOf(m.tab, Advanced(tab[m.tab]))
    BY <1>4 DEF Answered
  <2>2. tab' = [t \in Tabs |-> tab'[t]]
        /\ tab'[m.tab] = Advanced(tab[m.tab]) /\ \A u \in Tabs \ {m.tab} : tab'[u] = tab[u]
    BY <1>1, <1>2, <2>1, SameButOne
  <2>3. tab[m.tab].pc = "put"
    BY <1>4 DEF Awaits
  <2>4. Advanced(tab[m.tab]) \in Pages(made) /\ Advanced(tab[m.tab]).id = tab[m.tab].id
        /\ Advanced(tab[m.tab]).files = tab[m.tab].files
    BY <1>1, <1>2, <2>3, PageAdvances
  <2>5. GoesOn(m.tab)
    BY <2>2, <2>3, <2>4 DEF GoesOn
  <2>6. ASSUME NEW n \in RequestOf(m.tab, Advanced(tab[m.tab]))
        PROVE  n \in Requests(made) /\ (n.op = "put" => PutStep(n))
    <3>1. n \in RequestOf(m.tab, tab'[m.tab])
      BY <2>2
    <3>2. /\ n \in Requests(made)
          /\ n.op = "put" => /\ tab'[m.tab].pc = "put" /\ n.id = tab'[m.tab].id
                             /\ n.file = tab'[m.tab].files[n.kind]
      BY <1>1, <2>2, <2>4, <3>1, RequestsOfPage
    <3> QED
      BY <1>1, <3>2 DEF PutStep
  <2> QED
    BY <2>1, <2>2, <2>5, <2>6
<1> QED
  BY <1>3, <1>4

LEMMA RequestStays ==
  ASSUME TypeInv, made' \in {made, made + 1}, NEW n \in net \cup running
  PROVE  RequestStep(n)
<1>1. made \in Nat /\ n \in Requests(made)
  BY DEF TypeInv, RequestsOK
<1>2. n \in Requests(made')
  BY <1>1, PagesGrow
<1>3. PutStep(n) \/ n.op # "put"
  BY DEF PutStep
<1> QED
  BY <1>2, <1>3 DEF RequestStep

LEMMA SessionsStay ==
  ASSUME TypeInv, UNCHANGED sessions
  PROVE  /\ sessions' = [i \in DOMAIN sessions' |-> sessions'[i]]
         /\ \A i \in DOMAIN sessions' : SessionStep(i)
BY DEF TypeInv, SessionsOK, SessionStep, SameFiles, Live

(* Sessions go, and others may become busy, at rest, passed or doubtful.      *)
LEMMA SessionsTurn ==
  ASSUME TypeInv, NEW D, D \subseteq Live, NEW f,
         sessions' = [i \in D |-> f[i]],
         \A i \in D : f[i] \in SessionRecords /\ SameFiles(f[i], sessions[i])
  PROVE  /\ sessions' = [i \in DOMAIN sessions' |-> sessions'[i]]
         /\ \A i \in DOMAIN sessions' : SessionStep(i)
BY DEF SessionStep, Live

LEMMA SessionsGo ==
  ASSUME TypeInv, NEW ids, sessions' = Without(ids)
  PROVE  /\ sessions' = [i \in DOMAIN sessions' |-> sessions'[i]]
         /\ \A i \in DOMAIN sessions' : SessionStep(i)
<1>1. \A i \in Live \ ids : sessions[i] \in SessionRecords /\ SameFiles(sessions[i], sessions[i])
  BY DEF TypeInv, SessionsOK, SameFiles
<1> QED
  BY <1>1, SessionsTurn DEF Without

LEMMA OthersStay ==
  ASSUME TypeInv, NEW id, NEW s, sessions' = With(id, s), SessionStep(id)
  PROVE  /\ sessions' = [i \in DOMAIN sessions' |-> sessions'[i]]
         /\ \A i \in DOMAIN sessions' : SessionStep(i)
<1>1. DOMAIN sessions' = Live \cup {id} /\ \A i \in Live \ {id} : sessions'[i] = sessions[i]
  BY DEF With, Live
<1>2. \A i \in Live \ {id} : SessionStep(i)
  BY <1>1 DEF TypeInv, SessionsOK, SessionStep, SameFiles
<1>3. sessions' = [i \in DOMAIN sessions' |-> sessions'[i]]
  BY DEF With
<1> QED
  BY <1>1, <1>2, <1>3

-----------------------------------------------------------------------------
(* Each action is classified.                                                 *)

LEMMA SubmitIsClassified ==
  ASSUME TypeInv, NEW t \in Tabs, Submit(t)
  PROVE  Classified
<1>1. PICK mode \in {"validate", "import"}, files \in Selections :
        LET same == files = tab[t].files
            p == Page("start", mode, files, None, None, 0, IF same THEN tab[t].validated ELSE None)
            q == IF p.validated # None THEN Finishing(p, p.validated) ELSE p
        IN  /\ tab' = [tab EXCEPT ![t] = q]
            /\ net' = net \cup RequestOf(t, q) \cup (IF same THEN {} ELSE Cancel(t, tab[t].validated))
            /\ UNCHANGED <<owner, sessions, running, day, imports, made, faults>>
  BY DEF Submit
<1>2. made \in Nat /\ tab \in [Tabs -> Pages(made)] /\ tab[t] \in Pages(made)
  BY DEF TypeInv, PagesOK
<1>3. PICK old : old = tab[t].validated
  OBVIOUS
<1>4. old \in (1 .. made) \cup {None}
  BY <1>2, <1>3 DEF Pages
<1>5. PICK v : v = IF files = tab[t].files THEN old ELSE None
  OBVIOUS
<1>6. v \in (1 .. made) \cup {None}
  BY <1>4, <1>5
<1>7. PICK p : p = Page("start", mode, files, None, None, 0, v)
  OBVIOUS
<1>8. p.validated = v /\ p.files = files /\ p.mode = mode /\ p \in Pages(made) /\ p.pc = "start"
  BY <1>6, <1>7 DEF Page, Pages
<1>9. PICK q : q = IF p.validated # None THEN Finishing(p, p.validated) ELSE p
  OBVIOUS
<1>10. q \in Pages(made) /\ q.pc # "put"
  <2>1. CASE v # None
    <3>1. v \in 1 .. made /\ q = Finishing(p, v)
      BY <1>6, <1>8, <1>9, <2>1
    <3> QED
      BY <1>6, <1>8, <3>1 DEF Finishing, Page, Pages
  <2> QED
    BY <1>8, <1>9, <2>1
<1>11. tab' = [tab EXCEPT ![t] = q]
       /\ net' = net \cup RequestOf(t, q) \cup (IF files = tab[t].files THEN {} ELSE Cancel(t, old))
       /\ UNCHANGED <<owner, sessions, running, made>>
  BY <1>1, <1>3, <1>5, <1>7, <1>9
<1>12. tab' = [u \in Tabs |-> tab'[u]] /\ tab'[t] = q /\ \A u \in Tabs \ {t} : tab'[u] = tab[u]
  BY <1>2, <1>11, SameButOne
<1>13. \A u \in Tabs : PageStep(u)
  BY <1>10, <1>12 DEF PageStep, Rests
<1>14. \A m \in RequestOf(t, q) : m \in Requests(made) /\ m.op # "put"
  BY <1>2, <1>10, RequestsOfPage
<1>15. \A m \in Cancel(t, old) : m \in Requests(made) /\ m.op = "delete"
  BY <1>2, <1>4, RemovalOfPage
<1>16. \A m \in net' \cup running' : RequestStep(m)
  BY <1>11, <1>14, <1>15, RequestStays DEF RequestStep
<1> QED
  BY <1>11, <1>12, <1>13, <1>16, SessionsStay DEF Classified

LEMMA DisconnectedIsClassified ==
  ASSUME TypeInv, NEW t \in Tabs, Disconnected(t)
  PROVE  Classified
<1>1. made \in Nat /\ tab \in [Tabs -> Pages(made)] /\ tab[t] \in Pages(made)
  BY DEF TypeInv, PagesOK
<1>2. PICK q : q = Failed(tab[t])
  OBVIOUS
<1>3. q \in Pages(made) /\ q.pc = "idle"
  BY <1>1, <1>2, PageFails
<1>4. PICK id : id = tab[t].id
  OBVIOUS
<1>5. id \in (1 .. made) \cup {None}
  BY <1>1, <1>4 DEF Pages
<1>6. tab' = [tab EXCEPT ![t] = q] /\ net' = net \cup Cancel(t, id)
      /\ UNCHANGED <<owner, sessions, running, made>>
  BY <1>2, <1>4 DEF Disconnected
<1>7. tab' = [u \in Tabs |-> tab'[u]] /\ tab'[t] = q /\ \A u \in Tabs \ {t} : tab'[u] = tab[u]
  BY <1>1, <1>6, SameButOne
<1>8. \A u \in Tabs : PageStep(u)
  BY <1>3, <1>7 DEF PageStep, Rests
<1>9. \A m \in Cancel(t, id) : m \in Requests(made) /\ m.op = "delete"
  BY <1>1, <1>5, RemovalOfPage
<1>10. \A m \in net' \cup running' : RequestStep(m)
  BY <1>6, <1>9, RequestStays DEF RequestStep
<1> QED
  BY <1>6, <1>7, <1>8, <1>10, SessionsStay DEF Classified

(* The pages and requests of a step that touches neither.                     *)
LEMMA PagesStay ==
  ASSUME TypeInv, UNCHANGED <<tab, made>>, net' \cup running' \subseteq net \cup running
  PROVE  /\ tab' = [t \in Tabs |-> tab'[t]] /\ \A t \in Tabs : PageStep(t)
         /\ \A m \in net' \cup running' : RequestStep(m)
<1>1. tab' = [t \in Tabs |-> tab'[t]] /\ \A t \in Tabs : PageStep(t)
  BY DEF TypeInv, PagesOK, PageStep
<1>2. \A m \in net' \cup running' : RequestStep(m)
  BY RequestStays
<1> QED
  BY <1>1, <1>2

LEMMA StartIsClassified ==
  ASSUME TypeInv, NEW t \in Tabs, StartDrops(t) \/ StartMakes(t)
  PROVE  Classified
<1>1. made \in Nat /\ tab \in [Tabs -> Pages(made)] /\ tab[t] \in Pages(made)
  BY DEF TypeInv, PagesOK
<1>2. ASSUME NEW q \in Pages(made), q.pc # "put", tab' = [tab EXCEPT ![t] = q],
             UNCHANGED <<owner, net, sessions, running, made>>
      PROVE  Classified
  <2>1. tab' = [u \in Tabs |-> tab'[u]] /\ tab'[t] = q /\ \A u \in Tabs \ {t} : tab'[u] = tab[u]
    BY <1>1, <1>2, SameButOne
  <2>2. \A u \in Tabs : PageStep(u)
    BY <1>2, <2>1 DEF PageStep, Rests
  <2>3. \A m \in net' \cup running' : RequestStep(m)
    BY <1>2, RequestStays
  <2> QED
    BY <1>2, <2>1, <2>2, <2>3, SessionsStay DEF Classified
<1>3. CASE StartMakes(t)
  <2>1. tab[t].pc = "start" /\ tab' = [tab EXCEPT ![t].pc = "making"]
        /\ UNCHANGED <<owner, net, sessions, running, made>>
    BY <1>3 DEF StartMakes
  <2>2. PICK q : q = [tab[t] EXCEPT !.pc = "making"]
    OBVIOUS
  <2>3. tab' = [tab EXCEPT ![t] = q]
    BY <2>1, <2>2
  <2>4. q \in Pages(made) /\ q.pc = "making"
    BY <1>1, <2>1, <2>2 DEF Pages
  <2> QED
    BY <1>2, <2>1, <2>3, <2>4
<1>4. CASE StartDrops(t)
  <2>1. PICK i \in Own(t) :
          /\ IF sessions[i].busy
             THEN tab' = [tab EXCEPT ![t] = Failed(tab[t])] /\ UNCHANGED sessions
             ELSE sessions' = Without({i}) /\ UNCHANGED tab
          /\ UNCHANGED <<owner, net, running, made>>
    BY <1>4 DEF StartDrops
  <2>2. CASE sessions[i].busy
    <3>1. Failed(tab[t]) \in Pages(made) /\ Failed(tab[t]).pc = "idle"
      BY <1>1, PageFails
    <3>2. PICK q : q = Failed(tab[t])
      OBVIOUS
    <3>3. q \in Pages(made) /\ q.pc # "put" /\ tab' = [tab EXCEPT ![t] = q]
      BY <2>1, <2>2, <3>1, <3>2
    <3> QED
      BY <1>2, <2>1, <2>2, <3>3
  <2>3. CASE ~sessions[i].busy
    BY <2>1, <2>3, PagesStay, SessionsGo DEF Classified
  <2> QED
    BY <2>2, <2>3
<1> QED
  BY <1>3, <1>4

LEMMA StartAnswersIsClassified ==
  ASSUME TypeInv, NEW t \in Tabs, StartAnswers(t)
  PROVE  Classified
<1>1. made \in Nat /\ tab \in [Tabs -> Pages(made)] /\ tab[t] \in Pages(made) /\ owner \in SignIns
  BY DEF TypeInv, PagesOK
<1>2. PICK id : id = made + 1
  OBVIOUS
<1>3. PICK q : q = Sending(tab[t], id, "daily", 0)
  OBVIOUS
<1>4. PICK s : s = NewSession(owner[t], tab[t].files)
  OBVIOUS
<1>5. /\ tab[t].pc = "making" /\ made' = id /\ sessions' = With(id, s)
      /\ tab' = [tab EXCEPT ![t] = q] /\ net' = net \cup RequestOf(t, q)
      /\ UNCHANGED <<owner, running>>
  BY <1>2, <1>3, <1>4 DEF StartAnswers
<1>6. tab[t].files \in Selections /\ tab[t].validated \in (1 .. made) \cup {None}
      /\ tab[t].mode \in {"validate", "import", None}
  BY <1>1, <1>5 DEF Pages
<1>7. id \in 1 .. id /\ 1 .. made \subseteq 1 .. id /\ id \in Nat
  BY <1>1, <1>2
<1>8. q \in Pages(id) /\ q.pc = "put" /\ q.id = id /\ q.files = tab[t].files
  BY <1>3, <1>6, <1>7 DEF Sending, Page, Pages, Kinds
<1>9. tab' = [u \in Tabs |-> tab'[u]] /\ tab'[t] = q /\ \A u \in Tabs \ {t} : tab'[u] = tab[u]
  BY <1>1, <1>5, SameButOne
<1>10. sessions'[id] = s
  BY <1>5 DEF With
<1>11. Opens(t, id)
  BY <1>2, <1>4, <1>8, <1>9, <1>10 DEF Opens
<1>12. \A u \in Tabs : PageStep(u)
  BY <1>2, <1>5, <1>9, <1>11 DEF PageStep
<1>13. s \in SessionRecords
  <2>1. owner[t] \in Owners
    BY <1>1 DEF Owners
  <2>2. \A k \in Kinds : Size[tab[t].files[k]][k] \in Nat
    BY <1>6, SelectionIsTyped
  <2> QED
    BY <1>4, <2>1, <2>2 DEF NewSession, SessionRecords
<1>14. SessionStep(id)
  BY <1>2, <1>5, <1>6, <1>8, <1>9, <1>10, <1>11, <1>13 DEF SessionStep
<1>15. ASSUME NEW m \in RequestOf(t, q)
       PROVE  RequestStep(m)
  <2>1. m \in Requests(id) /\ (m.op = "put" => m.id = q.id /\ m.file = q.files[m.kind])
    BY <1>7, <1>8, <1>15, RequestsOfPage
  <2> QED
    BY <1>5, <1>8, <1>9, <2>1 DEF RequestStep, PutStep
<1>16. \A m \in net' \cup running' : RequestStep(m)
  BY <1>2, <1>5, <1>15, RequestStays
<1>17. \E u \in Tabs : made' = made + 1 /\ Opens(u, made')
  BY <1>2, <1>5, <1>11
<1> QED
  BY <1>2, <1>5, <1>9, <1>12, <1>14, <1>16, <1>17, OthersStay DEF Classified

LEMMA UnheardIsClassified ==
  ASSUME TypeInv, UnheardInv, NEW u \in unheard,
         UnheardDrops(u) \/ UnheardMakes(u) \/ UnheardAnswers(u)
  PROVE  Classified
<1>1. CASE UnheardMakes(u)
  BY <1>1, PagesStay, SessionsStay DEF UnheardMakes, Classified
<1>2. CASE UnheardDrops(u)
  <2>1. PICK i \in Own(u.of) : /\ UNCHANGED sessions \/ sessions' = Without({i})
                              /\ UNCHANGED <<owner, tab, net, running, made>>
    BY <1>2 DEF UnheardDrops
  <2> QED
    BY <2>1, PagesStay, SessionsStay, SessionsGo DEF Classified
<1>3. CASE UnheardAnswers(u)
  <2>1. made \in Nat /\ tab \in [Tabs -> Pages(made)] /\ owner \in SignIns
    BY DEF TypeInv, PagesOK
  <2>2. PICK id : id = made + 1
    OBVIOUS
  <2>3. PICK t \in Tabs, pair \in Selections : t = u.of /\ pair = u.files
    BY DEF UnheardInv
  <2>4. PICK s : s = NewSession(owner[t], pair)
    OBVIOUS
  <2>5. made' = id /\ sessions' = With(id, s) /\ UNCHANGED <<owner, tab, net, running>>
    BY <1>3, <2>2, <2>3, <2>4 DEF UnheardAnswers
  <2>6. sessions'[id] = s
    BY <2>5 DEF With
  <2>7. OpensUnheard(id)
    BY <2>2, <2>4, <2>5, <2>6 DEF OpensUnheard
  <2>8. s \in SessionRecords
    <3>1. owner[t] \in Owners
      BY <2>1 DEF Owners
    <3>2. \A k \in Kinds : Size[pair[k]][k] \in Nat
      BY SelectionIsTyped
    <3> QED
      BY <2>4, <3>1, <3>2 DEF NewSession, SessionRecords
  <2>9. SessionStep(id)
    BY <2>2, <2>5, <2>6, <2>7, <2>8 DEF SessionStep
  <2>10. tab' = [v \in Tabs |-> tab'[v]] /\ \A v \in Tabs : PageStep(v)
    BY <2>1, <2>5 DEF PageStep
  <2>11. \A m \in net' \cup running' : RequestStep(m)
    BY <2>2, <2>5, RequestStays
  <2> QED
    BY <2>2, <2>5, <2>7, <2>9, <2>10, <2>11, OthersStay DEF Classified
<1> QED
  BY <1>1, <1>2, <1>3

LEMMA BeginIsClassified ==
  ASSUME TypeInv, NEW m \in net, Begin(m)
  PROVE  Classified
<1>1. m.id \in Live /\ sessions' = With(m.id, [sessions[m.id] EXCEPT !.busy = TRUE])
      /\ running' = running \cup {m} /\ net' = net \ {m} /\ UNCHANGED <<owner, tab, made>>
  BY DEF Begin, Accepts
<1>2. PICK s : s = [sessions[m.id] EXCEPT !.busy = TRUE]
  OBVIOUS
<1>3. sessions[m.id] \in SessionRecords
  BY <1>1 DEF TypeInv, SessionsOK
<1>4. s \in SessionRecords /\ SameFiles(s, sessions[m.id])
  BY <1>2, <1>3 DEF SessionRecords, SameFiles
<1>5. sessions'[m.id] = s
  BY <1>1, <1>2 DEF With
<1>6. SessionStep(m.id)
  BY <1>1, <1>4, <1>5 DEF SessionStep
<1> QED
  BY <1>1, <1>6, PagesStay, OthersStay DEF Classified

LEMMA RefuseIsClassified ==
  ASSUME TypeInv, NEW m \in net, Refuse(m)
  PROVE  Classified
<1>1. Answered(m, FALSE, None) /\ UNCHANGED <<owner, sessions, running, made>>
  BY DEF Refuse
<1>2. /\ tab' = [t \in Tabs |-> tab'[t]] /\ \A t \in Tabs : PageStep(t)
      /\ \A n \in net' : n \in net \/ (n \in Requests(made) /\ n.op = "delete")
  BY <1>1, AnswerFails DEF PageStep
<1>3. \A n \in net' \cup running' : RequestStep(n)
  BY <1>1, <1>2, RequestStays DEF RequestStep
<1> QED
  BY <1>1, <1>2, <1>3, SessionsStay DEF Classified

LEMMA RemoveIsClassified ==
  ASSUME TypeInv, NEW m \in net, Remove(m)
  PROVE  Classified
<1>1. net' = net \ {m} /\ (sessions' = Without({m.id}) \/ sessions' = sessions)
      /\ UNCHANGED <<owner, tab, running, made>>
  BY DEF Remove
<1> QED
  BY <1>1, PagesStay, SessionsGo, SessionsStay DEF Classified

LEMMA ResendIsClassified ==
  ASSUME TypeInv, NEW m \in net, Resend(m)
  PROVE  Classified
<1>1. PICK n : n = [m EXCEPT !.copy = 2]
  OBVIOUS
<1>2. net' = net \cup {n} /\ UNCHANGED <<owner, tab, sessions, running, made>>
  BY <1>1 DEF Resend
<1>3. made \in Nat /\ m \in Requests(made)
  BY DEF TypeInv, RequestsOK
<1>4. n \in Requests(made) /\ n.op = m.op /\ n.id = m.id /\ n.kind = m.kind /\ n.file = m.file
  BY <1>1, <1>3 DEF Requests
<1>5. RequestStep(n)
  BY <1>2, <1>4 DEF RequestStep, PutStep
<1>6. \A k \in net' \cup running' : RequestStep(k)
  BY <1>2, <1>5, RequestStays
<1>7. tab' = [t \in Tabs |-> tab'[t]] /\ \A t \in Tabs : PageStep(t)
  BY <1>2 DEF TypeInv, PagesOK, PageStep
<1> QED
  BY <1>2, <1>6, <1>7, SessionsStay DEF Classified

LEMMA WrittenIsClassified ==
  ASSUME TypeInv, NEW m \in running, Written(m)
  PROVE  Classified
<1>1. m.op = "put" /\ running' = running \ {m} /\ Answered(m, TRUE, Advanced(tab[m.tab]))
      /\ sessions' = With(m.id, Appended(sessions[m.id], m)) /\ UNCHANGED <<owner, made>>
  BY DEF Written
<1>2. /\ tab' = [t \in Tabs |-> tab'[t]] /\ \A t \in Tabs : PageStep(t)
      /\ \A n \in net' : n \in net \/ (n \in Requests(made) /\ (n.op = "put" => PutStep(n)))
  BY <1>1, AnswerAdvances DEF PageStep
<1>3. \A n \in net' \cup running' : RequestStep(n)
  BY <1>1, <1>2, RequestStays DEF RequestStep
<1>4. sessions'[m.id] = Appended(sessions[m.id], m)
  BY <1>1 DEF With
<1>5. SessionStep(m.id)
  BY <1>1, <1>4 DEF SessionStep
<1> QED
  BY <1>1, <1>2, <1>3, <1>5, OthersStay DEF Classified

LEMMA BrokenIsClassified ==
  ASSUME TypeInv, NEW m \in running, Broken(m)
  PROVE  Classified
<1>1. running' = running \ {m} /\ Answered(m, FALSE, None) /\ sessions' = Without({m.id})
      /\ UNCHANGED <<owner, made>>
  BY DEF Broken
<1>2. /\ tab' = [t \in Tabs |-> tab'[t]] /\ \A t \in Tabs : PageStep(t)
      /\ \A n \in net' : n \in net \/ (n \in Requests(made) /\ n.op = "delete")
  BY <1>1, AnswerFails DEF PageStep
<1>3. \A n \in net' \cup running' : RequestStep(n)
  BY <1>1, <1>2, RequestStays DEF RequestStep
<1> QED
  BY <1>1, <1>2, <1>3, SessionsGo DEF Classified

LEMMA FinishedPages ==
  ASSUME TypeInv, NEW m \in running, Finished(m)
  PROVE  /\ tab' = [t \in Tabs |-> tab'[t]] /\ \A t \in Tabs : PageStep(t)
         /\ \A n \in net' : n \in net \/ (n \in Requests(made) /\ n.op = "delete")
<1>1. made \in Nat /\ m \in Requests(made) /\ m.tab \in Tabs /\ m.id \in 1 .. made
  BY DEF TypeInv, RequestsOK, Requests
<1>2. tab[m.tab] \in Pages(made) /\ tab \in [Tabs -> Pages(made)]
  BY <1>1 DEF TypeInv, PagesOK
<1>3. PICK verdict : verdict = Verdict(sessions[m.id], m.mode = "validate")
  OBVIOUS
<1>4. IF verdict = "refused"
      THEN Answered(m, FALSE, None)
      ELSE /\ tab' = IF Awaits(tab[m.tab], m)
                     THEN [tab EXCEPT ![m.tab] = Settled(tab[m.tab], m.id, verdict)] ELSE tab
           /\ net' = IF Awaits(tab[m.tab], m) /\ m.mode = "validate" /\ verdict = "already"
                     THEN net \cup Cancel(m.tab, m.id) ELSE net
  BY <1>3 DEF Finished
<1>5. CASE verdict = "refused"
  BY <1>4, <1>5, AnswerFails DEF PageStep
<1>6. CASE verdict # "refused"
  <2>1. PICK q : q = Settled(tab[m.tab], m.id, verdict)
    OBVIOUS
  <2>2. q \in Pages(made) /\ q.pc = "idle"
    BY <1>1, <1>2, <2>1 DEF Settled, Idle, Page, Pages
  <2>3. \A n \in Cancel(m.tab, m.id) : n \in Requests(made) /\ n.op = "delete"
    BY <1>1, RemovalOfPage
  <2>4. \A n \in net' : n \in net \/ (n \in Requests(made) /\ n.op = "delete")
    BY <1>4, <1>6, <2>3
  <2>5. CASE tab' = tab
    BY <1>2, <2>4, <2>5 DEF PageStep
  <2>6. CASE tab' = [tab EXCEPT ![m.tab] = q]
    <3>1. tab' = [t \in Tabs |-> tab'[t]]
          /\ tab'[m.tab] = q /\ \A u \in Tabs \ {m.tab} : tab'[u] = tab[u]
      BY <1>1, <1>2, <2>6, SameButOne
    <3> QED
      BY <2>2, <2>4, <3>1 DEF PageStep, Rests
  <2> QED
    BY <1>4, <1>6, <2>1, <2>5, <2>6
<1> QED
  BY <1>5, <1>6

(* What a finished request leaves of the sessions.                            *)
LEMMA FinishedSessions ==
  ASSUME TypeInv, NEW m \in running, Finished(m)
  PROVE  /\ DOMAIN sessions' \subseteq Live
         /\ sessions' = [i \in DOMAIN sessions' |-> sessions'[i]]
         /\ \A i \in DOMAIN sessions' :
              LET verdict == Verdict(sessions[m.id], m.mode = "validate")
                  wrote == m.mode = "import" /\ verdict = "done"
              IN  /\ sessions'[i] \in SessionRecords /\ SameFiles(sessions'[i], sessions[i])
                  /\ sessions'[i].busy = IF i = m.id THEN FALSE ELSE sessions[i].busy
                  /\ sessions'[i].passed = IF wrote THEN FALSE
                                           ELSE IF i = m.id THEN verdict = "done" ELSE sessions[i].passed
<1>1. PICK verdict : verdict = Verdict(sessions[m.id], m.mode = "validate")
  OBVIOUS
<1>2. PICK wrote \in BOOLEAN : wrote = (m.mode = "import" /\ verdict = "done")
  OBVIOUS
<1>3. PICK done \in BOOLEAN : done = (verdict = "done")
  OBVIOUS
<1>4. PICK D : D = IF m.mode = "validate" /\ verdict # "refused" THEN Live ELSE Live \ {m.id}
  OBVIOUS
<1>5. sessions' = [i \in D |->
              [sessions[i] EXCEPT
                 !.busy = IF i = m.id THEN FALSE ELSE @,
                 !.passed = IF wrote THEN FALSE ELSE IF i = m.id THEN verdict = "done" ELSE @]]
  BY <1>1, <1>2, <1>4 DEF Finished
<1>6. DOMAIN sessions' = D /\ D \subseteq Live
  BY <1>4, <1>5
<1>7. ASSUME NEW i \in D
      PROVE  /\ sessions'[i] \in SessionRecords /\ SameFiles(sessions'[i], sessions[i])
             /\ sessions'[i].busy = IF i = m.id THEN FALSE ELSE sessions[i].busy
             /\ sessions'[i].passed = IF wrote THEN FALSE
                                      ELSE IF i = m.id THEN verdict = "done" ELSE sessions[i].passed
  <2>1. sessions[i] \in SessionRecords
    BY <1>6 DEF TypeInv, SessionsOK
  <2>2. PICK b \in BOOLEAN : b = IF i = m.id THEN FALSE ELSE sessions[i].busy
    BY <2>1 DEF SessionRecords
  <2>3. PICK p \in BOOLEAN : p = IF wrote THEN FALSE ELSE IF i = m.id THEN done ELSE sessions[i].passed
    BY <2>1 DEF SessionRecords
  <2>4. sessions'[i] = [[sessions[i] EXCEPT !.busy = b] EXCEPT !.passed = p]
    <3>1. sessions'[i] = [sessions[i] EXCEPT
                 !.busy = IF i = m.id THEN FALSE ELSE sessions[i].busy,
                 !.passed = IF wrote THEN FALSE ELSE IF i = m.id THEN done ELSE sessions[i].passed]
      BY <1>3, <1>5
    <3> QED
      BY <2>2, <2>3, <3>1
  <2>5. [sessions[i] EXCEPT !.busy = b] \in SessionRecords
    BY <2>1 DEF SessionRecords
  <2>6. sessions'[i] \in SessionRecords
    BY <2>4, <2>5 DEF SessionRecords
  <2>7. SameFiles(sessions'[i], sessions[i]) /\ sessions'[i].busy = b /\ sessions'[i].passed = p
    BY <2>1, <2>4 DEF SessionRecords, SameFiles
  <2> QED
    BY <1>3, <2>2, <2>3, <2>6, <2>7
<1>8. sessions' = [i \in DOMAIN sessions' |-> sessions'[i]]
  BY <1>5
<1> QED
  BY <1>1, <1>2, <1>6, <1>7, <1>8

LEMMA FinishedIsClassified ==
  ASSUME TypeInv, NEW m \in running, Finished(m)
  PROVE  Classified
<1>1. running' = running \ {m} /\ UNCHANGED <<owner, made>>
  BY DEF Finished
<1>2. /\ tab' = [t \in Tabs |-> tab'[t]] /\ \A t \in Tabs : PageStep(t)
      /\ \A n \in net' : n \in net \/ (n \in Requests(made) /\ n.op = "delete")
  BY FinishedPages
<1>3. \A n \in net' \cup running' : RequestStep(n)
  BY <1>1, <1>2, RequestStays DEF RequestStep
<1>4. sessions' = [i \in DOMAIN sessions' |-> sessions'[i]] /\ \A i \in DOMAIN sessions' : SessionStep(i)
  BY FinishedSessions DEF SessionStep
<1> QED
  BY <1>1, <1>2, <1>3, <1>4 DEF Classified

LEMMA SurroundingsAreClassified ==
  ASSUME TypeInv, (\E i \in Ids : Expire(i)) \/ Crash \/ (\E d \in SyncDates : Sync(d)) \/ UNCHANGED vars
  PROVE  Classified
<1>1. CASE \E i \in Ids : Expire(i)
  <2>1. UNCHANGED <<owner, tab, net, running, made>> /\ \E i \in Ids : sessions' = Without({i})
    BY <1>1 DEF Expire
  <2> QED
    BY <2>1, PagesStay, SessionsGo DEF Classified
<1>2. CASE Crash
  <2>1. /\ sessions' = [i \in {} |-> 0] /\ running' = {} /\ net' = {} /\ UNCHANGED <<owner, made>>
        /\ tab' = [t \in Tabs |-> IF tab[t].pc = "idle" THEN tab[t] ELSE Failed(tab[t])]
    BY <1>2 DEF Crash
  <2>2. made \in Nat /\ tab \in [Tabs -> Pages(made)]
    BY DEF TypeInv, PagesOK
  <2>3. \A t \in Tabs : Failed(tab[t]) \in Pages(made) /\ Failed(tab[t]).pc = "idle"
    BY <2>2, PageFails
  <2>4. \A t \in Tabs : PageStep(t)
    BY <2>1, <2>3 DEF PageStep, Rests
  <2> QED
    BY <2>1, <2>4 DEF Classified
<1>3. CASE \E d \in SyncDates : Sync(d)
  <2>1. UNCHANGED <<owner, tab, net, running, made>>
        /\ sessions' = [i \in Live |-> [sessions[i] EXCEPT !.passed = FALSE]]
    BY <1>3 DEF Sync
  <2>2. PICK f : f = [i \in Live |-> [sessions[i] EXCEPT !.passed = FALSE]]
    OBVIOUS
  <2>3. sessions' = [i \in Live |-> f[i]]
    BY <2>1, <2>2
  <2>4. \A i \in Live : f[i] \in SessionRecords /\ SameFiles(f[i], sessions[i])
    BY <2>2 DEF TypeInv, SessionsOK, SessionRecords, SameFiles
  <2> QED
    BY <2>1, <2>3, <2>4, PagesStay, SessionsTurn DEF Classified
<1>4. CASE UNCHANGED vars
  BY <1>4, PagesStay, SessionsStay DEF vars, Classified
<1> QED
  BY <1>1, <1>2, <1>3, <1>4

(* Every step is one of the classes, whatever else it does.                   *)
LEMMA StepIsClassified ==
  ASSUME TypeInv, UnheardInv, [Next]_vars
  PROVE  Classified
<1>1. CASE \E t \in Tabs : Submit(t) \/ Disconnected(t)
  BY <1>1, SubmitIsClassified, DisconnectedIsClassified
<1>2. CASE \E t \in Tabs : StartDrops(t) \/ StartMakes(t) \/ StartAnswers(t)
  BY <1>2, StartIsClassified, StartAnswersIsClassified
<1>3. CASE \E m \in net : Begin(m) \/ Refuse(m) \/ Remove(m) \/ Resend(m)
  BY <1>3, BeginIsClassified, RefuseIsClassified, RemoveIsClassified, ResendIsClassified
<1>4. CASE \E m \in running : Written(m) \/ Broken(m) \/ Finished(m)
  BY <1>4, WrittenIsClassified, BrokenIsClassified, FinishedIsClassified
<1>5. CASE \E u \in unheard : UnheardDrops(u) \/ UnheardMakes(u) \/ UnheardAnswers(u)
  BY <1>5, UnheardIsClassified
<1> QED
  BY <1>1, <1>2, <1>3, <1>4, <1>5, SurroundingsAreClassified DEF Next

-----------------------------------------------------------------------------
(* Types.                                                                     *)

LEMMA AppendedIsTyped ==
  ASSUME NEW n \in Nat, NEW m \in Requests(n), m.op = "put", NEW s \in SessionRecords
  PROVE  /\ Appended(s, m) \in SessionRecords
         /\ Appended(s, m).expected = s.expected
         /\ Appended(s, m).received = [s.received EXCEPT ![m.kind] = s.received[m.kind] + 1]
         /\ Appended(s, m).written = [s.written EXCEPT ![m.kind] = Writes(s, m)]
         /\ Appended(s, m).passed = s.passed
<1>1. m.kind \in Kinds /\ m.file \in Exports /\ m.offset \in Nat
  BY DEF Requests
<1>2. PICK r : r = [s.received EXCEPT ![m.kind] = s.received[m.kind] + 1]
  OBVIOUS
<1>3. PICK w : w = [s.written EXCEPT ![m.kind] = Writes(s, m)]
  OBVIOUS
<1>4. s.received \in [Kinds -> Nat] /\ s.written \in [Kinds -> SUBSET (Nat \X Exports)]
      /\ s.expected \in [Kinds -> Nat] /\ s.owner \in Owners /\ s.passed \in BOOLEAN
  BY DEF SessionRecords
<1>5. r \in [Kinds -> Nat]
  BY <1>1, <1>2, <1>4
<1>6. Writes(s, m) \in SUBSET (Nat \X Exports)
  BY <1>1, <1>4 DEF Writes
<1>7. w \in [Kinds -> SUBSET (Nat \X Exports)]
  BY <1>1, <1>3, <1>4, <1>6
<1>8. Appended(s, m) = [s EXCEPT !.received = r, !.written = w, !.busy = FALSE]
  BY <1>2, <1>3 DEF Appended, SessionRecords
<1>9. Appended(s, m) = [owner |-> s.owner, expected |-> s.expected, received |-> r, written |-> w,
                        busy |-> FALSE, passed |-> s.passed]
  BY <1>8 DEF SessionRecords
<1> QED
  BY <1>2, <1>3, <1>4, <1>5, <1>7, <1>9 DEF SessionRecords

LEMMA TypeInit ==
  ASSUME Init
  PROVE  TypeInv
<1>1. NoPage \in Pages(0)
  BY DEF NoPage, Page, Pages
<1> QED
  BY <1>1 DEF Init, TypeInv, PagesOK, RequestsOK, SessionsOK, Live

LEMMA TypeStep ==
  ASSUME TypeInv, RunningInv, Classified
  PROVE  TypeInv'
<1>1. made \in Nat /\ made' \in Nat /\ made <= made' /\ owner' \in SignIns
  BY DEF TypeInv, Classified
<1>2. Pages(made) \subseteq Pages(made') /\ Requests(made) \subseteq Requests(made')
  BY <1>1, PagesGrow
<1>3. PagesOK'
  <2>1. ASSUME NEW t \in Tabs
        PROVE  tab'[t] \in Pages(made')
    BY <1>2 DEF TypeInv, PagesOK, Classified, PageStep, Rests, GoesOn, Opens
  <2> QED
    BY <2>1 DEF Classified, PagesOK
<1>4. RequestsOK'
  BY DEF Classified, RequestStep, RequestsOK
<1>5. SessionsOK'
  <2>1. ASSUME NEW i \in DOMAIN sessions'
        PROVE  sessions'[i] \in SessionRecords /\ i \in 1 .. made'
    <3> 1 .. made \subseteq 1 .. made' /\ Live \subseteq 1 .. made'
      BY <1>1 DEF TypeInv, SessionsOK
    <3>1. CASE i \in Live /\ sessions'[i] \in SessionRecords
      BY <3>1
    <3>2. CASE made' = made + 1 /\ i = made' /\ sessions'[i] \in SessionRecords
      BY <1>1, <3>2
    <3>3. ASSUME NEW m \in running, m.op = "put", m.id = i, sessions'[i] = Appended(sessions[i], m)
          PROVE  sessions'[i] \in SessionRecords /\ i \in 1 .. made'
      <4>1. i \in Live /\ m \in Requests(made) /\ sessions[i] \in SessionRecords
        BY <3>3 DEF RunningInv, TypeInv, RequestsOK, SessionsOK
      <4>2. PICK s \in SessionRecords : s = sessions[i]
        BY <4>1
      <4>3. Appended(s, m) \in SessionRecords
        BY <1>1, <3>3, <4>1, AppendedIsTyped
      <4> QED
        BY <3>3, <4>1, <4>2, <4>3
    <3> QED
      BY <2>1, <3>1, <3>2, <3>3 DEF Classified, SessionStep
  <2> QED
    BY <2>1 DEF Classified, SessionsOK, Live
<1> QED
  BY <1>1, <1>3, <1>4, <1>5 DEF TypeInv

(* The starts nobody waits for are of pages that had something selected.      *)
LEMMA UnheardStep ==
  ASSUME TypeInv, UnheardInv, [Next]_vars
  PROVE  UnheardInv'
<1>1. ASSUME unheard' \subseteq unheard
      PROVE  UnheardInv'
  BY <1>1 DEF UnheardInv
<1>2. ASSUME NEW t \in Tabs, Submit(t)
      PROVE  unheard' \subseteq unheard
  BY <1>2, Zenon DEF Submit
<1>3. ASSUME NEW t \in Tabs, Disconnected(t)
      PROVE  UnheardInv'
  <2>1. CASE UNCHANGED unheard
    BY <1>1, <2>1
  <2>2. CASE tab[t].pc \in {"start", "making"} /\ unheard' = unheard \cup {Start(t)}
    <3>1. tab[t] \in Pages(made)
      BY DEF TypeInv, PagesOK
    <3>2. Start(t).of = t /\ Start(t).files = tab[t].files
      BY DEF Start
    <3>3. tab[t].files \in Selections
      BY <2>2, <3>1 DEF Pages
    <3> QED
      BY <2>2, <3>2, <3>3 DEF UnheardInv
  <2> QED
    BY <1>3, <2>1, <2>2 DEF Disconnected
<1>4. ASSUME NEW t \in Tabs, StartDrops(t) \/ StartMakes(t) \/ StartAnswers(t)
      PROVE  unheard' \subseteq unheard
  <2>1. CASE StartAnswers(t)
    BY <2>1, Zenon DEF StartAnswers
  <2> QED
    BY <1>4, <2>1 DEF StartDrops, StartMakes
<1>5. ASSUME NEW u \in unheard, UnheardDrops(u) \/ UnheardMakes(u) \/ UnheardAnswers(u)
      PROVE  UnheardInv'
  <2>1. CASE UnheardDrops(u)
    BY <1>1, <2>1 DEF UnheardDrops
  <2>2. CASE UnheardMakes(u)
    <3>1. PICK v : v = [u EXCEPT !.pc = "making"]
      OBVIOUS
    <3>2. v.of = u.of /\ v.files = u.files
      BY <3>1
    <3> QED
      BY <2>2, <3>1, <3>2 DEF UnheardMakes, UnheardInv
  <2>3. CASE UnheardAnswers(u)
    <3>1. unheard' = unheard \ {u}
      BY <2>3, Zenon DEF UnheardAnswers
    <3> QED
      BY <1>1, <3>1
  <2> QED
    BY <1>5, <2>1, <2>2, <2>3
<1>6. ASSUME NEW m \in net, Begin(m) \/ Refuse(m) \/ Remove(m) \/ Resend(m)
      PROVE  unheard' \subseteq unheard
  BY <1>6 DEF Begin, Refuse, Remove, Resend
<1>7. ASSUME NEW m \in running, Written(m) \/ Broken(m) \/ Finished(m)
      PROVE  unheard' \subseteq unheard
  <2>1. CASE Finished(m)
    BY <2>1, Zenon DEF Finished
  <2> QED
    BY <1>7, <2>1 DEF Written, Broken
<1>8. ASSUME (\E i \in Ids : Expire(i)) \/ Crash \/ (\E d \in SyncDates : Sync(d)) \/ UNCHANGED vars
      PROVE  unheard' \subseteq unheard
  BY <1>8 DEF Expire, Crash, Sync, vars
<1> QED
  BY <1>1, <1>2, <1>3, <1>4, <1>5, <1>6, <1>7, <1>8 DEF Next

-----------------------------------------------------------------------------
(* One request of a session at a time.                                        *)

LEMMA RunningStays ==
  ASSUME TypeInv, RunningInv, running' \subseteq running,
         \A n \in running' : /\ n.id \in DOMAIN sessions' /\ sessions'[n.id].busy
                             /\ SameFiles(sessions'[n.id], sessions[n.id])
  PROVE  RunningInv'
<1>1. ASSUME NEW n \in running', n.op = "put"
      PROVE  Fits(n)'
  BY <1>1 DEF RunningInv, Fits, SameFiles
<1>2. ASSUME NEW n \in running', n.op = "finish"
      PROVE  Complete(sessions'[n.id])
  BY <1>2 DEF RunningInv, Complete, SameFiles
<1> QED
  BY <1>1, <1>2 DEF RunningInv, Live, Fits, Complete

LEMMA RunningWithout ==
  ASSUME TypeInv, RunningInv, UNCHANGED running, NEW id, sessions' = Without({id}),
         id \in Live => ~sessions[id].busy
  PROVE  RunningInv'
<1>1. ASSUME NEW n \in running'
      PROVE  /\ n.id \in DOMAIN sessions' /\ sessions'[n.id].busy
             /\ SameFiles(sessions'[n.id], sessions[n.id])
  <2>1. n.id \in Live /\ sessions[n.id].busy
    BY DEF RunningInv
  <2> QED
    BY <2>1 DEF Without, SameFiles
<1> QED
  BY <1>1, RunningStays

LEMMA RunningSame ==
  ASSUME TypeInv, RunningInv, UNCHANGED <<running, sessions>>
  PROVE  RunningInv'
BY RunningStays DEF RunningInv, Live, SameFiles

(* The request the server has ended was the only one of its session.          *)
LEMMA RunningEnds ==
  ASSUME TypeInv, RunningInv, NEW m \in running, running' = running \ {m},
         \A i \in Live \ {m.id} : /\ i \in DOMAIN sessions' /\ sessions'[i].busy = sessions[i].busy
                                  /\ SameFiles(sessions'[i], sessions[i])
  PROVE  RunningInv'
<1>1. ASSUME NEW n \in running'
      PROVE  n.id \in Live \ {m.id} /\ sessions[n.id].busy
  BY DEF RunningInv
<1> QED
  BY <1>1, RunningStays

LEMMA RunningBegins ==
  ASSUME TypeInv, RunningInv, NEW m \in net, Begin(m)
  PROVE  RunningInv'
<1>1. m.op \in {"put", "finish"} /\ Accepts(m)
      /\ sessions' = With(m.id, [sessions[m.id] EXCEPT !.busy = TRUE]) /\ running' = running \cup {m}
  BY DEF Begin
<1>2. m.id \in Live /\ ~sessions[m.id].busy /\ (m.op = "put" => Fits(m))
      /\ (m.op = "finish" => Complete(sessions[m.id]))
  BY <1>1 DEF Accepts
<1>3. sessions[m.id] \in SessionRecords
  BY <1>2 DEF TypeInv, SessionsOK
<1>4. sessions'[m.id].busy /\ SameFiles(sessions'[m.id], sessions[m.id])
  BY <1>1, <1>3 DEF With, SessionRecords, SameFiles
<1>5. DOMAIN sessions' = Live /\ \A i \in Live \ {m.id} : sessions'[i] = sessions[i]
  BY <1>1, <1>2 DEF With
<1>6. \A n \in running : n.id # m.id
  BY <1>2 DEF RunningInv
<1>7. \A n \in running' : /\ n.op \in {"put", "finish"} /\ n.id \in Live /\ sessions'[n.id].busy
                          /\ SameFiles(sessions'[n.id], sessions[n.id])
                          /\ (n.op = "put" => Fits(n)) /\ (n.op = "finish" => Complete(sessions[n.id]))
                          /\ \A k \in running' : k.id = n.id => k = n
  BY <1>1, <1>2, <1>4, <1>5, <1>6 DEF RunningInv, SameFiles
<1>8. ASSUME NEW n \in running', n.op = "put"
      PROVE  Fits(n)'
  BY <1>7, <1>8 DEF Fits, SameFiles
<1>9. ASSUME NEW n \in running', n.op = "finish"
      PROVE  Complete(sessions'[n.id])
  BY <1>7, <1>9 DEF Complete, SameFiles
<1> QED
  BY <1>5, <1>7, <1>8, <1>9 DEF RunningInv, Live, Fits, Complete

LEMMA RunningStep ==
  ASSUME TypeInv, RunningInv, [Next]_vars
  PROVE  RunningInv'
<1>1. ASSUME NEW t \in Tabs, StartDrops(t)
      PROVE  RunningInv'
  <2>1. PICK i \in Own(t) : /\ UNCHANGED sessions \/ (~sessions[i].busy /\ sessions' = Without({i}))
                            /\ UNCHANGED running
    BY <1>1 DEF StartDrops
  <2> QED
    BY <2>1, RunningSame, RunningWithout
<1>2. ASSUME NEW t \in Tabs, StartAnswers(t)
      PROVE  RunningInv'
  <2>1. PICK id : id = made + 1
    OBVIOUS
  <2>2. PICK s : s = NewSession(owner[t], tab[t].files)
    OBVIOUS
  <2>3. sessions' = With(id, s) /\ UNCHANGED running /\ id \notin Live
    BY <1>2, <2>1, <2>2 DEF StartAnswers, TypeInv, SessionsOK
  <2> QED
    BY <2>3, RunningStays DEF With, RunningInv, SameFiles
<1>3. ASSUME NEW u \in unheard, UnheardAnswers(u)
      PROVE  RunningInv'
  <2>1. PICK id : id = made + 1
    OBVIOUS
  <2>2. PICK s : s = NewSession(owner[u.of], u.files)
    OBVIOUS
  <2>3. sessions' = With(id, s) /\ UNCHANGED running /\ id \notin Live
    BY <1>3, <2>1, <2>2 DEF UnheardAnswers, TypeInv, SessionsOK
  <2> QED
    BY <2>3, RunningStays DEF With, RunningInv, SameFiles
<1>4. ASSUME NEW u \in unheard, UnheardDrops(u) \/ UnheardMakes(u)
       PROVE  RunningInv'
  <2>1. /\ UNCHANGED sessions \/ \E i \in Own(u.of) : ~sessions[i].busy /\ sessions' = Without({i})
        /\ UNCHANGED running
    BY <1>4 DEF UnheardDrops, UnheardMakes
  <2> QED
    BY <2>1, RunningSame, RunningWithout
<1>5. ASSUME NEW m \in net, Remove(m)
      PROVE  RunningInv'
  <2>1. UNCHANGED running /\ (UNCHANGED sessions \/ (Accepts(m) /\ sessions' = Without({m.id})))
    BY <1>5 DEF Remove
  <2> QED
    BY <2>1, RunningSame, RunningWithout DEF Accepts
<1>6. ASSUME NEW m \in running, Written(m)
      PROVE  RunningInv'
  <2>1. PICK s : s = Appended(sessions[m.id], m)
    OBVIOUS
  <2>2. running' = running \ {m} /\ sessions' = With(m.id, s)
    BY <1>6, <2>1 DEF Written
  <2> QED
    BY <2>2, RunningEnds DEF With, SameFiles
<1>7. ASSUME NEW m \in running, Broken(m)
      PROVE  RunningInv'
  <2>1. running' = running \ {m} /\ sessions' = Without({m.id})
    BY <1>7 DEF Broken
  <2> QED
    BY <2>1, RunningEnds DEF Without, SameFiles
<1>8. ASSUME NEW m \in running, Finished(m)
      PROVE  RunningInv'
  <2>1. running' = running \ {m} /\ Live \ {m.id} \subseteq DOMAIN sessions'
    BY <1>8 DEF Finished
  <2>2. \A i \in DOMAIN sessions' : /\ SameFiles(sessions'[i], sessions[i])
                                    /\ i # m.id => sessions'[i].busy = sessions[i].busy
    BY <1>8, FinishedSessions
  <2> QED
    BY <2>1, <2>2, RunningEnds
<1>9. ASSUME NEW i \in Ids, Expire(i)
      PROVE  RunningInv'
  BY <1>9, RunningWithout DEF Expire
<1>10. CASE Crash
  BY <1>10 DEF Crash, RunningInv
<1>11. ASSUME NEW d \in SyncDates, Sync(d)
      PROVE  RunningInv'
  <2>1. sessions' = [i \in Live |-> [sessions[i] EXCEPT !.passed = FALSE]] /\ UNCHANGED running
    BY <1>11 DEF Sync
  <2>2. \A i \in Live : SameFiles(sessions'[i], sessions[i]) /\ sessions'[i].busy = sessions[i].busy
    BY <2>1 DEF TypeInv, SessionsOK, SessionRecords, SameFiles
  <2> QED
    BY <2>1, <2>2, RunningStays DEF RunningInv
<1>12. CASE UNCHANGED <<running, sessions>>
  BY <1>12, RunningSame
<1>13. ASSUME \/ \E t \in Tabs : Submit(t) \/ Disconnected(t) \/ StartMakes(t)
              \/ \E m \in net : Refuse(m) \/ Resend(m)
              \/ UNCHANGED vars
       PROVE  UNCHANGED <<running, sessions>>
  <2>1. ASSUME NEW t \in Tabs, Submit(t)
        PROVE  UNCHANGED <<running, sessions>>
    BY <2>1, Zenon DEF Submit
  <2>2. ASSUME NEW t \in Tabs, Disconnected(t) \/ StartMakes(t)
        PROVE  UNCHANGED <<running, sessions>>
    BY <2>2 DEF Disconnected, StartMakes
  <2>3. ASSUME NEW m \in net, Refuse(m) \/ Resend(m)
        PROVE  UNCHANGED <<running, sessions>>
    BY <2>3 DEF Refuse, Resend
  <2>4. CASE UNCHANGED vars
    BY <2>4 DEF vars
  <2> QED
    BY <1>13, <2>1, <2>2, <2>3, <2>4
<1> QED
  <2>1. ASSUME \E t \in Tabs : Submit(t) \/ Disconnected(t)
        PROVE  RunningInv'
    BY <1>12, <1>13, <2>1
  <2>2. ASSUME \E t \in Tabs : StartDrops(t) \/ StartMakes(t) \/ StartAnswers(t)
        PROVE  RunningInv'
    BY <1>1, <1>2, <1>12, <1>13, <2>2
  <2>3. ASSUME \E m \in net : Begin(m) \/ Refuse(m) \/ Remove(m) \/ Resend(m)
        PROVE  RunningInv'
    BY <1>5, <1>12, <1>13, <2>3, RunningBegins
  <2>4. ASSUME \E m \in running : Written(m) \/ Broken(m) \/ Finished(m)
        PROVE  RunningInv'
    BY <1>6, <1>7, <1>8, <2>4
  <2>5. CASE UNCHANGED vars
    BY <1>12, <1>13, <2>5
  <2> QED
    BY <1>3, <1>4, <1>9, <1>10, <1>11, <2>1, <2>2, <2>3, <2>4, <2>5 DEF Next

-----------------------------------------------------------------------------
(* What is on disk.                                                           *)

LEMMA AppendedIsOnDisk ==
  ASSUME NEW n \in Nat, NEW m \in Requests(n), m.op = "put", NEW s \in SessionRecords,
         NEW pair \in Selections, m.file = pair[m.kind], OnDisk(s, pair),
         m.offset = s.received[m.kind]
  PROVE  OnDisk(Appended(s, m), pair)
<1>1. m.kind \in Kinds /\ s.received[m.kind] \in Nat /\ s.received \in [Kinds -> Nat]
      /\ s.written \in [Kinds -> SUBSET (Nat \X Exports)]
  BY DEF Requests, SessionRecords
<1>2. PICK r \in Nat : r = s.received[m.kind]
  BY <1>1
<1>3. PICK e : e = pair[m.kind]
  OBVIOUS
<1>4. s.written[m.kind] = {<<o, e>> : o \in 0 .. r - 1}
  BY <1>1, <1>2, <1>3 DEF OnDisk
<1>5. Writes(s, m) = {<<o, e>> : o \in 0 .. (r + 1) - 1}
  <2>1. Writes(s, m) = (IF r = 0 THEN {} ELSE {w \in s.written[m.kind] : w[1] # r}) \cup {<<r, e>>}
    BY <1>2, <1>3 DEF Writes
  <2>2. 0 .. (r + 1) - 1 = (0 .. r - 1) \cup {r} /\ r \notin 0 .. r - 1
    OBVIOUS
  <2>3. (r = 0) => s.written[m.kind] = {}
    BY <1>4
  <2>4. \A w \in s.written[m.kind] : w[1] # r
    BY <1>4, <2>2
  <2>5. Writes(s, m) = s.written[m.kind] \cup {<<r, e>>}
    BY <2>1, <2>3, <2>4
  <2>6. {<<o, e>> : o \in 0 .. (r + 1) - 1} = {<<o, e>> : o \in 0 .. r - 1} \cup {<<r, e>>}
    BY <2>2
  <2> QED
    BY <1>4, <2>5, <2>6
<1>6. /\ Appended(s, m).received = [s.received EXCEPT ![m.kind] = r + 1]
      /\ Appended(s, m).written = [s.written EXCEPT ![m.kind] = Writes(s, m)]
  BY <1>2, AppendedIsTyped
<1>7. /\ Appended(s, m).received[m.kind] = r + 1 /\ Appended(s, m).written[m.kind] = Writes(s, m)
      /\ \A k \in Kinds \ {m.kind} : /\ Appended(s, m).received[k] = s.received[k]
                                     /\ Appended(s, m).written[k] = s.written[k]
  BY <1>1, <1>6
<1> QED
  BY <1>3, <1>5, <1>7 DEF OnDisk

LEMMA SessionsStep ==
  ASSUME TypeInv, RunningInv, SessionsInv, Classified
  PROVE  SessionsInv'
<1>1. made \in Nat /\ made' \in {made, made + 1}
  BY DEF TypeInv, Classified
<1>2. ASSUME NEW i \in 1 .. made
      PROVE  \E pair \in Selections :
               SentTo(i, pair)' /\ (i \in DOMAIN sessions' => OnDisk(sessions'[i], pair))
  <2>1. PICK pair \in Selections : SentTo(i, pair) /\ (i \in Live => OnDisk(sessions[i], pair))
    BY DEF SessionsInv
  <2>2. ASSUME NEW t \in Tabs, tab'[t].pc = "put", tab'[t].id = i
        PROVE  tab'[t].files = pair
    <3>1. ~Opens(t, made + 1)
      BY <1>1, <2>2 DEF Opens
    <3> QED
      BY <2>1, <2>2, <3>1 DEF Classified, PageStep, Rests, GoesOn, SentTo
  <2>3. ASSUME NEW m \in net' \cup running', m.op = "put", m.id = i
        PROVE  m.file = pair[m.kind]
    BY <2>1, <2>2, <2>3 DEF Classified, RequestStep, PutStep, SentTo
  <2>4. ASSUME i \in DOMAIN sessions'
        PROVE  OnDisk(sessions'[i], pair)
    <3>1. CASE i \in Live /\ SameFiles(sessions'[i], sessions[i])
      BY <2>1, <3>1 DEF OnDisk, SameFiles
    <3>2. ASSUME NEW m \in running, m.op = "put", m.id = i, sessions'[i] = Appended(sessions[i], m)
          PROVE  OnDisk(sessions'[i], pair)
      <4>1. m \in Requests(made) /\ i \in Live /\ sessions[i] \in SessionRecords /\ Fits(m)
        BY <3>2 DEF TypeInv, RequestsOK, SessionsOK, RunningInv
      <4>2. PICK s \in SessionRecords : s = sessions[i]
        BY <4>1
      <4>3. m.file = pair[m.kind] /\ m.offset = s.received[m.kind] /\ OnDisk(s, pair)
        BY <2>1, <3>2, <4>1, <4>2 DEF SentTo, Fits
      <4> QED
        BY <1>1, <3>2, <4>1, <4>2, <4>3, AppendedIsOnDisk
    <3>3. i # made + 1
      BY <1>1
    <3> QED
      BY <1>1, <2>4, <3>1, <3>2, <3>3 DEF Classified, SessionStep
  <2> QED
    BY <2>1, <2>2, <2>3, <2>4 DEF SentTo
<1>3. ASSUME NEW t \in Tabs, NEW i, i = made', made' = made + 1, Opens(t, i)
      PROVE  \E pair \in Selections :
               SentTo(i, pair)' /\ (i \in DOMAIN sessions' => OnDisk(sessions'[i], pair))
  <2>1. PICK pair : pair = tab'[t].files
    OBVIOUS
  <2>2. /\ tab'[t].pc = "put" /\ tab'[t].id = i /\ pair \in Selections
        /\ sessions'[i] = NewSession(owner[t], pair) /\ \A u \in Tabs \ {t} : tab'[u] = tab[u]
    BY <1>1, <1>3, <2>1 DEF Opens, Pages
  <2>3. \A u \in Tabs : tab[u].id # i
    <3>1. \A u \in Tabs : tab[u].id \in (1 .. made) \cup {None}
      BY DEF TypeInv, PagesOK, Pages
    <3> QED
      BY <1>1, <1>3, <3>1, NoneIsApart
  <2>4. \A n \in net \cup running : n.id # i
    <3>1. \A n \in net \cup running : n.id \in 1 .. made
      BY DEF TypeInv, RequestsOK, Requests
    <3> QED
      BY <1>1, <1>3, <3>1
  <2>5. \A u \in Tabs : tab'[u].id = i => tab'[u].files = pair
    BY <2>1, <2>2, <2>3
  <2>6. ASSUME NEW m \in net' \cup running', m.op = "put", m.id = i
        PROVE  m.file = pair[m.kind]
    BY <2>4, <2>5, <2>6 DEF Classified, RequestStep, PutStep
  <2>7. OnDisk(sessions'[i], pair)
    <3>1. \A k \in Kinds : sessions'[i].written[k] = {} /\ sessions'[i].received[k] = 0
      BY <2>2 DEF NewSession
    <3>2. 0 .. 0 - 1 = {}
      OBVIOUS
    <3> QED
      BY <3>1, <3>2 DEF OnDisk
  <2> QED
    BY <2>2, <2>5, <2>6, <2>7 DEF SentTo
<1>4. ASSUME NEW i, i = made', made' = made + 1, OpensUnheard(i)
      PROVE  \E pair \in Selections :
               SentTo(i, pair)' /\ (i \in DOMAIN sessions' => OnDisk(sessions'[i], pair))
  <2>1. PICK t \in Tabs, pair \in Selections : sessions'[i] = NewSession(owner[t], pair)
    BY <1>4 DEF OpensUnheard
  <2>2. \A u \in Tabs : tab'[u].id # i
    <3>1. \A u \in Tabs : tab[u].id \in (1 .. made) \cup {None}
      BY DEF TypeInv, PagesOK, Pages
    <3> QED
      BY <1>1, <1>4, <3>1, NoneIsApart DEF OpensUnheard
  <2>3. \A n \in net \cup running : n.id # i
    <3>1. \A n \in net \cup running : n.id \in 1 .. made
      BY DEF TypeInv, RequestsOK, Requests
    <3> QED
      BY <1>1, <1>4, <3>1
  <2>4. ASSUME NEW m \in net' \cup running', m.op = "put"
        PROVE  m.id # i
    BY <2>2, <2>3, <2>4 DEF Classified, RequestStep, PutStep
  <2>5. OnDisk(sessions'[i], pair)
    <3>1. \A k \in Kinds : sessions'[i].written[k] = {} /\ sessions'[i].received[k] = 0
      BY <2>1 DEF NewSession
    <3>2. 0 .. 0 - 1 = {}
      OBVIOUS
    <3> QED
      BY <3>1, <3>2 DEF OnDisk
  <2> QED
    BY <2>2, <2>4, <2>5 DEF SentTo
<1>5. ASSUME NEW i \in 1 .. made'
      PROVE  \E pair \in Selections :
               SentTo(i, pair)' /\ (i \in DOMAIN sessions' => OnDisk(sessions'[i], pair))
  <2>1. CASE i \in 1 .. made
    BY <1>2, <2>1
  <2>2. CASE i \notin 1 .. made
    <3>1. made' = made + 1 /\ i = made'
      BY <1>1, <2>2
    <3>2. OpensUnheard(i) \/ \E t \in Tabs : Opens(t, i)
      BY <1>1, <3>1 DEF Classified
    <3> QED
      BY <1>3, <1>4, <3>1, <3>2
  <2> QED
    BY <2>1, <2>2
<1> QED
  BY <1>5 DEF SessionsInv, Live

-----------------------------------------------------------------------------
(* The importer.                                                              *)

(* What is on disk is one pair of files or none.                              *)
LEMMA ReadableIsOne ==
  ASSUME NEW s, NEW p \in Readable(s)
  PROVE  Readable(s) = {p} /\ (CHOOSE pair \in Readable(s) : TRUE) = p
<1>1. ASSUME NEW q \in Readable(s)
      PROVE  q = p
  <2>1. p \in [Kinds -> Exports] /\ q \in [Kinds -> Exports]
    BY SelectionIsTyped DEF Readable
  <2>2. ASSUME NEW k \in Kinds
        PROVE  q[k] = p[k]
    <3>1. Size[p[k]][k] \in Nat \ {0} /\ Size[q[k]][k] \in Nat \ {0}
      BY SelectionIsTyped DEF Readable
    <3>2. {<<o, p[k]>> : o \in 0 .. Size[p[k]][k] - 1} = {<<o, q[k]>> : o \in 0 .. Size[q[k]][k] - 1}
      BY DEF Readable, Holds
    <3>3. 0 \in 0 .. Size[p[k]][k] - 1
      BY <3>1
    <3>4. <<0, p[k]>> \in {<<o, q[k]>> : o \in 0 .. Size[q[k]][k] - 1}
      BY <3>2, <3>3
    <3> QED
      BY <3>4
  <2> QED
    BY <2>1, <2>2
<1> QED
  BY <1>1

LEMMA DoneIsImportable ==
  ASSUME NEW s, NEW b \in BOOLEAN
  PROVE  (Verdict(s, b) = "done") <=> Importable(s)
<1>1. CASE Readable(s) = {}
  BY <1>1 DEF Verdict, Importable, Readable
<1>2. ASSUME NEW p \in Readable(s)
      PROVE  (Verdict(s, b) = "done") <=> Importable(s)
  <2>1. Readable(s) = {p}
    BY ReadableIsOne
  <2>2. Importable(s) <=> Agreeing(p) /\ ~Already(p) /\ Vacant(p)
    BY <2>1 DEF Importable, Readable
  <2> QED
    BY <2>1, <2>2 DEF Verdict
<1> QED
  BY <1>1, <1>2

(* An import that is done writes all its dates, which were vacant; any other  *)
(* one writes none.                                                           *)
LEMMA ImportWritesAll ==
  ASSUME DaysInv, NEW s, NEW p \in Readable(s), Importable(s)
  PROVE  /\ p \in Selections /\ Readable(s) = {p} /\ Vacant(p)
         /\ Imported(s, "done") =
              [d \in Dates |-> IF d \in Days[p["daily"]] THEN p["daily"] ELSE day[d]]
<1>1. Readable(s) = {p} /\ (CHOOSE pair \in Readable(s) : TRUE) = p
  BY ReadableIsOne
<1>2. p \in Selections /\ Vacant(p)
  BY <1>1 DEF Importable, Readable
<1> QED
  BY <1>1, <1>2 DEF Imported

LEMMA RefusalWritesNothing ==
  ASSUME DaysInv, NEW s, NEW verdict, verdict # "done"
  PROVE  Imported(s, verdict) = day
BY DEF DaysInv, Imported

LEMMA FinishedDays ==
  ASSUME DaysInv, ImportsAreWhole, NEW m \in running, Finished(m)
  PROVE  DaysInv' /\ ImportsAreWhole'
<1>1. PICK s : s = sessions[m.id]
  OBVIOUS
<1>2. PICK verdict : verdict = Verdict(s, m.mode = "validate")
  OBVIOUS
<1>3. /\ day' = IF m.mode = "import" THEN Imported(s, verdict) ELSE day
      /\ imports' = IF m.mode = "import" /\ verdict = "done" THEN imports \cup Readable(s) ELSE imports
      /\ faults' = faults
  BY <1>1, <1>2 DEF Finished
<1>4. CASE ~(m.mode = "import" /\ verdict = "done")
  <2>1. UNCHANGED <<day, imports, faults>>
    BY <1>3, <1>4, RefusalWritesNothing
  <2> QED
    BY <2>1 DEF DaysInv, ImportsAreWhole
<1>5. CASE m.mode = "import" /\ verdict = "done"
  <2>1. Importable(s)
    BY <1>2, <1>5, DoneIsImportable
  <2>2. PICK p : p \in Readable(s)
    BY <2>1 DEF Importable, Readable
  <2>3. /\ p \in Selections /\ Readable(s) = {p} /\ Vacant(p)
        /\ Imported(s, "done") = [d \in Dates |-> IF d \in Days[p["daily"]] THEN p["daily"] ELSE day[d]]
    BY <2>1, <2>2, ImportWritesAll
  <2>4. p["daily"] \in Exports
    BY <2>3, SelectionIsTyped DEF Kinds
  <2>5. PICK e \in Exports : e = p["daily"]
    BY <2>4
  <2>6. /\ day' = [d \in Dates |-> IF d \in Days[e] THEN e ELSE day[d]]
        /\ imports' = imports \cup {p} /\ \A d \in Days[e] : day[d] = None
    BY <1>3, <1>5, <2>3, <2>5 DEF Vacant
  <2>7. \A f \in Exports : Days[f] \subseteq Dates
    BY DEF Dates
  <2>8. DaysInv'
    BY <1>3, <2>3, <2>6 DEF DaysInv
  <2>9. ASSUME NEW q \in imports', NEW d \in Days[q["daily"]]
        PROVE  day'[d] \in {q["daily"], "sync"}
    <3>1. CASE q = p
      BY <2>5, <2>6, <2>7, <2>9, <3>1
    <3>2. CASE q \in imports
      <4>1. q["daily"] \in Exports
        BY <3>2, SelectionIsTyped DEF DaysInv, Kinds
      <4>2. day[d] \in {q["daily"], "sync"} /\ d \in Dates
        BY <2>7, <2>9, <3>2, <4>1 DEF ImportsAreWhole
      <4>3. d \notin Days[e]
        BY <2>6, <4>1, <4>2, NoneIsApart
      <4> QED
        BY <2>6, <4>2, <4>3
    <3> QED
      BY <2>6, <2>9, <3>1, <3>2
  <2>10. ASSUME NEW d \in Dates, day'[d] \in Exports
         PROVE  \E q \in imports' : day'[d] = q["daily"]
    BY <2>5, <2>6, <2>10 DEF ImportsAreWhole
  <2> QED
    BY <2>8, <2>9, <2>10 DEF ImportsAreWhole
<1> QED
  BY <1>4, <1>5

LEMMA SyncDays ==
  ASSUME DaysInv, ImportsAreWhole, NEW d \in SyncDates, Sync(d)
  PROVE  DaysInv' /\ ImportsAreWhole'
<1>1. day' = [day EXCEPT ![d] = "sync"] /\ UNCHANGED <<imports, faults>>
  BY DEF Sync
<1>2. \A c \in Dates : day'[c] = IF c = d THEN "sync" ELSE day[c]
  BY <1>1 DEF DaysInv
<1>3. DaysInv'
  BY <1>1 DEF DaysInv
<1>4. \A q \in imports : \A c \in Days[q["daily"]] : c \in Dates
  BY SelectionIsTyped DEF DaysInv, Dates, Kinds
<1> QED
  BY <1>1, <1>2, <1>3, <1>4, NoneIsApart DEF ImportsAreWhole

LEMMA OthersWriteNothing ==
  ASSUME [Next]_vars
  PROVE  \/ UNCHANGED <<day, imports>> /\ faults' \in {faults, faults + 1}
         \/ \E m \in running : Finished(m)
         \/ \E d \in SyncDates : Sync(d)
<1>1. ASSUME NEW t \in Tabs, Submit(t)
      PROVE  UNCHANGED <<day, imports, faults>>
  BY <1>1, Zenon DEF Submit
<1>2. ASSUME NEW t \in Tabs, StartDrops(t) \/ StartMakes(t)
      PROVE  UNCHANGED <<day, imports, faults>>
  BY <1>2 DEF StartDrops, StartMakes
<1>3. ASSUME NEW t \in Tabs, StartAnswers(t)
      PROVE  UNCHANGED <<day, imports, faults>>
  BY <1>3, Zenon DEF StartAnswers
<1>4. ASSUME NEW m \in net, Begin(m) \/ Refuse(m) \/ Remove(m)
      PROVE  UNCHANGED <<day, imports, faults>>
  BY <1>4 DEF Begin, Refuse, Remove
<1>5. ASSUME NEW m \in running, Written(m)
      PROVE  UNCHANGED <<day, imports, faults>>
  BY <1>5 DEF Written
<1>6. ASSUME NEW i \in Ids, Expire(i)
      PROVE  UNCHANGED <<day, imports, faults>>
  BY <1>6 DEF Expire
<1>7. ASSUME \/ \E t \in Tabs : Disconnected(t)
             \/ \E m \in net : Resend(m)
             \/ \E m \in running : Broken(m)
             \/ Crash
      PROVE  UNCHANGED <<day, imports>> /\ faults' = faults + 1
  BY <1>7 DEF Disconnected, Resend, Broken, Crash
<1>8. CASE UNCHANGED vars
  BY <1>8 DEF vars
<1>9. ASSUME NEW u \in unheard, UnheardDrops(u) \/ UnheardMakes(u)
      PROVE  UNCHANGED <<day, imports, faults>>
  BY <1>9 DEF UnheardDrops, UnheardMakes
<1>10. ASSUME NEW u \in unheard, UnheardAnswers(u)
       PROVE  UNCHANGED <<day, imports, faults>>
  BY <1>10, Zenon DEF UnheardAnswers
<1> QED
  BY <1>1, <1>2, <1>3, <1>4, <1>5, <1>6, <1>7, <1>8, <1>9, <1>10 DEF Next

LEMMA DaysStep ==
  ASSUME DaysInv, ImportsAreWhole, [Next]_vars
  PROVE  DaysInv' /\ ImportsAreWhole'
<1>1. CASE UNCHANGED <<day, imports>> /\ faults' \in {faults, faults + 1}
  BY <1>1 DEF DaysInv, ImportsAreWhole
<1> QED
  BY <1>1, OthersWriteNothing, FinishedDays, SyncDays

-----------------------------------------------------------------------------
(* What a validation said.                                                    *)

LEMMA ImportableStays ==
  ASSUME NEW s, NEW t, s.written = t.written, Importable(s), UNCHANGED <<day, imports>>
  PROVE  Importable(t)'
BY DEF Importable, Holds, Already, Vacant

(* Session i of the next state has not passed, or had passed before and is    *)
(* what it was, or passes now.                                                *)
Unpassed(i) == ~sessions'[i].passed
StillPassed(i) ==
  /\ i \in Live /\ sessions[i].passed /\ SameFiles(sessions'[i], sessions[i])
  /\ UNCHANGED <<day, imports>>
NowPassed(i) ==
  /\ i \in Live /\ SameFiles(sessions'[i], sessions[i])
  /\ Complete(sessions[i]) /\ Importable(sessions[i])
  /\ UNCHANGED <<day, imports>>

LEMMA PassedFrom ==
  ASSUME PassedInv, \A i \in DOMAIN sessions' : Unpassed(i) \/ StillPassed(i) \/ NowPassed(i)
  PROVE  PassedInv'
<1>1. ASSUME NEW i \in DOMAIN sessions', sessions'[i].passed
      PROVE  Complete(sessions'[i]) /\ Importable(sessions[i])'
  <2>1. /\ i \in Live /\ SameFiles(sessions'[i], sessions[i]) /\ UNCHANGED <<day, imports>>
        /\ Complete(sessions[i]) /\ Importable(sessions[i])
    BY <1>1 DEF PassedInv, Unpassed, StillPassed, NowPassed
  <2>2. PICK s : s = sessions[i]
    OBVIOUS
  <2>3. PICK t : t = sessions'[i]
    OBVIOUS
  <2>4. Importable(t)'
    BY <2>1, <2>2, <2>3, ImportableStays DEF SameFiles
  <2>5. Importable(sessions[i])'
    BY <2>3, <2>4 DEF Importable, Holds, Already, Vacant
  <2>6. Complete(sessions'[i])
    BY <2>1 DEF Complete, SameFiles
  <2> QED
    BY <2>5, <2>6
<1> QED
  BY <1>1 DEF PassedInv, Live, Complete

(* No request for a chunk is at work on a session that passed.                *)
LEMMA PutsAreUnpassed ==
  ASSUME TypeInv, RunningInv, PassedInv, NEW m \in running, m.op = "put"
  PROVE  m.id \in Live /\ ~sessions[m.id].passed
<1>1. m.id \in Live /\ Fits(m) /\ m.kind \in Kinds /\ m \in Requests(made)
  BY DEF RunningInv, TypeInv, RequestsOK, Requests
<1>2. sessions[m.id] \in SessionRecords
  BY <1>1 DEF TypeInv, SessionsOK
<1>3. sessions[m.id].received # sessions[m.id].expected
  BY <1>1, <1>2 DEF Fits, SessionRecords, Requests
<1> QED
  BY <1>1, <1>3 DEF PassedInv, Complete

LEMMA FinishedPasses ==
  ASSUME TypeInv, RunningInv, PassedInv, DaysInv, NEW m \in running, Finished(m)
  PROVE  PassedInv'
<1>1. PICK verdict : verdict = Verdict(sessions[m.id], m.mode = "validate")
  OBVIOUS
<1>2. PICK wrote \in BOOLEAN : wrote = (m.mode = "import" /\ verdict = "done")
  OBVIOUS
<1>3. /\ DOMAIN sessions' \subseteq Live
      /\ \A i \in DOMAIN sessions' :
           /\ SameFiles(sessions'[i], sessions[i])
           /\ sessions'[i].passed = IF wrote THEN FALSE
                                    ELSE IF i = m.id THEN verdict = "done" ELSE sessions[i].passed
  BY <1>1, <1>2, FinishedSessions
<1>4. ~wrote => UNCHANGED <<day, imports>>
  <2>1. PICK s : s = sessions[m.id]
    OBVIOUS
  <2>2. /\ day' = IF m.mode = "import" THEN Imported(s, verdict) ELSE day
        /\ imports' = IF wrote THEN imports \cup Readable(s) ELSE imports
    BY <1>1, <1>2, <2>1 DEF Finished
  <2> QED
    BY <1>2, <2>2, RefusalWritesNothing
<1>5. m.op = "finish" /\ m.id \in Live /\ Complete(sessions[m.id])
  BY DEF Finished, RunningInv
<1>6. verdict = "done" => Importable(sessions[m.id])
  BY <1>1, DoneIsImportable
<1>7. ASSUME NEW i \in DOMAIN sessions'
      PROVE  Unpassed(i) \/ StillPassed(i) \/ NowPassed(i)
  <2>1. CASE wrote
    BY <1>3, <2>1 DEF Unpassed
  <2>2. CASE ~wrote /\ i # m.id
    BY <1>3, <1>4, <2>2 DEF Unpassed, StillPassed
  <2>3. CASE ~wrote /\ i = m.id
    BY <1>3, <1>4, <1>5, <1>6, <2>3 DEF Unpassed, NowPassed
  <2> QED
    BY <2>1, <2>2, <2>3
<1> QED
  BY <1>7, PassedFrom

LEMMA PassedStep ==
  ASSUME TypeInv, RunningInv, PassedInv, DaysInv, [Next]_vars
  PROVE  PassedInv'
<1>1. ASSUME NEW d \in SyncDates, Sync(d)
      PROVE  PassedInv'
  <2>1. sessions' = [i \in Live |-> [sessions[i] EXCEPT !.passed = FALSE]]
    BY <1>1 DEF Sync
  <2>2. \A i \in DOMAIN sessions' : Unpassed(i)
    BY <2>1 DEF TypeInv, SessionsOK, SessionRecords, Unpassed
  <2> QED
    BY <2>2, PassedFrom
<1>2. ASSUME NEW m \in running, Written(m)
      PROVE  PassedInv'
  <2>1. m.op = "put" /\ sessions' = With(m.id, Appended(sessions[m.id], m))
        /\ UNCHANGED <<day, imports>>
    BY <1>2 DEF Written
  <2>2. m.id \in Live /\ ~sessions[m.id].passed /\ m \in Requests(made) /\ made \in Nat
        /\ sessions[m.id] \in SessionRecords
    BY <2>1, PutsAreUnpassed DEF TypeInv, RequestsOK, SessionsOK
  <2>3. Appended(sessions[m.id], m).passed = sessions[m.id].passed
    BY <2>1, <2>2, AppendedIsTyped
  <2>4. Unpassed(m.id) /\ DOMAIN sessions' = Live /\ \A i \in Live \ {m.id} : sessions'[i] = sessions[i]
    BY <2>1, <2>2, <2>3 DEF With, Unpassed
  <2> QED
    BY <2>1, <2>4, PassedFrom DEF StillPassed, Unpassed, SameFiles
<1>3. ASSUME NEW t \in Tabs, StartAnswers(t)
      PROVE  PassedInv'
  <2>1. PICK id : id = made + 1
    OBVIOUS
  <2>2. PICK s : s = NewSession(owner[t], tab[t].files)
    OBVIOUS
  <2>3. sessions' = With(id, s) /\ UNCHANGED <<day, imports>>
    BY <1>3, <2>1, <2>2, Zenon DEF StartAnswers
  <2>4. ~s.passed
    BY <2>2 DEF NewSession
  <2> QED
    BY <2>3, <2>4, PassedFrom DEF With, StillPassed, Unpassed, SameFiles
<1>4. ASSUME NEW u \in unheard, UnheardAnswers(u)
       PROVE  PassedInv'
  <2>1. PICK id : id = made + 1
    OBVIOUS
  <2>2. PICK s : s = NewSession(owner[u.of], u.files)
    OBVIOUS
  <2>3. sessions' = With(id, s) /\ UNCHANGED <<day, imports>>
    BY <1>4, <2>1, <2>2, Zenon DEF UnheardAnswers
  <2>4. ~s.passed
    BY <2>2 DEF NewSession
  <2> QED
    BY <2>3, <2>4, PassedFrom DEF With, StillPassed, Unpassed, SameFiles
<1>5. ASSUME NEW m \in net, Begin(m)
      PROVE  PassedInv'
  <2>1. m.id \in Live /\ sessions' = With(m.id, [sessions[m.id] EXCEPT !.busy = TRUE])
        /\ UNCHANGED <<day, imports>>
    BY <1>5 DEF Begin, Accepts
  <2>2. PICK s : s = [sessions[m.id] EXCEPT !.busy = TRUE]
    OBVIOUS
  <2>3. SameFiles(s, sessions[m.id]) /\ s.passed = sessions[m.id].passed
    BY <2>1, <2>2 DEF TypeInv, SessionsOK, SessionRecords, SameFiles
  <2>4. sessions'[m.id] = s /\ DOMAIN sessions' = Live
        /\ \A i \in Live \ {m.id} : sessions'[i] = sessions[i]
    BY <2>1, <2>2 DEF With
  <2> QED
    BY <2>1, <2>3, <2>4, PassedFrom DEF StillPassed, Unpassed, SameFiles
<1>6. ASSUME NEW ids, sessions' = Without(ids), UNCHANGED <<day, imports>>
      PROVE  PassedInv'
  BY <1>6, PassedFrom DEF Without, StillPassed, Unpassed, SameFiles
<1>7. ASSUME UNCHANGED <<sessions, day, imports>>
      PROVE  PassedInv'
  BY <1>7, PassedFrom DEF Live, StillPassed, Unpassed, SameFiles
<1>8. CASE Crash
  BY <1>8 DEF Crash, PassedInv, Live
<1>9. ASSUME NEW t \in Tabs, Submit(t) \/ Disconnected(t) \/ StartMakes(t) \/ StartDrops(t)
      PROVE  PassedInv'
  <2>1. ASSUME Submit(t)
        PROVE  UNCHANGED <<sessions, day, imports>>
    BY <2>1, Zenon DEF Submit
  <2>2. ASSUME Disconnected(t) \/ StartMakes(t)
        PROVE  UNCHANGED <<sessions, day, imports>>
    BY <2>2 DEF Disconnected, StartMakes
  <2>3. ASSUME StartDrops(t)
        PROVE  UNCHANGED <<day, imports>> /\ (UNCHANGED sessions \/ \E i \in Own(t) : sessions' = Without({i}))
    BY <2>3 DEF StartDrops
  <2> QED
    BY <1>6, <1>7, <1>9, <2>1, <2>2, <2>3
<1>10. ASSUME NEW m \in net, Refuse(m) \/ Remove(m) \/ Resend(m)
      PROVE  PassedInv'
  <2>1. UNCHANGED <<day, imports>> /\ (UNCHANGED sessions \/ sessions' = Without({m.id}))
    BY <1>10 DEF Refuse, Remove, Resend
  <2> QED
    BY <1>6, <1>7, <2>1
<1>11. ASSUME NEW m \in running, Broken(m)
       PROVE  PassedInv'
  BY <1>6, <1>11 DEF Broken
<1>12. ASSUME NEW i \in Ids, Expire(i)
       PROVE  PassedInv'
  BY <1>6, <1>12 DEF Expire
<1>13. CASE UNCHANGED vars
  BY <1>7, <1>13 DEF vars
<1>14. ASSUME NEW u \in unheard, UnheardDrops(u) \/ UnheardMakes(u)
       PROVE  PassedInv'
  <2>1. UNCHANGED <<day, imports>> /\ (UNCHANGED sessions \/ \E i \in Own(u.of) : sessions' = Without({i}))
    BY <1>14 DEF UnheardDrops, UnheardMakes
  <2> QED
    BY <1>6, <1>7, <2>1
<1>15. ASSUME \E t \in Tabs : Submit(t) \/ Disconnected(t)
       PROVE  PassedInv'
  BY <1>9, <1>15
<1>16. ASSUME \E t \in Tabs : StartDrops(t) \/ StartMakes(t) \/ StartAnswers(t)
       PROVE  PassedInv'
  BY <1>3, <1>9, <1>16
<1>17. ASSUME \E m \in net : Begin(m) \/ Refuse(m) \/ Remove(m) \/ Resend(m)
       PROVE  PassedInv'
  BY <1>5, <1>10, <1>17
<1>18. ASSUME \E m \in running : Written(m) \/ Broken(m) \/ Finished(m)
       PROVE  PassedInv'
  BY <1>2, <1>11, <1>18, FinishedPasses
<1> QED
  BY <1>1, <1>4, <1>8, <1>12, <1>13, <1>14, <1>15, <1>16, <1>17, <1>18 DEF Next

-----------------------------------------------------------------------------
(* Theorems.                                                                  *)

LEMMA InvInit ==
  ASSUME Init
  PROVE  Inv
<1>1. TypeInv
  BY TypeInit
<1>2. UnheardInv /\ RunningInv /\ SessionsInv /\ PassedInv
  BY <1>1 DEF Init, UnheardInv, RunningInv, SessionsInv, PassedInv, Live, TypeInv
<1>3. DaysInv /\ ImportsAreWhole
  BY NoneIsApart DEF Init, DaysInv, ImportsAreWhole
<1> QED
  BY <1>1, <1>2, <1>3 DEF Inv

LEMMA InvStep ==
  ASSUME Inv, [Next]_vars
  PROVE  Inv'
<1>1. Classified
  BY StepIsClassified DEF Inv
<1>2. TypeInv' /\ UnheardInv' /\ RunningInv' /\ SessionsInv'
  BY <1>1, TypeStep, UnheardStep, RunningStep, SessionsStep DEF Inv
<1>3. PassedInv' /\ DaysInv' /\ ImportsAreWhole'
  BY PassedStep, DaysStep DEF Inv
<1> QED
  BY <1>2, <1>3 DEF Inv

LEMMA InvHolds == Spec => []Inv
BY InvInit, InvStep, PTL DEF Spec

(* What a session has counted as received is on disk, chunk after chunk and   *)
(* of one file, whatever arrives twice, late or beside another chunk: the     *)
(* append is one at a time, and all that is ever sent to a session comes from *)
(* the files that were selected when it was opened (append).                  *)
THEOREM ReceivedStaysOnDisk == Spec => []ReceivedIsOnDisk
<1>1. ASSUME Inv
      PROVE  ReceivedIsOnDisk
  <2>1. ASSUME NEW i \in Live, NEW k \in Kinds
        PROVE  \E e \in Exports :
                 sessions[i].written[k] = {<<o, e>> : o \in 0 .. sessions[i].received[k] - 1}
    <3>1. i \in 1 .. made
      BY <1>1 DEF Inv, TypeInv, SessionsOK
    <3>2. PICK pair \in Selections : OnDisk(sessions[i], pair)
      BY <1>1, <3>1 DEF Inv, SessionsInv
    <3>3. pair[k] \in Exports
      BY SelectionIsTyped
    <3> QED
      BY <3>2, <3>3 DEF OnDisk
  <2> QED
    BY <2>1 DEF ReceivedIsOnDisk
<1> QED
  BY <1>1, InvHolds, PTL

(* An import is there with every date or not at all, whatever else is         *)
(* uploaded, refused, repeated or synchronised meanwhile (importDumps).       *)
THEOREM ImportsStayWhole == Spec => []ImportsAreWhole
<1>1. Inv => ImportsAreWhole
  BY DEF Inv
<1> QED
  BY <1>1, InvHolds, PTL

LEMMA ImportSucceeds ==
  ASSUME Inv, [Next]_vars
  PROVE  \A m \in running \ running' :
           m.mode = "import" /\ sessions[m.id].passed /\ faults' = faults
             => Readable(sessions[m.id]) \cap imports' # {}
<1> SUFFICES ASSUME NEW m \in running, m \notin running', m.mode = "import",
                    sessions[m.id].passed, faults' = faults
             PROVE  Readable(sessions[m.id]) \cap imports' # {}
  OBVIOUS
<1>1. m.id \in Live /\ Importable(sessions[m.id]) /\ m.op # "put" /\ faults \in Nat
  BY PutsAreUnpassed DEF Inv, RunningInv, PassedInv, DaysInv
<1>2. CASE Finished(m)
  <2>1. PICK s : s = sessions[m.id]
    OBVIOUS
  <2>2. Verdict(s, m.mode = "validate") = "done"
    BY <1>1, <2>1, DoneIsImportable
  <2>3. imports' = imports \cup Readable(s)
    BY <1>2, <2>1, <2>2 DEF Finished
  <2>4. Readable(s) # {}
    BY <1>1, <2>1 DEF Importable, Readable
  <2> QED
    BY <2>1, <2>3, <2>4
<1>3. ASSUME NEW n \in running, Written(n) \/ Broken(n) \/ Finished(n)
      PROVE  Finished(m)
  BY <1>1, <1>3 DEF Written, Broken, Finished
<1>4. ~Crash
  BY <1>1 DEF Crash
<1>5. ASSUME \E t \in Tabs : Submit(t) \/ Disconnected(t)
      PROVE  FALSE
  <2>1. ASSUME NEW t \in Tabs, Submit(t)
        PROVE  running' = running
    BY <2>1, Zenon DEF Submit
  <2> QED
    BY <1>5, <2>1 DEF Disconnected
<1>6. ASSUME \E t \in Tabs : StartDrops(t) \/ StartMakes(t) \/ StartAnswers(t)
      PROVE  FALSE
  <2>1. ASSUME NEW t \in Tabs, StartAnswers(t)
        PROVE  running' = running
    BY <2>1, Zenon DEF StartAnswers
  <2> QED
    BY <1>6, <2>1 DEF StartDrops, StartMakes
<1>7. ASSUME \E n \in net : Begin(n) \/ Refuse(n) \/ Remove(n) \/ Resend(n)
      PROVE  FALSE
  BY <1>7 DEF Begin, Refuse, Remove, Resend
<1>8. ASSUME (\E i \in Ids : Expire(i)) \/ (\E d \in SyncDates : Sync(d)) \/ UNCHANGED vars
      PROVE  FALSE
  BY <1>8 DEF Expire, Sync, vars
<1>9. ASSUME \E u \in unheard : UnheardDrops(u) \/ UnheardMakes(u) \/ UnheardAnswers(u)
      PROVE  FALSE
  <2>1. ASSUME NEW u \in unheard, UnheardAnswers(u)
        PROVE  running' = running
    BY <2>1, Zenon DEF UnheardAnswers
  <2> QED
    BY <1>9, <2>1 DEF UnheardDrops, UnheardMakes
<1> QED
  BY <1>2, <1>3, <1>4, <1>5, <1>6, <1>7, <1>8, <1>9 DEF Next

(* What a validation has passed is imported, unless a day was written between *)
(* the two or the import was cut off: the dry run exercises everything the    *)
(* import will (importDumps).                                                 *)
THEOREM ValidationPredicts == Spec => ValidatedImports
<1>1. ASSUME Inv, [Next]_vars
      PROVE  [\A m \in running \ running' :
                m.mode = "import" /\ sessions[m.id].passed /\ faults' = faults
                  => Readable(sessions[m.id]) \cap imports' # {}]_vars
  BY <1>1, ImportSucceeds
<1> QED
  BY <1>1, InvHolds, PTL DEF Spec, ValidatedImports

============================================================================
