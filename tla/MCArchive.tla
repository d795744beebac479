------------------------------ MODULE MCArchive ------------------------------
(* A project of one file and another of one: days with both, with less detail *)
(* of one, with none of it, of no seconds and of too many.  An event of the   *)
(* machine w1, told in two ways, and one of w2, the same host without its     *)
(* address.  Two rules, of which the machine's outranks.                      *)
EXTENDS WorkAnswers, GlobMatcher, TLC

CONSTANTS p1, p2, f1, f2, f3, w1, w2, host, top, sub, deep, off, ea, eb, r1, r2

MCTypeOf == [e \in {f1, f2, f3} |-> "file"]

(* The files /a/b/c/1 and /a/b/c/d/2: the folder of the first has the second  *)
(* in it, for which it is not suggested.  And //a/e/3, which is not in /a/e.  *)
MCFolders == f1 :> {top, sub} @@ f2 :> {top, deep} @@ f3 :> {off}

MCEntities(file, secs) == <<[name |-> file, secs |-> secs]>>
MCCategory(project, secs) == [project |-> project, name |-> "coding", secs |-> secs]
MCProject(name, secs, detail, entities) ==
  [name |-> name, secs |-> secs, detail |-> detail, entities |-> entities]
MCDay(total, projects) ==
  [sound |-> TRUE, refusal |-> FALSE, dates |-> {Date}, zone |-> Pinned, total |-> total,
   projects |-> projects,
   dims |-> [i \in 1..Len(projects) |-> MCCategory(projects[i].name, projects[i].secs)]]

MCFirst(secs) == MCProject(p1, secs + 2, "present", MCEntities(f1, secs))
MCSecond(file, secs) == MCProject(p2, secs, "present", MCEntities(file, secs))
MCSummaries ==
  {NormalizeSummary(doc, Date, Pinned) : doc \in
     {MCDay(6, <<MCFirst(2), MCSecond(f2, 2)>>),
      MCDay(6, <<MCProject(p1, 0, "empty", <<>>), MCSecond(f2, 4)>>),
      MCDay(4, <<MCProject(p1, 2, "absent", <<>>), MCSecond(f3, 2)>>),
      MCDay(0, <<>>),
      MCDay(2, <<MCFirst(4)>>)}}

MCBeat(payload) ==
  [id |-> 1, day |-> Date, project |-> p1, entity |-> f1, who |-> w1, payload |-> payload]
MCOther == [MCBeat(1) EXCEPT !.id = 2, !.project = p2, !.entity = f2, !.who = w2]
MCHeartbeats ==
  {NormalizeHeartbeats([sound |-> TRUE, dates |-> {Date}, zone |-> Pinned, events |-> <<MCBeat(1), MCOther>>],
                       Date, Pinned)}
    \cup {Failed, [kind |-> "skipped"]}

(* Fewer seconds of entities than of the day, and the event told otherwise.   *)
MCDump(total, events) ==
  [total |-> total, projects |-> {p1}, dims |-> {MCCategory(p1, 3)}, events |-> events,
   entities |-> <<[project |-> p1, name |-> f1, secs |-> 2], [project |-> p1, name |-> f1, secs |-> 1]>>]
MCDumps == {MCDump(5, {MCBeat(2)})}

MCSpelling == p1 :> <<ea, eb, ea>> @@ p2 :> <<eb, ea>> @@ w1 :> <<eb, eb>> @@ w2 :> <<eb>>

MCHostPattern == w1 :> host
MCMatched ==
  host :> {w1, w2} @@ top :> {f1, f2} @@ sub :> {f1, f2} @@
  deep :> {f2} @@ off :> {}
ASSUME HostIsAPattern == MCMatched[host] \subseteq Matching(<<eb, Star>>, MCSpelling)

MCRule(class, selector, pattern, priority) ==
  [class |-> class, selector |-> selector, names |-> Matching(pattern, MCSpelling),
   exact |-> FALSE, weight |-> Weight(Compile(pattern)), priority |-> priority,
   enabled |-> TRUE, created |-> 0]
MCRules ==
  {MCRule("work", "project", <<Star, ea>>, 0), MCRule("personal", "machine", <<eb, Question>>, 1)}

(* The machine's rule is created, in the place of another or beside it.       *)
MCManifests ==
  {[creates |-> id :> rule, deletes |-> deletes] :
     id \in RuleIds, rule \in {rule \in MCRules : rule.selector = "machine"},
     deletes \in {{}} \cup {{other} : other \in RuleIds}}

(* What the theorems on the archive take for granted holds of these days.     *)
ASSUME MCHypotheses == ReservedName /\ ModestDimensions

MCSymmetry == Permutations(RuleIds)

(* The matcher finds what a pattern means (model.ts, matchGlobTokens), here   *)
(* for every pattern and every text of up to four symbols.                    *)
MCPatterns == UNION {[1..n -> {ea, eb, Star, Question}] : n \in 0..4}
MCTexts == UNION {[1..n -> {ea, eb}] : n \in 0..4}
ASSUME GlobIsExact ==
  \A p \in MCPatterns, t \in MCTexts : MatchGlobTokens(Compile(p), t) <=> Means(p, t)
=============================================================================
