------------------------------ MODULE WorkAnswers ------------------------------
(* What is told of a day.  An agent is told of work only: seconds, projects   *)
(* and, of a project that is nothing but work, its categories and languages.  *)
(* The operator's pages show all of it: the overview, the suggestions for new *)
(* rules, and the activities behind a suggestion.  The answers only read; a   *)
(* range is its days, one after the other.                                    *)
EXTENDS DayArchive

CONSTANTS
  MaxActivitySlices,  \* the activities a page takes into account
  HostPattern,  \* of a machine "host from IP": host*, which is suggested for it
  Folders,      \* of a file in a folder: the folders that are suggested for it
  MatchedBy     \* the names a value matches that is not one name: a pattern, a
                \* folder, a name that is spelled in several ways

ASSUME AnswersAssumption ==
  /\ MaxActivitySlices \in Nat \ {0}
  /\ \A who \in DOMAIN HostPattern : HostPattern[who] \in DOMAIN MatchedBy
  /\ \A entity \in DOMAIN Folders : Folders[entity] \subseteq DOMAIN MatchedBy

WorkClasses == {"work", "personal", "unclassified"}

(* The slices of the day with their class; every answer starts from them.     *)
Evaluated ==
  LET telemetry == Telemetry(day)  evidence == EvidenceUsable(day)
  IN  [k \in DOMAIN telemetry |->
         [secs |-> telemetry[k].secs, whos |-> telemetry[k].whos,
          class |-> Shown(rules, telemetry, day.allocations, evidence, k).class]]

As(slices, class) == {k \in DOMAIN slices : slices[k].class = class}
SecsIn(slices, keys) == MapThenSumSet(LAMBDA k : slices[k].secs, keys)
Coverage(slices) == [class \in WorkClasses |-> SecsIn(slices, As(slices, class))]

Owned(slices, p) == {k \in DOMAIN slices : k.project = p}
ProjectCoverage(slices, p) ==
  [class \in WorkClasses |-> SecsIn(slices, Owned(slices, p) \cap As(slices, class))]

-----------------------------------------------------------------------------
(* To the agent.                                                              *)

(* Mutant: What is left of a project beside its entities is not looked at.    *)
HasNonWorkEntity(slices, p) ==
  {k \in Owned(slices, p) \ As(slices, "work") : k.kind = "entity"} # {}

(* Any slice of another class hides the breakdown, be it of no seconds.       *)
HasNonWork(slices, p) == Owned(slices, p) \ As(slices, "work") # {}

FetchProjectBreakdown(p) == {d \in day.dims : d.project = p}

ProjectSummary(slices, p) ==
  [secs |-> ProjectCoverage(slices, p)["work"],
   breakdown |-> IF HasNonWork(slices, p) THEN {} ELSE FetchProjectBreakdown(p)]

Told(slices) ==
  {p \in {k.project : k \in DOMAIN slices} \ {Unattributed} : ProjectCoverage(slices, p)["work"] > 0}

Answer(secs, unclassified, projects) ==
  [work |-> secs, unclassified |-> unclassified, projects |-> projects]

GetDayEvidence(slices) ==
  Answer(Coverage(slices)["work"], Coverage(slices)["unclassified"],
         [p \in Told(slices) |-> ProjectSummary(slices, p)])

(* A project that is not work is answered like one that does not exist.       *)
GetProjectEvidence(slices, p) ==
  IF p \notin Told(slices) THEN Answer(0, 0, <<>>)
  ELSE Answer(ProjectCoverage(slices, p)["work"], ProjectCoverage(slices, p)["unclassified"],
              [q \in {p} |-> ProjectSummary(slices, q)])

(* A document gives a project no more seconds in a category or a language     *)
(* than it gives the project: the rows are stored, and told, as answered.     *)
ModestDimensions ==
  \A sum \in {sum \in Summaries : sum.kind = "complete"} :
    \A d \in sum.value.dims :
      d.secs - MapThenSumSet(LAMBDA k : sum.value.slices[k],
                             {k \in DOMAIN sum.value.slices : k.project = d.project}) <= Tolerance

-----------------------------------------------------------------------------
(* To the operator.                                                           *)

(* The class a project has on the overview: that of all its seconds.          *)
OverviewClass(slices, p) ==
  LET classes == {class \in WorkClasses : ProjectCoverage(slices, p)[class] > 0}
  IN  CASE classes = {} -> "unclassified"
        [] Cardinality(classes) = 1 -> CHOOSE class \in classes : TRUE
        [] OTHER -> "mixed"

(* A selector, the value suggested for it, and the names that value matches.  *)
Matches(value) == IF value \in DOMAIN MatchedBy THEN MatchedBy[value] ELSE {value}
Suggestion(selector, value) ==
  [selector |-> selector, value |-> value, names |-> Matches(value)]

(* What a slice is called where a selector looks, and the values suggested    *)
(* for a name: a folder and a host may match more than they were taken from.  *)
NamesOf(slices, k, selector) ==
  CASE selector \in IdentitySelectors -> slices[k].whos
    [] selector = "project" -> {k.project}
    [] selector = "entity" -> {k.entity}
    [] selector = "application" -> {e \in {k.entity} : EntityType(k) = "app"}
    [] selector = "domain" -> {e \in {k.entity} : EntityType(k) = "domain"}
    [] selector = "folder_prefix" -> {e \in {k.entity} : EntityType(k) = "file"}

Values(selector, name) ==
  CASE selector = "folder_prefix" -> IF name \in DOMAIN Folders THEN Folders[name] ELSE {}
    [] selector = "machine" /\ name \in DOMAIN HostPattern -> {HostPattern[name]}
    [] OTHER -> {name}

SuggestedValues(slices, k, selector) ==
  UNION {Values(selector, name) : name \in NamesOf(slices, k, selector)}
SuggestedBy(slices, k) ==
  UNION {{Suggestion(selector, value) : value \in SuggestedValues(slices, k, selector)} :
           selector \in DOMAIN Specificity}

OpenSlices(slices) == {k \in As(slices, "unclassified") : k.project # Unattributed}
Suggestions(slices) == UNION {SuggestedBy(slices, k) : k \in OpenSlices(slices)}
CountedIn(slices, suggestion) ==
  {k \in OpenSlices(slices) :
     suggestion.value \in SuggestedValues(slices, k, suggestion.selector)}

(* The activities of a class; without a slice there are none, marks or not.   *)
Activities(slices, class) ==
  IF DOMAIN day.slices = {} THEN {}
  ELSE IF class = "all" THEN DOMAIN slices ELSE As(slices, class)

(* The activities behind a suggestion.                                        *)
Drilldown(slices, suggestion, class) ==
  {k \in Activities(slices, class) :
     k.project # Unattributed /\ Selects(suggestion, k, slices[k].whos)}

(* Too many are cut to those of the most seconds, and what the page adds up   *)
(* is what it lists.                                                          *)
Truncated(found) == Cardinality(found) > MaxActivitySlices
Listed(slices, found) ==
  IF ~Truncated(found) THEN found
  ELSE CHOOSE listed \in kSubset(MaxActivitySlices, found) :
         \A k \in listed, other \in found \ listed : slices[k].secs >= slices[other].secs
Metrics(slices, listed) ==
  [class \in WorkClasses |-> SecsIn(slices, listed \cap As(slices, class))]

(* The head of the overview, and the day in its list of recent days: the      *)
(* total of the day, or of its slices if that has no seconds.                 *)
HasTotal == day.total # None /\ day.total > 0
IsActive == HasTotal \/ \E k \in DOMAIN day.slices : day.slices[k] > 0
OverviewTotal == IF HasTotal THEN day.total ELSE IF IsActive THEN SliceTotal(day.slices) ELSE 0
RecentActivity == IF IsActive THEN {OverviewTotal} ELSE {}

-----------------------------------------------------------------------------
(* Properties.                                                                *)

(* On a day WakaTime answered, a breakdown an agent is told has no seconds    *)
(* that are not work: no category or language counts more than the work of    *)
(* its project, which is work and nothing else on the operator's overview.    *)
BreakdownIsWork(slices) ==
  LET answer == GetDayEvidence(slices)
  IN  \A p \in DOMAIN answer.projects :
        LET told == answer.projects[p]
        IN  told.breakdown # {} =>
              /\ \A d \in told.breakdown : d.secs - told.secs <= Tolerance
              /\ OverviewClass(slices, p) = "work"

(* Asked project by project, the answers are that of the day.                 *)
AnswersAddUp(slices) ==
  LET answer == GetDayEvidence(slices)
  IN  /\ Agree(answer.work + answer.unclassified + Coverage(slices)["personal"], day.total)
      /\ \A p \in {k.project : k \in DOMAIN slices} \ {Unattributed} :
           LET one == GetProjectEvidence(slices, p)
           IN  one.projects = [q \in DOMAIN answer.projects \cap {p} |-> answer.projects[q]]

(* The value of a suggestion matches the names it was taken from; a path with *)
(* an empty part is not in the folders that are suggested for it.             *)
MatchesItsNames(slices, g, k) ==
  \A name \in NamesOf(slices, k, g.selector) : g.value \in Values(g.selector, name) => name \in g.names

(* The activities behind a suggestion are all that a rule made from it would  *)
(* decide of what is undecided now.  They are those it counts if it is of one *)
(* name; of a pattern, a folder or a name of several spellings there may be   *)
(* more, and none it counts is left out if its value matches what it was      *)
(* taken from.                                                                *)
SuggestionsAreShown(slices) ==
  \A g \in Suggestions(slices) :
    LET counted == CountedIn(slices, g)
        found == Drilldown(slices, g, "unclassified")
    IN  /\ \A k \in OpenSlices(slices) \ found : ~RuleMatches(g, k, slices[k].whos)
        /\ \A k \in counted \ found : ~MatchesItsNames(slices, g, k)
        /\ g.value \notin DOMAIN MatchedBy => found = counted

(* The overview, its recent days, its projects, the coverage and the list of  *)
(* activities count the same seconds; a list that was cut counts fewer.       *)
PagesAgree(slices) ==
  LET coverage == Coverage(slices)
      found == Activities(slices, "all")
      metrics == Metrics(slices, Listed(slices, found))
  IN  /\ Agree(OverviewTotal, SecsIn(slices, DOMAIN slices))
      /\ \A recent \in RecentActivity : Agree(recent, SecsIn(slices, DOMAIN slices))
      /\ \A class \in WorkClasses :
           /\ coverage[class] = MapThenSumSet(LAMBDA p : ProjectCoverage(slices, p)[class],
                                              {k.project : k \in DOMAIN slices})
           /\ metrics[class] <= coverage[class]
           /\ ~Truncated(found) => metrics[class] = coverage[class]

(* A consolidation whose analysis passed its gate turns no time from work to  *)
(* personal or back on any page, and what was decided stays so, or is         *)
(* withheld for want of evidence, which the analysis does not look at; where  *)
(* there is evidence the pages then show the seconds it announced.            *)
ConsolidatedAsAnalysed ==
  [][UNCHANGED <<day, preview>> =>
       \A m \in Manifests : ConsolidateRules(m) =>
         LET analysis == Analysis(rules, m, Telemetry(day), day.allocations)
         IN  /\ EvidenceUsable(day) =>
                  \A class \in WorkClasses :
                    Coverage(Evaluated')[class] = ProposedSeconds(analysis, class)
             /\ SafetyGatePassed(analysis) =>
                  \A k \in DOMAIN analysis :
                    LET before == Evaluated[k].class  after == Evaluated'[k].class
                    IN  \/ before \in {after, "unclassified"}
                        \/ after = "unclassified" /\ NeedsEvidence(rules') /\ ~EvidenceUsable(day)]_rules

(* The rules change as the operator was told: see both parts.                 *)
RulesChangeAsForeseen == ConfirmedAsPreviewed /\ ConsolidatedAsAnalysed

(* What is told of a day, to an agent and to the operator, is one account of  *)
(* it; an agent learns nothing of seconds that are not work.                  *)
OnlyWorkIsTold ==
  day.summaries.accepted # None =>
    \A slices \in {Evaluated} :
      /\ BreakdownIsWork(slices) /\ AnswersAddUp(slices)
      /\ SuggestionsAreShown(slices) /\ PagesAgree(slices)
=============================================================================
