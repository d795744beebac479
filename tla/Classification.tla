---------------------------- MODULE Classification ----------------------------
(* Whether seconds are work, personal or neither.  A slice is decided by the  *)
(* operator's own allocation if it has one, else by the enabled rule of       *)
(* highest precedence that matches it, and by none if the highest disagree.   *)
(*                                                                            *)
(* A rule is a record [class, selector, names, exact, weight, priority,       *)
(* enabled, created].  "names" is the set of names its pattern matches (see   *)
(* GlobMatcher), "weight" the length of the part of the pattern that counts,  *)
(* "created" its place in the order of creation.  Rules are a function from   *)
(* ids to a rule or None.                                                     *)
EXTENDS DayDocuments, FiniteSets

CONSTANT TypeOf   \* of an entity: "file", "app", "domain" or "url"

IdentitySelectors == {"machine", "editor"}
Specificity ==
  [machine |-> 10, editor |-> 10, application |-> 10, domain |-> 10,
   project |-> 40, folder_prefix |-> 50, entity |-> 60]

Enabled(rules) == {id \in DOMAIN rules : rules[id] # None /\ rules[id].enabled}

(* What is left of a project counts as an application of the project's name.  *)
EntityType(key) ==
  CASE key.kind = "entity" -> TypeOf[key.entity]
    [] key.kind = "project_summary" -> "app"
    [] key.kind = "unattributed_residual" -> "unattributed"

Selects(rule, key, whos) ==
  CASE rule.selector \in IdentitySelectors -> rule.names \cap whos # {}
    [] rule.selector = "application" -> EntityType(key) = "app" /\ key.entity \in rule.names
    [] rule.selector = "domain" -> EntityType(key) = "domain" /\ key.entity \in rule.names
    [] rule.selector = "folder_prefix" -> EntityType(key) = "file" /\ key.entity \in rule.names
    [] rule.selector = "project" -> key.project \in rule.names
    [] rule.selector = "entity" -> key.entity \in rule.names

(* Seconds that belong to no entity match no rule.                            *)
RuleMatches(rule, key, whos) == key.kind = "entity" /\ Selects(rule, key, whos)

Precedence(rule) ==
  <<rule.priority, Specificity[rule.selector], IF rule.exact THEN 1 ELSE 0, rule.weight>>

Outranks(a, b) ==
  \E i \in 1..4 : /\ Precedence(a)[i] > Precedence(b)[i]
                  /\ \A j \in 1..(i - 1) : Precedence(a)[j] = Precedence(b)[j]

Decision(class, source, winner) == [class |-> class, source |-> source, winner |-> winner]
Undecided == Decision("unclassified", "default", None)

ByRule(rules, key, whos) ==
  LET matching == {id \in Enabled(rules) : RuleMatches(rules[id], key, whos)}
      highest == {id \in matching : \A other \in matching : ~Outranks(rules[other], rules[id])}
      oldest == CHOOSE id \in highest : \A other \in highest : rules[id].created <= rules[other].created
  IN  IF matching = {} THEN Undecided
      ELSE IF Cardinality({rules[id].class : id \in highest}) > 1
           THEN Decision("unclassified", "ambiguous", None)
      ELSE Decision(rules[oldest].class, "rule", oldest)

-----------------------------------------------------------------------------
(* A telemetry is a function from the keys of the slices to [secs, whos], the *)
(* machines and editors the evidence names for them; the allocations are a    *)
(* function from keys to [state, class, secs].                                *)

(* A mark is active as long as its slice is there (AllocationsFollow), and a   *)
(* slice that is gone is shown for the sake of its mark.                      *)
Overridden(allocations, key) == key \in DOMAIN allocations

Decide(rules, telemetry, allocations, key) ==
  IF Overridden(allocations, key)
  THEN Decision(allocations[key].class, "override", None)
  ELSE ByRule(rules, key, telemetry[key].whos)

(* What a preview reports: every slice the rules decide otherwise than before.*)
Changes(before, after, telemetry, allocations) ==
  {change \in {[key |-> k, from |-> Decide(before, telemetry, allocations, k).class,
                to |-> Decide(after, telemetry, allocations, k).class, secs |-> telemetry[k].secs] :
                 k \in {k \in DOMAIN telemetry : k.project # Unattributed}} :
     change.from # change.to}

(* What is shown.  While any rule asks for a machine or an editor, work that  *)
(* a rule of another kind finds on a day without usable evidence is withheld. *)
NeedsEvidence(rules) == \E id \in Enabled(rules) : rules[id].selector \in IdentitySelectors

Shown(rules, telemetry, allocations, evidence, key) ==
  LET d == Decide(rules, telemetry, allocations, key)
  IN  IF /\ NeedsEvidence(rules) /\ ~evidence
         /\ d.class = "work" /\ d.source = "rule"
         /\ rules[d.winner].selector \notin IdentitySelectors
      THEN Undecided
      ELSE d

ShownChanges(before, after, telemetry, allocations, evidence) ==
  {change \in {[key |-> k, from |-> Shown(before, telemetry, allocations, evidence, k).class,
                to |-> Shown(after, telemetry, allocations, evidence, k).class,
                secs |-> telemetry[k].secs] : k \in DOMAIN telemetry} :
     change.from # change.to}

-----------------------------------------------------------------------------
(* Changes of the rules, each previewed before it is confirmed.               *)

Created(id, rule) == [kind |-> "create", id |-> id, rule |-> rule]
Updated(id, rule) == [kind |-> "update", id |-> id, rule |-> rule]
Deleted(id) == [kind |-> "delete", id |-> id, rule |-> None]

(* An update keeps the rule's place in the order.                             *)
Possible(rules, op) == op.kind = "create" <=> rules[op.id] = None

WithCreated(rules, id, rule, revision) ==
  [rules EXCEPT ![id] = [rule EXCEPT !.created = revision + 1]]
WithUpdated(rules, id, rule) ==
  [rules EXCEPT ![id] = [rule EXCEPT !.created = rules[id].created]]
WithDeleted(rules, id) == [rules EXCEPT ![id] = None]

Applied(rules, op, revision) ==
  CASE op.kind = "create" -> WithCreated(rules, op.id, op.rule, revision)
    [] op.kind = "update" -> WithUpdated(rules, op.id, op.rule)
    [] op.kind = "delete" -> WithDeleted(rules, op.id)
=============================================================================
