---------------------------- MODULE RuleAnalysis ----------------------------
(* Many rules are replaced by few from the command line: a manifest says      *)
(* which are created and which deleted, and before it is applied a script     *)
(* compares what the rules decide with and without it.  The comparison is     *)
(* read only; whether its gate passed is for the operator to heed.            *)
(*                                                                            *)
(* A manifest is a record [creates : id -> rule, deletes : a set of ids].     *)
EXTENDS Classification

(* The fields of each rule are checked as well; manifests have no others.     *)
ValidManifest(m) ==
  /\ DOMAIN m.creates \cup m.deletes # {}
  /\ DOMAIN m.creates \cap m.deletes = {}

(* Refused before anything is written if the rules are not as it says.        *)
Fits(rules, m) ==
  /\ \A id \in m.deletes : rules[id] # None
  /\ \A id \in DOMAIN m.creates : rules[id] = None

(* The rules as they would be: new ones come after all there are, those that  *)
(* would be deleted included.                                                 *)
LastCreated(rules) == Max({0} \cup {rules[id].created : id \in {id \in DOMAIN rules : rules[id] # None}})
Proposed(rules, m) ==
  [id \in DOMAIN rules |->
     CASE id \in m.deletes -> None
       [] id \in DOMAIN m.creates -> [m.creates[id] EXCEPT !.created = LastCreated(rules) + 1]
       [] OTHER -> rules[id]]

(* Each slice as it is decided and as it would be.                            *)
Analysis(rules, m, telemetry, allocations) ==
  [k \in DOMAIN telemetry |->
     [secs |-> telemetry[k].secs,
      from |-> Decide(rules, telemetry, allocations, k),
      to |-> Decide(Proposed(rules, m), telemetry, allocations, k)]]

PolarityFlips(analysis) ==
  {k \in DOMAIN analysis : {analysis[k].from.class, analysis[k].to.class} = {"work", "personal"}}

UnclassifiedRegressions(analysis) ==
  {k \in DOMAIN analysis :
     analysis[k].from.class # "unclassified" /\ analysis[k].to.class = "unclassified"}

AmbiguityTransitions(analysis) ==
  {k \in DOMAIN analysis :
     (analysis[k].from.source = "ambiguous") # (analysis[k].to.source = "ambiguous")}

SafetyGatePassed(analysis) ==
  /\ PolarityFlips(analysis) = {}
  /\ UnclassifiedRegressions(analysis) = {}
  /\ AmbiguityTransitions(analysis) = {}

(* The seconds of a class that it announces.                                  *)
ProposedSeconds(analysis, class) ==
  MapThenSumSet(LAMBDA k : analysis[k].secs, {k \in DOMAIN analysis : analysis[k].to.class = class})
=============================================================================
