---------------------------- MODULE TaskScreening ----------------------------
(***************************************************************************)
(* The decisions of src/src/injection-guard.js and the gate that           *)
(* src/src/runtime-pipeline.js makes of them, as operators.  What a rule   *)
(* matches is data: a text is the set of its findings, a finding is its    *)
(* rule and its severity.                                                  *)
(***************************************************************************)
EXTENDS Integers

Modes == {"approve", "block", "review"}
Decisions == {"allow", "require_approval", "block"}
Severities == {"none", "low", "medium", "high"}

Rank(severity) ==
    CASE severity = "none" -> 0 [] severity = "low" -> 1
      [] severity = "medium" -> 2 [] severity = "high" -> 3

\* highestSeverity()
Highest(findings) ==
    IF findings = {} THEN "none"
    ELSE (CHOOSE f \in findings : \A g \in findings : Rank(g.severity) <= Rank(f.severity)).severity

Considered(findings, ignored) == {f \in findings : f.rule \notin ignored}

\* decide() of a guard, with what it leaves after the allowlist.
DecisionOn(mode, kept) ==
    CASE kept = {} -> "allow"
      [] kept # {} /\ mode = "block" -> "block"
      [] kept # {} /\ mode = "review" -> "require_approval"
      [] kept # {} /\ mode = "approve" ->
            IF Highest(kept) = "high" THEN "block" ELSE "require_approval"

GuardDecision(guard, findings) == DecisionOn(guard.mode, Considered(findings, guard.ignored))

\* evaluateScreening(): a named reviewer stands for an approval of this run.
GateAllows(decision, reviewer) ==
    decision = "allow" \/ (decision = "require_approval" /\ reviewer)

\* The reason the gate gives for what it stops.
GateReason(decision) == IF decision = "block" THEN "blocked" ELSE "approval required"
=============================================================================
