---------------------------- MODULE PolicyGates ----------------------------
(***************************************************************************)
(* The operators of core/policy.py and core/verdict.py: the four gates, the*)
(* verdict they add up to and the exit code CI reads.  A gate maps its     *)
(* rule's settings and the report it looks at to an outcome; the messages  *)
(* the code attaches are left out.                                         *)
(***************************************************************************)
EXTENDS PlanActions

CONSTANT Unlimited        \* limit_usd: null, no ceiling on the cost delta

\* What one gate may answer, by severity, and the answer that counts for nothing.
Severity == [pass |-> 0, warn |-> 1, block |-> 2]
Outcomes == DOMAIN Severity \cup {"skipped"}

Gates == {"max_monthly_delta", "open_ingress", "deletions", "drift"}

Actions == {"warn", "ignore", "block"}

\* A policy names its settings rule_key as rule and key do in the YAML file.
Policies ==
    [limit_usd : Int \cup {Unlimited}, treat_unpriced_as : Actions,
     allowed_ports : SUBSET Int, deletions_action : Actions,
     protected_types : SUBSET STRING, drift_action : Actions]

\* Policy(): what an absent file, an empty one and omitted keys all mean.
\* The limit is in cents.
DefaultPolicy ==
    [limit_usd |-> 20000, treat_unpriced_as |-> "warn", allowed_ports |-> {},
     deletions_action |-> "warn", protected_types |-> {}, drift_action |-> "warn"]

-----------------------------------------------------------------------------
\* An action setting, applied to findings that exist.
Escalated(action) == IF action = "ignore" THEN "pass" ELSE action

Worse(a, b) == IF Severity[b] > Severity[a] THEN b ELSE a

\* Mutant: the escalation of unpriced changes overwrites the outcome so far.
EvalMaxMonthlyDelta_LastWins(rule, cents, unpriced) ==
    IF unpriced /\ rule.treat_unpriced_as # "ignore" THEN rule.treat_unpriced_as
    ELSE IF rule.limit_usd # Unlimited /\ cents > rule.limit_usd THEN "block" ELSE "pass"

\* R14: block over the limit; unpriced changes escalate, never relax.
EvalMaxMonthlyDelta(rule, cents, unpriced) ==
    LET limit == IF rule.limit_usd # Unlimited /\ cents > rule.limit_usd
                 THEN "block" ELSE "pass"
    IN  Worse(limit, IF unpriced THEN Escalated(rule.treat_unpriced_as) ELSE "pass")

-----------------------------------------------------------------------------
(***************************************************************************)
(* Open ingress (R15, A7).                                                 *)
(***************************************************************************)
OpenCidrs == {"0.0.0.0/0", "::/0"}

RuleIsOpen(rule) == rule.cidrs \cap OpenCidrs # {}

AllProtocols == "-1"

\* A standalone rule of the older type may be an egress rule; the newer type
\* and the list inside a group hold ingress rules only.
OpenIngressRanges(type, after) ==
    {rule \in after.rules :
        RuleIsOpen(rule)
          /\ (type = "aws_security_group_rule" => after.direction = "ingress")}

IngressTypes == {"aws_security_group", "aws_security_group_rule",
                 "aws_vpc_security_group_ingress_rule"}

\* Mutant: only the ends of the range are looked up.
RangeFullyAllowed_EndsOnly(from, to, allowed) ==
    /\ from # Null /\ to # Null
    /\ from <= to
    /\ from \in allowed /\ to \in allowed

\* The size test comes first so that a wide range is refused without walking it.
RangeFullyAllowed(from, to, allowed) ==
    /\ from # Null /\ to # Null
    /\ from <= to
    /\ to - from + 1 <= Cardinality(allowed)
    /\ \A port \in from .. to : port \in allowed

IsAllowed(rule, allowed) ==
    /\ rule.protocol # AllProtocols
    /\ RangeFullyAllowed(rule.from_port, rule.to_port, allowed)

\* Changes whose resource exists after apply.
SurvivesApply(change) == ClassOf(change) \in {"create", "update", "replace"}

EvalOpenIngress(rule, plan) ==
    IF \E i \in DOMAIN plan :
          /\ SurvivesApply(plan[i])
          /\ plan[i].type \in IngressTypes
          /\ plan[i].after # Null
          /\ \E r \in OpenIngressRanges(plan[i].type, plan[i].after) :
                ~IsAllowed(r, rule.allowed_ports)
    THEN "block" ELSE "pass"

\* What the gate is for: an open rule admits some port the policy does not
\* allow.  A rule for all protocols, and one whose ports the plan does not
\* spell out as a range, may admit any.
AdmitsAnyPort(rule) ==
    \/ rule.protocol = AllProtocols
    \/ Null \in {rule.from_port, rule.to_port}
    \/ rule.to_port < rule.from_port

Admits(rule, allowed) == AdmitsAnyPort(rule) \/ ~(rule.from_port .. rule.to_port \subseteq allowed)

Exposes(plan, allowed) ==
    \E i \in Classified(plan) :
        /\ ClassOf(plan[i]) # "delete"
        /\ plan[i].after # Null
        /\ \/ plan[i].type \in {"aws_security_group", "aws_vpc_security_group_ingress_rule"}
           \/ plan[i].type = "aws_security_group_rule" /\ plan[i].after.direction = "ingress"
        /\ \E rule \in plan[i].after.rules : RuleIsOpen(rule) /\ Admits(rule, allowed)

-----------------------------------------------------------------------------
\* Mutant: only pure deletions count.
Deletions_NotReplaces(plan) == {i \in DOMAIN plan : ClassOf(plan[i]) = "delete"}

\* Replacing a resource deletes it (R16).
Deletions(plan) == {i \in DOMAIN plan : ClassOf(plan[i]) \in {"delete", "replace"}}

EvalDeletions(rule, plan) ==
    IF \E i \in Deletions(plan) : plan[i].type \in rule.protected_types THEN "block"
    ELSE IF Deletions(plan) = {} THEN "pass"
    ELSE Escalated(rule.deletions_action)

\* Read errors do not count here: exit_code sees them.
EvalDrift(rule, ran, drifted) ==
    IF ~ran THEN "skipped" ELSE IF ~drifted THEN "pass" ELSE Escalated(rule.drift_action)

-----------------------------------------------------------------------------
\* What the gates look at: cents and unpriced of the cost report, ran, drifted
\* and errors of the drift report, and the plan itself.
Evaluate(rule, reports) ==
    [max_monthly_delta |-> EvalMaxMonthlyDelta(rule, reports.cents, reports.unpriced),
     open_ingress      |-> EvalOpenIngress(rule, reports.plan),
     deletions         |-> EvalDeletions(rule, reports.plan),
     drift             |-> EvalDrift(rule, reports.ran, reports.drifted)]

Verdicts == {"PASS", "WARN", "BLOCK"}

Combine(results) ==
    IF \E g \in Gates : results[g] = "block" THEN "BLOCK"
    ELSE IF \E g \in Gates : results[g] = "warn" THEN "WARN"
    ELSE "PASS"

\* Mutants: --fail-on-warn decides for BLOCK too; an error is worth an exit 1.
ExitCode_FailOnWarnOnly(verdict, errors, fail_on_warn) ==
    IF verdict \in {"WARN", "BLOCK"} /\ fail_on_warn THEN 1 ELSE IF errors THEN 2 ELSE 0
ExitCode_ErrorsAreOne(verdict, errors, fail_on_warn) ==
    IF verdict = "BLOCK" \/ (verdict = "WARN" /\ fail_on_warn) \/ errors THEN 1 ELSE 0

\* A gated run outranks a runtime error (A5).
ExitCode(verdict, errors, fail_on_warn) ==
    IF verdict = "BLOCK" THEN 1
    ELSE IF verdict = "WARN" /\ fail_on_warn THEN 1
    ELSE IF errors THEN 2
    ELSE 0
=============================================================================
