------------------------- MODULE PolicyGatesProofs -------------------------
(***************************************************************************)
(* Facts about the gates for every plan and every policy, and the theorems *)
(* of a policy's review that follow from them.                             *)
(***************************************************************************)
EXTENDS PolicyReview, FiniteSetTheorems, TLAPS

\* A finite set of ports that holds a whole range is at least as large as the
\* range: the size test of _range_fully_allowed refuses nothing it should not.
LEMMA RangeFits ==
    ASSUME NEW allowed, IsFiniteSet(allowed),
           NEW from \in Int, NEW to \in Int, from <= to,
           from .. to \subseteq allowed
    PROVE  to - from + 1 <= Cardinality(allowed)
<1>1. Cardinality(from .. to) = to - from + 1
    BY FS_Interval
<1>2. Cardinality(from .. to) <= Cardinality(allowed)
    BY FS_Subset
<1>. QED
    BY <1>1, <1>2

\* _range_fully_allowed answers exactly whether the plan spells out a range and
\* every port of it is allowed, whatever the range and the allowed ports.
THEOREM RangeFullyAllowedExact ==
    ASSUME NEW allowed, IsFiniteSet(allowed),
           NEW from \in Int \cup {Null}, NEW to \in Int \cup {Null}
    PROVE  RangeFullyAllowed(from, to, allowed)
             <=> /\ from # Null /\ to # Null
                 /\ from <= to
                 /\ from .. to \subseteq allowed
<1>1. CASE from = Null \/ to = Null
    BY <1>1 DEF RangeFullyAllowed
<1>2. CASE from \in Int /\ to \in Int
    BY <1>2, RangeFits DEF RangeFullyAllowed
<1>. QED
    BY <1>1, <1>2

\* A rule is refused exactly when it admits a port outside the allowed ones.
LEMMA RefusedAdmits ==
    ASSUME NEW allowed, IsFiniteSet(allowed), NEW rule \in IngressRules
    PROVE  ~IsAllowed(rule, allowed) <=> Admits(rule, allowed)
<1>1. /\ rule.from_port \in Int \cup {Null}
      /\ rule.to_port \in Int \cup {Null}
    BY DEF IngressRules
<1>2. IsAllowed(rule, allowed)
        <=> /\ rule.protocol # AllProtocols
            /\ rule.from_port # Null /\ rule.to_port # Null
            /\ rule.from_port <= rule.to_port
            /\ rule.from_port .. rule.to_port \subseteq allowed
    BY <1>1, RangeFullyAllowedExact DEF IsAllowed
<1>3. CASE Null \in {rule.from_port, rule.to_port}
    BY <1>2, <1>3 DEF Admits, AdmitsAnyPort
<1>4. CASE Null \notin {rule.from_port, rule.to_port}
    <2>1. rule.from_port \in Int /\ rule.to_port \in Int
        BY <1>1, <1>4
    <2>2. rule.from_port <= rule.to_port <=> ~(rule.to_port < rule.from_port)
        BY <2>1
    <2>. QED
        BY <1>2, <1>4, <2>2 DEF Admits, AdmitsAnyPort
<1>. QED
    BY <1>3, <1>4

\* Changes whose resource survives apply are the classified ones not deleted.
LEMMA Survivors ==
    ASSUME NEW plan, NEW i \in DOMAIN plan
    PROVE  SurvivesApply(plan[i]) <=> i \in Classified(plan) /\ ClassOf(plan[i]) # "delete"
BY DEF SurvivesApply, Classified, ActionClass

\* The open_ingress gate is exact for every plan and every finite list of
\* allowed ports: it blocks if and only if some change that survives apply
\* opens to the world a port the policy does not allow (R15).
THEOREM IngressGateIsExact ==
    ASSUME NEW rule, IsFiniteSet(rule.allowed_ports),
           NEW plan \in Seq(Changes)
    PROVE  EvalOpenIngress(rule, plan) = "block" <=> Exposes(plan, rule.allowed_ports)
<1>. DEFINE Found(i) ==
        /\ SurvivesApply(plan[i])
        /\ plan[i].type \in IngressTypes
        /\ plan[i].after # Null
        /\ \E r \in OpenIngressRanges(plan[i].type, plan[i].after) :
              ~IsAllowed(r, rule.allowed_ports)
<1>. DEFINE Opened(i) ==
        /\ ClassOf(plan[i]) # "delete"
        /\ plan[i].after # Null
        /\ \/ plan[i].type \in {"aws_security_group", "aws_vpc_security_group_ingress_rule"}
           \/ plan[i].type = "aws_security_group_rule" /\ plan[i].after.direction = "ingress"
        /\ \E r \in plan[i].after.rules : RuleIsOpen(r) /\ Admits(r, rule.allowed_ports)
<1>1. ASSUME NEW i \in DOMAIN plan
      PROVE  Found(i) <=> i \in Classified(plan) /\ Opened(i)
    <2>1. plan[i] \in Changes
        BY <1>1
    <2>2. CASE plan[i].after = Null
        BY <2>2
    <2>3. CASE plan[i].after # Null
        <3>1. plan[i].after.rules \subseteq IngressRules
            BY <2>1, <2>3 DEF Changes, Attributes
        <3>2. \A r \in plan[i].after.rules :
                ~IsAllowed(r, rule.allowed_ports) <=> Admits(r, rule.allowed_ports)
            BY <3>1, RefusedAdmits
        <3>3. OpenIngressRanges(plan[i].type, plan[i].after) =
                {r \in plan[i].after.rules :
                    RuleIsOpen(r) /\ (plan[i].type = "aws_security_group_rule"
                                        => plan[i].after.direction = "ingress")}
            BY DEF OpenIngressRanges
        <3>4. SurvivesApply(plan[i]) <=> i \in Classified(plan) /\ ClassOf(plan[i]) # "delete"
            BY <1>1, Survivors
        <3>. HIDE DEF RuleIsOpen, IsAllowed, Admits
        <3>. QED
            BY <2>3, <3>2, <3>3, <3>4 DEF IngressTypes
    <2>. QED
        BY <2>2, <2>3
<1>2. (\E i \in DOMAIN plan : Found(i)) <=> Exposes(plan, rule.allowed_ports)
    BY <1>1 DEF Exposes, Classified
<1>. QED
    BY <1>2 DEF EvalOpenIngress

-----------------------------------------------------------------------------
\* A reaction is one of three, and an escalation never falls behind it.
LEMMA Reactions ==
    ASSUME NEW a \in Actions, NEW b \in Actions, NoLaxer(a, b)
    PROVE  /\ Escalated(a) \in {"pass", "warn", "block"}
           /\ Escalated(b) \in {"pass", "warn", "block"}
           /\ Escalated(a) = "block" => Escalated(b) = "block"
           /\ Escalated(a) = "warn" => Escalated(b) \in {"warn", "block"}
<1>1. /\ Severity["pass"] = 0 /\ Severity["warn"] = 1 /\ Severity["block"] = 2
    BY DEF Severity
<1>2. Escalated(a) \in {"pass", "warn", "block"} /\ Escalated(b) \in {"pass", "warn", "block"}
    BY DEF Escalated, Actions
<1>. QED
    BY <1>1, <1>2 DEF NoLaxer

\* Each gate's outcome under the tighter policy is at least as severe.
LEMMA DeltaGateMonotone ==
    ASSUME NEW p \in Policies, NEW q \in Policies, Tighter(p, q),
           NEW cents \in Int, NEW unpriced \in BOOLEAN
    PROVE  LET a == EvalMaxMonthlyDelta(p, cents, unpriced)
               b == EvalMaxMonthlyDelta(q, cents, unpriced)
           IN  /\ a = "block" => b = "block"
               /\ a = "warn" => b \in {"warn", "block"}
<1>. DEFINE Over(r) == r.limit_usd # Unlimited /\ cents > r.limit_usd
            Base(r) == IF Over(r) THEN "block" ELSE "pass"
            Extra(r) == IF unpriced THEN Escalated(r.treat_unpriced_as) ELSE "pass"
<1>1. /\ Severity["pass"] = 0 /\ Severity["warn"] = 1 /\ Severity["block"] = 2
    BY DEF Severity
<1>2. p.treat_unpriced_as \in Actions /\ q.treat_unpriced_as \in Actions
    BY DEF Policies
<1>3. /\ p.limit_usd \in Int \cup {Unlimited}
      /\ q.limit_usd \in Int \cup {Unlimited}
    BY DEF Policies
<1>4. /\ Extra(p) \in {"pass", "warn", "block"} /\ Extra(q) \in {"pass", "warn", "block"}
      /\ Extra(p) = "block" => Extra(q) = "block"
      /\ Extra(p) = "warn" => Extra(q) \in {"warn", "block"}
    BY <1>2, Reactions DEF Tighter
<1>5. Over(p) => Over(q)
    <2>1. SUFFICES ASSUME Over(p) PROVE Over(q)
        OBVIOUS
    <2>2. p.limit_usd \in Int /\ q.limit_usd \in Int /\ q.limit_usd <= p.limit_usd
        BY <1>3, <2>1 DEF Tighter
    <2>. QED
        BY <2>1, <2>2, <1>3 DEF Tighter
<1>6. ASSUME NEW r \in {p, q}
      PROVE  EvalMaxMonthlyDelta(r, cents, unpriced) = Worse(Base(r), Extra(r))
    BY DEF EvalMaxMonthlyDelta
<1>7. Base(p) = "block" => Base(q) = "block"
    BY <1>5
<1>8. Base(p) \in {"pass", "block"} /\ Base(q) \in {"pass", "block"}
    OBVIOUS
<1>. HIDE DEF Base, Extra, Over
<1>. QED
    BY <1>1, <1>4, <1>6, <1>7, <1>8 DEF Worse

LEMMA IngressGateMonotone ==
    ASSUME NEW p, NEW q, q.allowed_ports \subseteq p.allowed_ports,
           IsFiniteSet(p.allowed_ports), NEW plan \in Seq(Changes)
    PROVE  EvalOpenIngress(p, plan) = "block" => EvalOpenIngress(q, plan) = "block"
<1>1. IsFiniteSet(q.allowed_ports)
    BY FS_Subset
<1>2. ASSUME NEW r, Admits(r, p.allowed_ports) PROVE Admits(r, q.allowed_ports)
    BY <1>2 DEF Admits
<1>3. Exposes(plan, p.allowed_ports) => Exposes(plan, q.allowed_ports)
    BY <1>2 DEF Exposes
<1>. QED
    BY <1>1, <1>3, IngressGateIsExact

LEMMA DeletionsGateMonotone ==
    ASSUME NEW p \in Policies, NEW q \in Policies, Tighter(p, q), NEW plan
    PROVE  LET a == EvalDeletions(p, plan)
               b == EvalDeletions(q, plan)
           IN  /\ a = "block" => b = "block"
               /\ a = "warn" => b \in {"warn", "block"}
<1>1. p.deletions_action \in Actions /\ q.deletions_action \in Actions
    BY DEF Policies
<1>2. /\ Escalated(p.deletions_action) = "block" => Escalated(q.deletions_action) = "block"
      /\ Escalated(p.deletions_action) = "warn" =>
            Escalated(q.deletions_action) \in {"warn", "block"}
    BY <1>1, Reactions DEF Tighter
<1>3. p.protected_types \subseteq q.protected_types
    BY DEF Tighter
<1>. QED
    BY <1>2, <1>3 DEF EvalDeletions

LEMMA DriftGateMonotone ==
    ASSUME NEW p \in Policies, NEW q \in Policies, Tighter(p, q),
           NEW ran \in BOOLEAN, NEW drifted \in BOOLEAN
    PROVE  LET a == EvalDrift(p, ran, drifted)
               b == EvalDrift(q, ran, drifted)
           IN  /\ a = "block" => b = "block"
               /\ a = "warn" => b \in {"warn", "block"}
<1>1. p.drift_action \in Actions /\ q.drift_action \in Actions
    BY DEF Policies
<1>2. /\ Escalated(p.drift_action) = "block" => Escalated(q.drift_action) = "block"
      /\ Escalated(p.drift_action) = "warn" => Escalated(q.drift_action) \in {"warn", "block"}
    BY <1>1, Reactions DEF Tighter
<1>. QED
    BY <1>2 DEF EvalDrift

\* Tightening a policy, in any number of settings, never turns a red run green:
\* for every plan, cost and drift report, with or without read errors and
\* --fail-on-warn, a non-zero exit code stays non-zero (R14-R18).
THEOREM TighteningNeverTurnsGreen ==
    ASSUME NEW p \in Policies, NEW q \in Policies, Tighter(p, q),
           IsFiniteSet(p.allowed_ports),
           NEW reports \in GateReports,
           NEW errors \in BOOLEAN, NEW fail_on_warn \in BOOLEAN
    PROVE  Red(p, reports, errors, fail_on_warn) => Red(q, reports, errors, fail_on_warn)
<1>. DEFINE a == Evaluate(p, reports)
            b == Evaluate(q, reports)
<1>1. /\ reports.plan \in Seq(Changes) /\ reports.cents \in Int
      /\ reports.unpriced \in BOOLEAN /\ reports.ran \in BOOLEAN /\ reports.drifted \in BOOLEAN
    BY DEF GateReports
<1>2. a.max_monthly_delta = EvalMaxMonthlyDelta(p, reports.cents, reports.unpriced)
      /\ b.max_monthly_delta = EvalMaxMonthlyDelta(q, reports.cents, reports.unpriced)
      /\ a.open_ingress = EvalOpenIngress(p, reports.plan)
      /\ b.open_ingress = EvalOpenIngress(q, reports.plan)
      /\ a.deletions = EvalDeletions(p, reports.plan)
      /\ b.deletions = EvalDeletions(q, reports.plan)
      /\ a.drift = EvalDrift(p, reports.ran, reports.drifted)
      /\ b.drift = EvalDrift(q, reports.ran, reports.drifted)
    BY DEF Evaluate
<1>3. \A g \in Gates : /\ a[g] = "block" => b[g] = "block"
                       /\ a[g] = "warn" => b[g] \in {"warn", "block"}
    <2>1. /\ a.max_monthly_delta = "block" => b.max_monthly_delta = "block"
          /\ a.max_monthly_delta = "warn" => b.max_monthly_delta \in {"warn", "block"}
        BY <1>1, <1>2, DeltaGateMonotone
    <2>2. /\ a.open_ingress = "block" => b.open_ingress = "block"
          /\ a.open_ingress # "warn"
        <3>1. q.allowed_ports \subseteq p.allowed_ports
            BY DEF Tighter
        <3>. QED
            BY <1>1, <1>2, <3>1, IngressGateMonotone DEF EvalOpenIngress
    <2>3. /\ a.deletions = "block" => b.deletions = "block"
          /\ a.deletions = "warn" => b.deletions \in {"warn", "block"}
        BY <1>2, DeletionsGateMonotone
    <2>4. /\ a.drift = "block" => b.drift = "block"
          /\ a.drift = "warn" => b.drift \in {"warn", "block"}
        BY <1>1, <1>2, DriftGateMonotone
    <2>. HIDE DEF a, b
    <2>. QED
        BY <2>1, <2>2, <2>3, <2>4 DEF Gates
<1>. HIDE DEF a, b
<1>4. /\ Combine(a) = "BLOCK" => Combine(b) = "BLOCK"
      /\ Combine(a) = "WARN" => Combine(b) \in {"WARN", "BLOCK"}
    BY <1>3 DEF Combine
<1>5. ExitCode(Combine(a), errors, fail_on_warn) # 0
        => ExitCode(Combine(b), errors, fail_on_warn) # 0
    BY <1>4 DEF ExitCode
<1>. QED
    BY <1>5 DEF Red, a, b

-----------------------------------------------------------------------------
\* A review never leaves the policies considered, nor what it is about.
ReviewInv == chosen \in Candidates /\ judged \in Findings

LEMMA ReviewStays == ReviewSpec => []ReviewInv
<1>1. ReviewInit => ReviewInv
    BY DEF ReviewInit, ReviewInv
<1>2. ReviewInv /\ [Tighten]_review => ReviewInv'
    BY ReviewAssumption DEF ReviewInv, Tighten, review
<1>. QED
    BY <1>1, <1>2, PTL DEF ReviewSpec

\* The ingress gate is exact for every finding and whatever policy a review has
\* come to (R15).
THEOREM IngressGateIsAlwaysExact == ReviewSpec => []IngressGateExact
<1>1. ReviewInv => IngressGateExact
    <2>. SUFFICES ASSUME ReviewInv PROVE IngressGateExact
        OBVIOUS
    <2>1. IsFiniteSet(chosen.allowed_ports)
        BY ReviewAssumption DEF ReviewInv
    <2>2. judged.plan \in Seq(Changes)
        BY ReviewAssumption DEF ReviewInv, GateReports
    <2>. QED
        BY <2>1, <2>2, IngressGateIsExact DEF IngressGateExact
<1>. QED
    BY <1>1, ReviewStays, PTL

\* No review turns a red run green, whichever settings it tightens and in
\* whatever order (R14, R17, R18).
THEOREM TighteningAlwaysKeepsRed == ReviewSpec => TighteningNeverRelaxes
<1>1. ReviewInv /\ [Tighten]_review
        => [\A errors, fail_on_warn \in BOOLEAN :
               Red(chosen, judged, errors, fail_on_warn)
                 => Red(chosen', judged, errors, fail_on_warn)]_review
    <2>. SUFFICES ASSUME ReviewInv, Tighten,
                         NEW errors \in BOOLEAN, NEW fail_on_warn \in BOOLEAN,
                         Red(chosen, judged, errors, fail_on_warn)
                  PROVE  Red(chosen', judged, errors, fail_on_warn)
        BY DEF review
    <2>1. /\ chosen \in Policies /\ chosen' \in Policies
          /\ IsFiniteSet(chosen.allowed_ports)
          /\ Tighter(chosen, chosen')
          /\ judged \in GateReports
        BY ReviewAssumption DEF ReviewInv, Tighten
    <2>. QED
        BY <2>1, TighteningNeverTurnsGreen
<1>. QED
    BY <1>1, ReviewStays, PTL DEF ReviewSpec, TighteningNeverRelaxes
=============================================================================
