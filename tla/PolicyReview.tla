---------------------------- MODULE PolicyReview ----------------------------
(***************************************************************************)
(* A policy under review: the gates of PolicyGates answer for some findings*)
(* while somebody tightens the policy, setting by setting.  A state is one *)
(* evaluation, and a step relates two evaluations of the same findings.    *)
(* The names differ from those of Analyze, whose proofs use the facts about*)
(* the gates.                                                              *)
(***************************************************************************)
EXTENDS PolicyGates

CONSTANTS
    Candidates,     \* the policies considered
    Stricter,       \* for each of them, those somebody may tighten it to
    Findings        \* what the gates may be shown

VARIABLES
    chosen,         \* the policy, rule of evaluate()
    judged          \* the reports and the plan it is given

review == <<chosen, judged>>

\* Reaction b is at least as severe as a.
NoLaxer(a, b) == Severity[Escalated(a)] <= Severity[Escalated(b)]

\* Policy q is at least as strict as p, setting by setting.
Tighter(p, q) ==
    /\ q.limit_usd = Unlimited => p.limit_usd = Unlimited
    /\ p.limit_usd # Unlimited => q.limit_usd <= p.limit_usd
    /\ NoLaxer(p.treat_unpriced_as, q.treat_unpriced_as)
    /\ q.allowed_ports \subseteq p.allowed_ports
    /\ NoLaxer(p.deletions_action, q.deletions_action)
    /\ p.protected_types \subseteq q.protected_types
    /\ NoLaxer(p.drift_action, q.drift_action)

\* What Evaluate can be given.
GateReports ==
    [plan : Seq(Changes), cents : Int, unpriced : BOOLEAN, ran : BOOLEAN, drifted : BOOLEAN]

\* A YAML list of ports is finite.
ASSUME ReviewAssumption ==
    /\ Candidates \subseteq Policies
    /\ \A p \in Candidates : IsFiniteSet(p.allowed_ports)
    /\ Stricter \in [Candidates -> SUBSET Candidates]
    /\ \A p \in Candidates : \A q \in Stricter[p] : Tighter(p, q)
    /\ Findings \subseteq GateReports

ReviewInit == chosen \in Candidates /\ judged \in Findings

Tighten == chosen' \in Stricter[chosen] /\ UNCHANGED judged

ReviewSpec == ReviewInit /\ [][Tighten]_review

-----------------------------------------------------------------------------
\* The open_ingress gate blocks exactly when some change that survives apply
\* opens a port the policy does not allow to the world; the refusal of wide
\* ranges before they are walked never changes the answer (R15).
IngressGateExact ==
    EvalOpenIngress(chosen, judged.plan) = "block"
        <=> Exposes(judged.plan, chosen.allowed_ports)

Red(rule, reports, errors, fail_on_warn) ==
    ExitCode(Combine(Evaluate(rule, reports)), errors, fail_on_warn) # 0

\* Tightening a policy never turns a red run green: no gate's finding hides
\* another's, whatever the reports and however errors and --fail-on-warn bear on
\* the exit code (R14, R17, R18).
TighteningNeverRelaxes ==
    [][\A errors, fail_on_warn \in BOOLEAN :
          Red(chosen, judged, errors, fail_on_warn)
            => Red(chosen', judged, errors, fail_on_warn)]_review
=============================================================================
