--------------------------- MODULE MCPolicyGates ---------------------------
(***************************************************************************)
(* PolicyReview over bounded plans, reports and policies; a step tightens  *)
(* one setting by one position.                                            *)
(***************************************************************************)
EXTENDS PolicyReview

Ports == 22 .. 25

OpenRule(cidr, protocol, from, to) ==
    [cidrs |-> {cidr}, protocol |-> protocol, from_port |-> from, to_port |-> to]

\* Open rules of every range over the ports, unknown ends and inverted ranges
\* included, a rule for all protocols, and one that is not open.
MCRules ==
    {OpenRule("::/0", "tcp", from, to) : from, to \in {22, 23, 25, Null}}
        \cup {OpenRule("0.0.0.0/0", AllProtocols, 22, 22), OpenRule("10.0.0.0/8", "tcp", 22, 25)}

Side(direction, rules) ==
    [key |-> Absent, storage |-> Absent, size |-> -1, multi_az |-> FALSE,
     direction |-> direction, rules |-> rules]

Change(type, actions, before, after) ==
    [type |-> type, actions |-> actions, before |-> before, after |-> after]

MCChanges ==
    {Change("aws_security_group", actions, Null, Side("ingress", {rule})) :
        actions \in {<<"create">>, <<"create", "delete">>}, rule \in MCRules}
    \cup {Change("aws_security_group_rule", <<"update">>, Null, Side(direction, {rule})) :
        direction \in {"ingress", "egress"}, rule \in MCRules}
    \cup {Change("aws_vpc_security_group_ingress_rule", actions, Null, after) :
        actions \in {<<"create">>, <<"no-op">>}, after \in {Null, Side("ingress", MCRules)}}
    \cup {Change("aws_db_instance", <<"delete">>, Null, Null)}

MCReports ==
    [plan : {<<change>> : change \in MCChanges}, cents : {5}, unpriced : BOOLEAN,
     ran : {TRUE}, drifted : BOOLEAN]
    \cup [plan : {<<>>}, cents : {5}, unpriced : BOOLEAN, ran : BOOLEAN, drifted : {FALSE}]

\* Settings, each list from loose to tight.
Limits    == <<Unlimited, 5, 4>>
Reactions == <<"ignore", "warn", "block">>
PortLists == <<{22, 23, 24, 25}, {22, 24, 25}, {22, 25}, {22}, {}>>
Protected == <<{}, {"aws_db_instance"}>>

\* The policy that stands at the given positions of those lists.
PolicyAt(l, u, p, d, t, r) ==
    [limit_usd |-> Limits[l], treat_unpriced_as |-> Reactions[u],
     allowed_ports |-> PortLists[p], deletions_action |-> Reactions[d],
     protected_types |-> Protected[t], drift_action |-> Reactions[r]]

\* One setting one position up, the others as they are.
Tightenings(p) ==
    {[p EXCEPT !.limit_usd = Limits[n + 1]] : n \in {m \in 1 .. 2 : Limits[m] = p.limit_usd}}
    \cup {[p EXCEPT !.treat_unpriced_as = Reactions[n + 1]] :
            n \in {m \in 1 .. 2 : Reactions[m] = p.treat_unpriced_as}}
    \cup {[p EXCEPT !.allowed_ports = PortLists[n + 1]] :
            n \in {m \in 1 .. 4 : PortLists[m] = p.allowed_ports}}
    \cup {[p EXCEPT !.deletions_action = Reactions[n + 1]] :
            n \in {m \in 1 .. 2 : Reactions[m] = p.deletions_action}}
    \cup {[p EXCEPT !.protected_types = Protected[n + 1]] :
            n \in {m \in 1 .. 1 : Protected[m] = p.protected_types}}
    \cup {[p EXCEPT !.drift_action = Reactions[n + 1]] :
            n \in {m \in 1 .. 2 : Reactions[m] = p.drift_action}}

MCCandidates ==
    {PolicyAt(l, u, p, d, t, r) :
        l \in 1 .. 3, u \in 1 .. 3, p \in 1 .. 5, d \in 1 .. 3, t \in 1 .. 2, r \in 1 .. 3}

MCStricter == [p \in MCCandidates |-> Tightenings(p)]
=============================================================================
