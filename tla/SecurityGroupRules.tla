------------------------- MODULE SecurityGroupRules -------------------------
(***************************************************************************)
(* _compare_security_group of core/drift.py over _permissions_to_rules of  *)
(* adapters/boto3_reader.py.  A security group is a set of grants, each    *)
(* for one source.  Terraform writes them into its state as rules of many  *)
(* sources; other people then grant and revoke; AWS answers with its own   *)
(* grouping of what is left, and the two are compared and reported.        *)
(***************************************************************************)
EXTENDS Integers, Sequences, FiniteSets, SequencesExt

CONSTANTS
    Null,      \* Python's None
    Hidden,    \* SENSITIVE_PLACEHOLDER
    V4, V6,    \* sources that are IPv4 and IPv6 blocks, and
    Groups,    \* those that are not CIDR blocks: another group, a prefix list
    Grants,    \* the grants considered, for each direction
    Rank       \* the order of the strings in a rule, as numbers

VARIABLES
    written,   \* history: what was granted when Terraform wrote the state
    state,     \* the rules it wrote
    marked,    \* the directions that sensitive_values marks
    grants,    \* what is granted in AWS
    report     \* the drifts filed for each direction, Null before detect()

vars == <<written, state, marked, grants, report>>

Directions == {"ingress", "egress"}

\* A port is any integer, -1 where it stands for every ICMP type or code, or
\* None where the API leaves it out.
Ports == Int \cup {Null}

ASSUME SourcesAssumption == V4 \cap V6 = {} /\ (V4 \cup V6) \cap Groups = {}
ASSUME GrantsAssumption ==
    Grants \in [Directions -> SUBSET [protocol : STRING, from : Ports, to : Ports,
                                      source : V4 \cup V6 \cup Groups]]
ASSUME NullAssumption == Null \notin Int

\* A group has finitely many rules, and different strings are never equal in order.
RankedStrings ==
    {"ipv4", "ipv6"} \cup V4 \cup V6
        \cup {g.protocol : g \in UNION {Grants[d] : d \in Directions}}

ASSUME FiniteAssumption == \A d \in Directions : IsFiniteSet(Grants[d])
ASSUME RankAssumption ==
    /\ \A string \in RankedStrings : string \in DOMAIN Rank /\ Rank[string] \in Int
    /\ \A s, t \in RankedStrings : Rank[s] = Rank[t] => s = t

-----------------------------------------------------------------------------
\* Grants of the same protocol and ports may share a rule, so a set of grants
\* can be written in as many ways as these fall into blocks.
Blocks(granted) ==
    {block \in SUBSET granted :
        /\ block # {}
        /\ \A g, h \in block : <<g.protocol, g.from, g.to>> = <<h.protocol, h.from, h.to>>}

Groupings(granted) ==
    {blocks \in SUBSET Blocks(granted) :
        /\ UNION blocks = granted
        /\ \A b, c \in blocks : b # c => b \cap c = {}}

\* A grant without ports is one for all of them: Terraform writes 0 for each.
WrittenPort(port) == IF port = Null THEN 0 ELSE port

StateRule(block) ==
    LET grant == CHOOSE g \in block : TRUE
    IN  [protocol |-> grant.protocol,
         from_port |-> WrittenPort(grant.from), to_port |-> WrittenPort(grant.to),
         cidr_blocks |-> {g.source : g \in block} \cap V4,
         ipv6_cidr_blocks |-> {g.source : g \in block} \cap V6]

\* AWS leaves the ports out, and the reader takes what is not there for None.
LiveRule(block) ==
    LET grant == CHOOSE g \in block : TRUE
    IN  [protocol |-> grant.protocol,
         from_port |-> grant.from, to_port |-> grant.to,
         cidr_blocks |-> {g.source : g \in block} \cap V4,
         ipv6_cidr_blocks |-> {g.source : g \in block} \cap V6]

Atom(rule, family, cidr) ==
    [protocol |-> rule.protocol, from_port |-> rule.from_port, to_port |-> rule.to_port,
     family |-> family, cidr |-> cidr]

\* Mutant: only IPv4 blocks are expanded.
AtomicRules_V4Only(rules) ==
    UNION {{Atom(rule, "ipv4", cidr) : cidr \in rule.cidr_blocks} : rule \in rules}

\* One atomic rule for each block of each rule: what a list repeats, orders or
\* groups differently falls together, and a rule without blocks falls out.
AtomicRules(rules) ==
    UNION {{Atom(rule, "ipv4", cidr) : cidr \in rule.cidr_blocks} \cup
           {Atom(rule, "ipv6", cidr) : cidr \in rule.ipv6_cidr_blocks} : rule \in rules}

-----------------------------------------------------------------------------
PortRank(port) == IF port = Null THEN -1 ELSE port

\* Mutant: the sort key leaves out to_port.
SortKey_NoToPort(atom) ==
    <<Rank[atom.protocol], PortRank(atom.from_port), 0, Rank[atom.family], Rank[atom.cidr]>>

SortKey(atom) ==
    <<Rank[atom.protocol], PortRank(atom.from_port), PortRank(atom.to_port),
      Rank[atom.family], Rank[atom.cidr]>>

Precedes(a, b) ==
    \E n \in 1 .. 5 : /\ SortKey(a)[n] < SortKey(b)[n]
                      /\ \A m \in 1 .. n - 1 : SortKey(a)[m] = SortKey(b)[m]

\* Mutant: a printed rule shows only its first port.
Printed_FromOnly(atom) ==
    [protocol |-> atom.protocol, from_port |-> atom.from_port, cidr |-> atom.cidr]

\* The family is part of the rule and of the key and is not printed.
Printed(atom) ==
    [protocol |-> atom.protocol, from_port |-> atom.from_port, to_port |-> atom.to_port,
     cidr |-> atom.cidr]

\* sorted() is stable and a set has no order of its own: every sequence of the
\* rules in which none precedes an earlier one is a possible result.
Renderings(atoms) ==
    {[n \in DOMAIN s |-> Printed(s[n])] : s \in
        {t \in SetToSeqs(atoms) : \A m, n \in DOMAIN t : m < n => ~Precedes(t[n], t[m])}}

\* Mutant: a sensitive attribute's live value is shown.
Compare_ShowsLive(direction, live) ==
    LET old == AtomicRules(state[direction])
        new == AtomicRules(live)
    IN  IF old = new THEN {<<>>}
        ELSE {<<drift>> : drift \in
                 [state : IF direction \in marked THEN {Hidden} ELSE Renderings(old),
                  live  : Renderings(new)]}

\* What may be filed about one direction: nothing if the sets are equal, else a
\* drift of both renderings, or of the placeholder twice if the attribute is
\* marked.
Compare(direction, live) ==
    LET old == AtomicRules(state[direction])
        new == AtomicRules(live)
    IN  IF old = new THEN {<<>>}
        ELSE {<<drift>> : drift \in
                 IF direction \in marked THEN [state : {Hidden}, live : {Hidden}]
                 ELSE [state : Renderings(old), live : Renderings(new)]}

-----------------------------------------------------------------------------
Init ==
    /\ written \in [Directions -> UNION {SUBSET Grants[d] : d \in Directions}]
    /\ \A d \in Directions : written[d] \subseteq Grants[d]
    /\ \E in \in Groupings(written["ingress"]), out \in Groupings(written["egress"]) :
          state = [ingress |-> {StateRule(b) : b \in in}, egress |-> {StateRule(b) : b \in out}]
    /\ marked \in SUBSET Directions
    /\ grants = written
    /\ report = Null

\* Somebody changes the group in AWS before it is read.
Authorize(direction, grant) ==
    /\ report = Null
    /\ grant \in Grants[direction] \ grants[direction]
    /\ grants' = [grants EXCEPT ![direction] = @ \cup {grant}]
    /\ UNCHANGED <<written, state, marked, report>>

Revoke(direction, grant) ==
    /\ report = Null
    /\ grant \in grants[direction]
    /\ grants' = [grants EXCEPT ![direction] = @ \ {grant}]
    /\ UNCHANGED <<written, state, marked, report>>

\* One DescribeSecurityGroups, then both directions in turn.
CompareSecurityGroup ==
    /\ report = Null
    /\ \E in \in Groupings(grants["ingress"]), out \in Groupings(grants["egress"]) :
       \E ingress \in Compare("ingress", {LiveRule(b) : b \in in}),
          egress \in Compare("egress", {LiveRule(b) : b \in out}) :
            report' = [ingress |-> ingress, egress |-> egress]
    /\ UNCHANGED <<written, state, marked, grants>>

Next ==
    \/ \E direction \in Directions : \E grant \in Grants[direction] :
          Authorize(direction, grant) \/ Revoke(direction, grant)
    \/ CompareSecurityGroup

Spec == Init /\ [][Next]_vars

-----------------------------------------------------------------------------
PrintedRules ==
    {Printed(atom) : atom \in
        UNION {AtomicRules({StateRule(b), LiveRule(b)}) :
                  b \in UNION {Blocks(Grants[d]) : d \in Directions}}}

Drifts == [state : {Hidden}, live : {Hidden}]
             \cup [state : Seq(PrintedRules), live : Seq(PrintedRules)]

TypeOK ==
    /\ \A d \in Directions : grants[d] \cup written[d] \subseteq Grants[d]
    /\ \A d \in Directions : state[d] \subseteq {StateRule(b) : b \in Blocks(Grants[d])}
    /\ marked \subseteq Directions
    /\ report # Null => report \in [Directions -> Seq(Drifts)]

ToCidrs(granted) == {g \in granted : g.source \notin Groups}

NamesPorts(granted) == \A g \in granted : g.from # Null /\ g.to # Null

\* A direction is reported if and only if what it grants to CIDR blocks has
\* changed since the state was written (R9): however Terraform and AWS group
\* the sources into rules, whatever is granted and revoked again meanwhile,
\* and without mistaking one direction's change for the other's.  The state
\* must name the ports: it has 0 for those AWS leaves out (UnchangedIsSilent).
DriftIffChanged ==
    report # Null =>
        \A d \in Directions :
            NamesPorts(written[d]) =>
                (report[d] # <<>> <=> ToCidrs(written[d]) # ToCidrs(grants[d]))

\* For one protocol and source, a grant that leaves a port out and another that
\* gives it as -1.
MixesNoneAndAll(granted) ==
    \E g, h \in granted :
        /\ g.protocol = h.protocol /\ g.source = h.source
        /\ <<g.from, h.from>> = <<Null, -1>> \/ <<g.to, h.to>> = <<Null, -1>>

\* The lists that may be printed of a direction's answer.
LiveLists(d) ==
    UNION {Renderings(AtomicRules({LiveRule(b) : b \in blocks})) : blocks \in Groupings(grants[d])}

\* Two processes print the same rules in the same order, on both sides of a
\* drift, whatever order their hash seeds iterate the sets in and AWS groups
\* its answer in: rules that tie on some of their fields are ordered by the
\* others.  The one exception is of the live side: None and -1 have one place
\* in the key of core/drift.py:251-257, and where a group has both for one
\* source, the iteration decides which is printed first, although None is
\* said to come first there.
OneRendering ==
    report # Null =>
        \A d \in Directions :
            /\ Cardinality(Renderings(AtomicRules(state[d]))) = 1
            /\ ~MixesNoneAndAll(grants[d]) => Cardinality(LiveLists(d)) = 1

\* A reported direction shows why: its two lists differ in the rules they
\* show, although not all of a rule is printed; or, where the state marks the
\* attribute, it shows neither list.
ReportShowsWhatDiffers ==
    report # Null =>
        \A d \in Directions : \A n \in DOMAIN report[d] :
            IF d \in marked THEN report[d][n] = [state |-> Hidden, live |-> Hidden]
            ELSE ToSet(report[d][n].state) # ToSet(report[d][n].live)

\* "Order-insensitive comparison: same rules, reversed order and CIDRs
\* regrouped one-per-rule (AWS-style) -> no drift": a group nobody changed has
\* none, its rules for all traffic included.
UnchangedIsSilent ==
    report # Null /\ grants = written => \A d \in Directions : report[d] = <<>>
=============================================================================
