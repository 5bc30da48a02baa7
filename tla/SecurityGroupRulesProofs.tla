---------------------- MODULE SecurityGroupRulesProofs ----------------------
(***************************************************************************)
(* Proofs about SecurityGroupRules, for every set of grants and every way  *)
(* of grouping them into rules.  First what the comparison finds; then     *)
(* what is printed of it.                                                  *)
(***************************************************************************)
EXTENDS SecurityGroupRules, FiniteSetTheorems, TLAPS

\* The atomic rule a grant to a CIDR block becomes, and those of many grants.
AtomOf(grant) ==
  [protocol |-> grant.protocol, from_port |-> grant.from, to_port |-> grant.to,
   family |-> IF grant.source \in V4 THEN "ipv4" ELSE "ipv6", cidr |-> grant.source]

AtomsOf(granted) == {AtomOf(g) : g \in ToCidrs(granted)}

LEMMA GrantsAre ==
  \A d \in Directions : \A g \in Grants[d] :
     /\ g = [protocol |-> g.protocol, from |-> g.from, to |-> g.to, source |-> g.source]
     /\ g.source \in V4 \cup V6 \cup Groups
  BY GrantsAssumption

\* The rule of a block has the protocol and ports of each of its grants.
LEMMA BlocksAgree ==
  ASSUME NEW granted, NEW block \in Blocks(granted), NEW g \in block
  PROVE  /\ g \in granted
         /\ LiveRule(block).protocol = g.protocol
         /\ LiveRule(block).from_port = g.from
         /\ LiveRule(block).to_port = g.to
         /\ LiveRule(block).cidr_blocks = {h.source : h \in block} \cap V4
         /\ LiveRule(block).ipv6_cidr_blocks = {h.source : h \in block} \cap V6
<1> DEFINE first == CHOOSE h \in block : TRUE
<1>1. first \in block
  OBVIOUS
<1>2. g \in granted /\ first.protocol = g.protocol /\ first.from = g.from /\ first.to = g.to
  BY <1>1 DEF Blocks
<1>3. QED
  BY <1>2 DEF LiveRule

\* However grants are grouped into rules, their atomic rules are the same.
LEMMA GroupingIsIgnored ==
  ASSUME NEW d \in Directions, NEW granted \in SUBSET Grants[d],
         NEW blocks \in Groupings(granted)
  PROVE  AtomicRules({LiveRule(b) : b \in blocks}) = AtomsOf(granted)
<1> DEFINE atoms == AtomicRules({LiveRule(b) : b \in blocks})
<1>1. UNION blocks = granted /\ blocks \subseteq Blocks(granted)
  BY DEF Groupings
<1>2. ASSUME NEW atom \in atoms PROVE atom \in AtomsOf(granted)
  <2>1. PICK b \in blocks : atom \in {Atom(LiveRule(b), "ipv4", c) : c \in LiveRule(b).cidr_blocks}
                                \cup {Atom(LiveRule(b), "ipv6", c) : c \in LiveRule(b).ipv6_cidr_blocks}
    BY <1>2 DEF AtomicRules
  <2>2. CASE \E c \in LiveRule(b).cidr_blocks : atom = Atom(LiveRule(b), "ipv4", c)
    <3>1. PICK c \in LiveRule(b).cidr_blocks : atom = Atom(LiveRule(b), "ipv4", c)
      BY <2>2
    <3>2. b # {} /\ b \in Blocks(granted)
      BY <1>1 DEF Blocks
    <3>3. PICK g \in b : g.source = c /\ c \in V4
      BY <3>1, <3>2, BlocksAgree
    <3>4. atom = AtomOf(g) /\ g \in granted
      BY <3>1, <3>2, <3>3, BlocksAgree DEF Atom, AtomOf
    <3>5. g \in ToCidrs(granted)
      BY <3>3, <3>4, SourcesAssumption DEF ToCidrs
    <3>6. QED
      BY <3>4, <3>5 DEF AtomsOf
  <2>3. CASE \E c \in LiveRule(b).ipv6_cidr_blocks : atom = Atom(LiveRule(b), "ipv6", c)
    <3>1. PICK c \in LiveRule(b).ipv6_cidr_blocks : atom = Atom(LiveRule(b), "ipv6", c)
      BY <2>3
    <3>2. b # {} /\ b \in Blocks(granted)
      BY <1>1 DEF Blocks
    <3>3. PICK g \in b : g.source = c /\ c \in V6 /\ c \notin V4
      BY <3>1, <3>2, BlocksAgree, SourcesAssumption
    <3>4. atom = AtomOf(g) /\ g \in granted
      BY <3>1, <3>2, <3>3, BlocksAgree DEF Atom, AtomOf
    <3>5. g \in ToCidrs(granted)
      BY <3>3, <3>4, SourcesAssumption DEF ToCidrs
    <3>6. QED
      BY <3>4, <3>5 DEF AtomsOf
  <2>4. QED
    BY <2>1, <2>2, <2>3
<1>3. ASSUME NEW g \in ToCidrs(granted) PROVE AtomOf(g) \in atoms
  <2>1. g \in granted /\ g.source \in V4 \cup V6
    BY <1>3, GrantsAre DEF ToCidrs
  <2>2. PICK b \in blocks : g \in b
    BY <1>1, <2>1
  <2>3. b \in Blocks(granted)
    BY <1>1
  <2>4. CASE g.source \in V4
    <3>1. g.source \in LiveRule(b).cidr_blocks
      BY <2>2, <2>3, <2>4, BlocksAgree
    <3>2. AtomOf(g) = Atom(LiveRule(b), "ipv4", g.source)
      BY <2>2, <2>3, <2>4, BlocksAgree DEF Atom, AtomOf
    <3>3. QED
      BY <3>1, <3>2 DEF AtomicRules
  <2>5. CASE g.source \in V6 /\ g.source \notin V4
    <3>1. g.source \in LiveRule(b).ipv6_cidr_blocks
      BY <2>2, <2>3, <2>5, BlocksAgree
    <3>2. AtomOf(g) = Atom(LiveRule(b), "ipv6", g.source)
      BY <2>2, <2>3, <2>5, BlocksAgree DEF Atom, AtomOf
    <3>3. QED
      BY <3>1, <3>2 DEF AtomicRules
  <2>6. QED
    BY <2>1, <2>4, <2>5
<1>4. QED
  BY <1>2, <1>3 DEF AtomsOf

\* Where the ports are named, Terraform writes a rule as AWS answers it.
LEMMA WrittenAsAnswered ==
  ASSUME NEW granted, NamesPorts(granted),
         NEW blocks \in Groupings(granted)
  PROVE  {StateRule(b) : b \in blocks} = {LiveRule(b) : b \in blocks}
<1>1. ASSUME NEW b \in blocks PROVE StateRule(b) = LiveRule(b)
  <2> DEFINE first == CHOOSE h \in b : TRUE
  <2>1. b # {} /\ b \subseteq granted
    BY DEF Groupings, Blocks
  <2>2. first.from # Null /\ first.to # Null
    BY <2>1 DEF NamesPorts
  <2>3. QED
    BY <2>2 DEF StateRule, LiveRule, WrittenPort
<1>2. QED
  BY <1>1

\* Two sets of grants have the same atomic rules only if they grant the same
\* to CIDR blocks.
LEMMA AtomsTellGrants ==
  ASSUME NEW d \in Directions, NEW G \in SUBSET Grants[d], NEW H \in SUBSET Grants[d]
  PROVE  AtomsOf(G) = AtomsOf(H) <=> ToCidrs(G) = ToCidrs(H)
<1>1. ASSUME NEW g \in Grants[d], NEW h \in Grants[d], AtomOf(g) = AtomOf(h) PROVE g = h
  <2>1. /\ g.protocol = h.protocol /\ g.from = h.from
        /\ g.to = h.to /\ g.source = h.source
    BY <1>1 DEF AtomOf
  <2>2. QED
    BY <2>1, GrantsAre
<1>2. ToCidrs(G) \subseteq Grants[d] /\ ToCidrs(H) \subseteq Grants[d]
  BY DEF ToCidrs
<1>3. QED
  BY <1>1, <1>2 DEF AtomsOf

-----------------------------------------------------------------------------
(***************************************************************************)
(* Nothing but what Terraform wrote decides the state's side of the        *)
(* comparison, so the state must be remembered to be a grouping of it.     *)
(***************************************************************************)
StateIsWritten ==
  \A d \in Directions :
     \E blocks \in Groupings(written[d]) : state[d] = {StateRule(b) : b \in blocks}

RulesInv ==
  /\ \A d \in Directions : written[d] \in SUBSET Grants[d] /\ grants[d] \in SUBSET Grants[d]
  /\ DOMAIN grants = Directions
  /\ StateIsWritten
  /\ DriftIffChanged

\* What one direction's comparison files.
LEMMA ComparisonIsExact ==
  ASSUME RulesInv, NEW d \in Directions, NamesPorts(written[d]),
         NEW blocks \in Groupings(grants[d]),
         NEW filed \in Compare(d, {LiveRule(b) : b \in blocks})
  PROVE  filed # <<>> <=> ToCidrs(written[d]) # ToCidrs(grants[d])
<1> DEFINE live == {LiveRule(b) : b \in blocks}
<1>1. written[d] \in SUBSET Grants[d] /\ grants[d] \in SUBSET Grants[d]
  BY DEF RulesInv
<1>2. AtomicRules(live) = AtomsOf(grants[d])
  BY <1>1, GroupingIsIgnored
<1>3. AtomicRules(state[d]) = AtomsOf(written[d])
  <2>1. PICK B \in Groupings(written[d]) : state[d] = {StateRule(b) : b \in B}
    BY DEF RulesInv, StateIsWritten
  <2>2. state[d] = {LiveRule(b) : b \in B}
    BY <1>1, <2>1, WrittenAsAnswered
  <2>3. QED
    BY <1>1, <2>2, GroupingIsIgnored
<1> HIDE DEF live
<1>4. CASE AtomicRules(state[d]) = AtomicRules(live)
  <2>1. Compare(d, live) = {<<>>}
    BY <1>4 DEF Compare
  <2>2. QED
    BY <1>1, <1>2, <1>3, <1>4, <2>1, AtomsTellGrants DEF live
<1>5. CASE AtomicRules(state[d]) # AtomicRules(live)
  <2>1. PICK drift : filed = <<drift>>
    BY <1>5 DEF Compare, live
  <2>2. filed # <<>>
    BY <2>1
  <2>3. QED
    BY <1>1, <1>2, <1>3, <1>5, <2>2, AtomsTellGrants
<1>6. QED
  BY <1>4, <1>5

LEMMA RulesStep == RulesInv /\ [Next]_vars => RulesInv'
<1> SUFFICES ASSUME RulesInv, [Next]_vars PROVE RulesInv'
  OBVIOUS
<1>1. ASSUME NEW d \in Directions, NEW g \in Grants[d], Authorize(d, g) PROVE RulesInv'
  <2>1. \A e \in Directions : grants'[e] \in SUBSET Grants[e]
    BY <1>1 DEF Authorize, RulesInv
  <2>2. QED
    BY <1>1, <2>1 DEF Authorize, RulesInv, StateIsWritten, DriftIffChanged
<1>2. ASSUME NEW d \in Directions, NEW g \in Grants[d], Revoke(d, g) PROVE RulesInv'
  <2>1. \A e \in Directions : grants'[e] \in SUBSET Grants[e]
    BY <1>2 DEF Revoke, RulesInv
  <2>2. QED
    BY <1>2, <2>1 DEF Revoke, RulesInv, StateIsWritten, DriftIffChanged
<1>3. CASE CompareSecurityGroup
  <2>0. PICK in \in Groupings(grants["ingress"]), out \in Groupings(grants["egress"]) :
           \E ingress \in Compare("ingress", {LiveRule(b) : b \in in}),
              egress \in Compare("egress", {LiveRule(b) : b \in out}) :
                 report' = [ingress |-> ingress, egress |-> egress]
    BY <1>3 DEF CompareSecurityGroup
  <2>1. PICK ingress \in Compare("ingress", {LiveRule(b) : b \in in}),
             egress \in Compare("egress", {LiveRule(b) : b \in out}) :
                report' = [ingress |-> ingress, egress |-> egress]
    BY <2>0
  <2>2. "ingress" \in Directions /\ "egress" \in Directions
    BY DEF Directions
  <2>3. NamesPorts(written["ingress"]) =>
          (ingress # <<>> <=> ToCidrs(written["ingress"]) # ToCidrs(grants["ingress"]))
    BY <2>1, <2>2, ComparisonIsExact
  <2>4. NamesPorts(written["egress"]) =>
          (egress # <<>> <=> ToCidrs(written["egress"]) # ToCidrs(grants["egress"]))
    BY <2>1, <2>2, ComparisonIsExact
  <2>5. UNCHANGED <<written, state, grants>>
    BY <1>3 DEF CompareSecurityGroup
  <2>6. DriftIffChanged'
    BY <2>1, <2>3, <2>4, <2>5 DEF DriftIffChanged, Directions, ToCidrs, NamesPorts
  <2>7. QED
    BY <2>5, <2>6 DEF RulesInv, StateIsWritten
<1>4. CASE UNCHANGED vars
  BY <1>4 DEF vars, RulesInv, StateIsWritten, DriftIffChanged
<1>5. QED
  BY <1>1, <1>2, <1>3, <1>4 DEF Next

LEMMA RulesInit == Init => RulesInv
  BY DEF Init, RulesInv, StateIsWritten, DriftIffChanged, Directions

\* For every set of grants, every grouping of them into rules and every sequence
\* of changes: a direction whose ports the state names is reported exactly when
\* what it grants to CIDR blocks is no longer what it was (R9).
THEOREM DriftExactlyWhenChanged == Spec => []DriftIffChanged
<1>1. RulesInv /\ [Next]_vars => RulesInv'
  BY RulesStep
<1>2. RulesInv => DriftIffChanged
  BY DEF RulesInv
<1>3. QED
  BY <1>1, <1>2, RulesInit, PTL DEF Spec

-----------------------------------------------------------------------------
(***************************************************************************)
(* What both sides of a comparison are made of, the ports named or not.    *)
(***************************************************************************)

IsAtom(atom) ==
  /\ atom = [protocol |-> atom.protocol, from_port |-> atom.from_port, to_port |-> atom.to_port,
             family |-> atom.family, cidr |-> atom.cidr]
  /\ {atom.protocol, atom.family, atom.cidr} \subseteq RankedStrings
  /\ {atom.from_port, atom.to_port} \subseteq Ports
  /\ atom.family = IF atom.cidr \in V4 THEN "ipv4" ELSE "ipv6"

\* The five fields of the sort key, compared one after the other.
LEMMA PrecedesUnfolds ==
  ASSUME NEW a, NEW b
  PROVE  Precedes(a, b) <=>
           \/ Rank[a.protocol] < Rank[b.protocol]
           \/ /\ Rank[a.protocol] = Rank[b.protocol]
              /\ \/ PortRank(a.from_port) < PortRank(b.from_port)
                 \/ /\ PortRank(a.from_port) = PortRank(b.from_port)
                    /\ \/ PortRank(a.to_port) < PortRank(b.to_port)
                       \/ /\ PortRank(a.to_port) = PortRank(b.to_port)
                          /\ \/ Rank[a.family] < Rank[b.family]
                             \/ /\ Rank[a.family] = Rank[b.family]
                                /\ Rank[a.cidr] < Rank[b.cidr]
<1> DEFINE k == SortKey(a)
           l == SortKey(b)
<1>1. /\ k[1] = Rank[a.protocol] /\ k[2] = PortRank(a.from_port) /\ k[3] = PortRank(a.to_port)
      /\ k[4] = Rank[a.family] /\ k[5] = Rank[a.cidr]
  BY DEF SortKey
<1>2. /\ l[1] = Rank[b.protocol] /\ l[2] = PortRank(b.from_port) /\ l[3] = PortRank(b.to_port)
      /\ l[4] = Rank[b.family] /\ l[5] = Rank[b.cidr]
  BY DEF SortKey
<1> HIDE DEF k, l
<1>3. /\ 1 .. 5 = {1, 2, 3, 4, 5} /\ 1 .. 1 - 1 = {} /\ 1 .. 2 - 1 = {1} /\ 1 .. 3 - 1 = {1, 2}
      /\ 1 .. 4 - 1 = {1, 2, 3} /\ 1 .. 5 - 1 = {1, 2, 3, 4}
  OBVIOUS
<1>4. Precedes(a, b) <=> \E n \in {1, 2, 3, 4, 5} :
                            k[n] < l[n] /\ \A m \in 1 .. n - 1 : k[m] = l[m]
  BY <1>3 DEF Precedes, k, l
<1>5. Precedes(a, b) <=> \/ k[1] < l[1]
                         \/ k[2] < l[2] /\ k[1] = l[1]
                         \/ k[3] < l[3] /\ k[1] = l[1] /\ k[2] = l[2]
                         \/ k[4] < l[4] /\ k[1] = l[1] /\ k[2] = l[2] /\ k[3] = l[3]
                         \/ k[5] < l[5] /\ k[1] = l[1] /\ k[2] = l[2] /\ k[3] = l[3] /\ k[4] = l[4]
  BY <1>3, <1>4
<1>6. QED
  BY <1>1, <1>2, <1>5

\* The sort key orders atomic rules, and two it does not order have the same
\* source and protocol, and a port that one leaves out and the other has as -1.
LEMMA AtomsAreOrdered ==
  ASSUME NEW a, NEW b, NEW c, IsAtom(a), IsAtom(b), IsAtom(c)
  PROVE  /\ ~Precedes(a, a)
         /\ Precedes(a, b) => ~Precedes(b, a)
         /\ Precedes(a, b) /\ Precedes(b, c) => Precedes(a, c)
         /\ \/ Precedes(a, b) \/ Precedes(b, a) \/ a = b
            \/ /\ a.protocol = b.protocol /\ a.cidr = b.cidr
               /\ {Null, -1} \in {{a.from_port, b.from_port}, {a.to_port, b.to_port}}
<1>1. \A x : IsAtom(x) => /\ Rank[x.protocol] \in Int /\ Rank[x.family] \in Int /\ Rank[x.cidr] \in Int
                          /\ PortRank(x.from_port) \in Int /\ PortRank(x.to_port) \in Int
  BY RankAssumption DEF IsAtom, PortRank, Ports
<1>2. ASSUME Rank[a.protocol] = Rank[b.protocol], Rank[a.family] = Rank[b.family],
             Rank[a.cidr] = Rank[b.cidr], PortRank(a.from_port) = PortRank(b.from_port),
             PortRank(a.to_port) = PortRank(b.to_port)
      PROVE  \/ a = b
             \/ /\ a.protocol = b.protocol /\ a.cidr = b.cidr
                /\ {Null, -1} \in {{a.from_port, b.from_port}, {a.to_port, b.to_port}}
  <2>1. a.protocol = b.protocol /\ a.family = b.family /\ a.cidr = b.cidr
    BY <1>2, RankAssumption DEF IsAtom
  <2>2. a.from_port = b.from_port \/ {Null, -1} = {a.from_port, b.from_port}
    BY <1>2, NullAssumption DEF IsAtom, PortRank, Ports
  <2>3. a.to_port = b.to_port \/ {Null, -1} = {a.to_port, b.to_port}
    BY <1>2, NullAssumption DEF IsAtom, PortRank, Ports
  <2>4. a.from_port = b.from_port /\ a.to_port = b.to_port => a = b
    BY <2>1 DEF IsAtom
  <2>5. QED
    BY <2>1, <2>2, <2>3, <2>4
<1>3. ~Precedes(a, a)
  BY <1>1, PrecedesUnfolds
<1>4. \/ Precedes(a, b) \/ Precedes(b, a)
      \/ /\ Rank[a.protocol] = Rank[b.protocol] /\ Rank[a.family] = Rank[b.family]
         /\ Rank[a.cidr] = Rank[b.cidr] /\ PortRank(a.from_port) = PortRank(b.from_port)
         /\ PortRank(a.to_port) = PortRank(b.to_port)
  BY <1>1, PrecedesUnfolds
<1>5. Precedes(a, b) => ~Precedes(b, a)
  BY <1>1, PrecedesUnfolds
<1>6. Precedes(a, b) /\ Precedes(b, c) => Precedes(a, c)
  BY <1>1, PrecedesUnfolds
<1>7. QED
  BY <1>2, <1>3, <1>4, <1>5, <1>6

\* Two rules that differ only in that one has no port where the other has -1 are
\* not ordered by the key (core/drift.py:251-257), so that the exception of
\* OneRendering cannot be dropped and None does not come before every number.
THEOREM NoneTiesWithAllTypes ==
  ASSUME NEW a, NEW port \in {"from_port", "to_port"}, IsAtom(a), a[port] = -1
  PROVE  LET b == [a EXCEPT ![port] = Null]
         IN  IsAtom(b) /\ a # b /\ ~Precedes(a, b) /\ ~Precedes(b, a)
<1> DEFINE b == [a EXCEPT ![port] = Null]
<1>0. /\ a[port] # b[port]
      /\ a.protocol = b.protocol /\ a.family = b.family /\ a.cidr = b.cidr
      /\ \A p \in {"from_port", "to_port"} : b[p] \in {a[p], Null}
  BY NullAssumption DEF IsAtom
<1>1. IsAtom(b)
  <2>1. b = [protocol |-> b.protocol, from_port |-> b.from_port, to_port |-> b.to_port,
             family |-> b.family, cidr |-> b.cidr]
    <3>1. PICK p, f, t, m, c : a = [protocol |-> p, from_port |-> f, to_port |-> t,
                                    family |-> m, cidr |-> c]
      BY DEF IsAtom
    <3>2. CASE port = "from_port"
      <4>1. b = [protocol |-> p, from_port |-> Null, to_port |-> t, family |-> m, cidr |-> c]
        BY <3>1, <3>2
      <4> HIDE DEF b
      <4>2. QED
        BY <4>1
    <3>3. CASE port = "to_port"
      <4>1. b = [protocol |-> p, from_port |-> f, to_port |-> Null, family |-> m, cidr |-> c]
        BY <3>1, <3>3
      <4> HIDE DEF b
      <4>2. QED
        BY <4>1
    <3>4. QED
      BY <3>2, <3>3
  <2>2. b.from_port \in Ports /\ b.to_port \in Ports
    BY <1>0 DEF IsAtom, Ports
  <2> HIDE DEF b
  <2>3. QED
    BY <1>0, <2>1, <2>2 DEF IsAtom
<1>2. PortRank(a.from_port) = PortRank(b.from_port) /\ PortRank(a.to_port) = PortRank(b.to_port)
  BY NullAssumption DEF IsAtom, PortRank
<1>3. SortKey(a) = SortKey(b)
  BY <1>0, <1>2 DEF SortKey
<1>4. \A n \in 1 .. 5 : SortKey(a)[n] \in Int
  BY <1>1, RankAssumption DEF IsAtom, SortKey, PortRank, Ports
<1> HIDE DEF b
<1>5. QED
  BY <1>0, <1>1, <1>3, <1>4 DEF Precedes, b
-----------------------------------------------------------------------------
(***************************************************************************)
(* A finite set of atomic rules no two of which tie has exactly one sorted *)
(* sequence: the place of a rule in it is one more than the number of      *)
(* rules that precede it.                                                  *)
(***************************************************************************)

Atoms(atoms) == IsFiniteSet(atoms) /\ \A a \in atoms : IsAtom(a)

Untied(atoms) == \A a, b \in atoms : Precedes(a, b) \/ Precedes(b, a) \/ a = b

Before(atoms, a) == {b \in atoms : Precedes(b, a)}

Place(atoms, a) == Cardinality(Before(atoms, a)) + 1

Sorted(atoms) ==
  {t \in SetToSeqs(atoms) : \A m, n \in DOMAIN t : m < n => ~Precedes(t[n], t[m])}

LEMMA PlacesAreDistinct ==
  ASSUME NEW atoms, Atoms(atoms), Untied(atoms), NEW a \in atoms, NEW b \in atoms
  PROVE  /\ Place(atoms, a) \in 1 .. Cardinality(atoms)
         /\ Precedes(a, b) => Place(atoms, a) < Place(atoms, b)
         /\ Place(atoms, a) = Place(atoms, b) => a = b
<1>1. ASSUME NEW x \in atoms
      PROVE  /\ IsFiniteSet(Before(atoms, x)) /\ Cardinality(Before(atoms, x)) \in Nat
             /\ Cardinality(Before(atoms, x)) < Cardinality(atoms)
  <2>1. Before(atoms, x) \in SUBSET atoms /\ x \notin Before(atoms, x)
    BY <1>1, AtomsAreOrdered DEF Before, Atoms
  <2>2. IsFiniteSet(atoms)
    BY DEF Atoms
  <2>3. /\ IsFiniteSet(Before(atoms, x)) /\ Cardinality(Before(atoms, x)) <= Cardinality(atoms)
        /\ Cardinality(atoms) = Cardinality(Before(atoms, x)) => atoms = Before(atoms, x)
    BY <2>1, <2>2, FS_Subset
  <2>4. Cardinality(Before(atoms, x)) \in Nat /\ Cardinality(atoms) \in Nat
    BY <2>2, <2>3, FS_CardinalityType
  <2>5. QED
    BY <2>1, <2>3, <2>4
<1>2. ASSUME NEW x \in atoms, NEW y \in atoms, Precedes(x, y)
      PROVE  Place(atoms, x) < Place(atoms, y)
  <2>1. /\ Before(atoms, x) \in SUBSET Before(atoms, y)
        /\ x \in Before(atoms, y) /\ x \notin Before(atoms, x)
    <3>1. ASSUME NEW z \in atoms, Precedes(z, x) PROVE Precedes(z, y)
      BY <1>2, <3>1, AtomsAreOrdered DEF Atoms
    <3>2. ~Precedes(x, x)
      BY AtomsAreOrdered DEF Atoms
    <3>3. QED
      BY <1>2, <3>1, <3>2 DEF Before
  <2>2. /\ Cardinality(Before(atoms, x)) <= Cardinality(Before(atoms, y))
        /\ Cardinality(Before(atoms, y)) = Cardinality(Before(atoms, x))
              => Before(atoms, y) = Before(atoms, x)
    BY <1>1, <2>1, FS_Subset
  <2>3. QED
    BY <1>1, <2>1, <2>2 DEF Place
<1>3. Cardinality(atoms) \in Nat
  BY FS_CardinalityType DEF Atoms
<1>4. Place(atoms, a) \in 1 .. Cardinality(atoms)
  BY <1>1, <1>3 DEF Place
<1>5. Place(atoms, a) \in Int /\ Place(atoms, b) \in Int
  BY <1>1 DEF Place
<1>6. Precedes(a, b) \/ Precedes(b, a) \/ a = b
  BY DEF Untied
<1>7. QED
  BY <1>2, <1>4, <1>5, <1>6

LEMMA EveryPlaceIsTaken ==
  ASSUME NEW atoms, Atoms(atoms), Untied(atoms), NEW n \in 1 .. Cardinality(atoms)
  PROVE  \E a \in atoms : Place(atoms, a) = n
<1> DEFINE D == 1 .. Cardinality(atoms)
           places == [a \in atoms |-> Place(atoms, a)]
<1>1. IsFiniteSet(atoms) /\ Cardinality(atoms) \in Nat
  BY FS_CardinalityType DEF Atoms
<1>2. IsFiniteSet(D) /\ Cardinality(D) = Cardinality(atoms)
  BY <1>1, FS_Interval
<1>3. places \in [atoms -> D] /\ \A a, b \in atoms : places[a] = places[b] => a = b
  BY PlacesAreDistinct
<1> HIDE DEF places, D
<1>4. places \in Injection(atoms, D)
  BY <1>3 DEF Injection, IsInjective
<1>5. places \in Surjection(atoms, D)
  BY <1>2, <1>4, FS_Injection
<1>6. PICK a \in atoms : places[a] = n
  BY <1>5 DEF Surjection, D
<1>7. QED
  BY <1>6 DEF places

\* Every sequence of the rules of a finite set holds all of them.
LEMMA SequencesHoldAll ==
  ASSUME NEW atoms, Atoms(atoms), NEW t \in SetToSeqs(atoms)
  PROVE  /\ Cardinality(atoms) \in Nat
         /\ t \in [1 .. Cardinality(atoms) -> atoms]
         /\ \A m, n \in 1 .. Cardinality(atoms) : m # n => t[m] # t[n]
         /\ \A a \in atoms : \E n \in 1 .. Cardinality(atoms) : t[n] = a
<1> DEFINE D == 1 .. Cardinality(atoms)
<1>1. IsFiniteSet(atoms) /\ Cardinality(atoms) \in Nat
  BY FS_CardinalityType DEF Atoms
<1>2. IsFiniteSet(D) /\ Cardinality(D) = Cardinality(atoms)
  BY <1>1, FS_Interval
<1>3. t \in [D -> atoms] /\ \A m, n \in D : m # n => t[m] # t[n]
  BY DEF SetToSeqs
<1> HIDE DEF D
<1>4. t \in Injection(D, atoms)
  BY <1>3 DEF Injection, IsInjective
<1>5. t \in Surjection(D, atoms)
  BY <1>1, <1>2, <1>4, FS_Injection
<1>6. \A a \in atoms : \E n \in D : t[n] = a
  BY <1>5 DEF Surjection
<1>7. QED
  BY <1>1, <1>3, <1>6 DEF D

\* In a sorted sequence every rule is in its place.
LEMMA SortedIsInPlace ==
  ASSUME NEW atoms, Atoms(atoms), Untied(atoms), NEW t \in Sorted(atoms), NEW n \in 1 .. Cardinality(atoms)
  PROVE  Place(atoms, t[n]) = n
<1> DEFINE size == Cardinality(atoms)
<1>1. /\ size \in Nat /\ t \in [1 .. size -> atoms]
      /\ \A i, j \in 1 .. size : i # j => t[i] # t[j]
      /\ \A a \in atoms : \E i \in 1 .. size : t[i] = a
  BY SequencesHoldAll DEF Sorted
<1>2. \A i, j \in 1 .. size : i < j => ~Precedes(t[j], t[i])
  BY <1>1 DEF Sorted
<1>3. ASSUME NEW i \in 1 .. size, NEW j \in 1 .. size
      PROVE  Precedes(t[i], t[j]) <=> i < j
  <2>1. IsAtom(t[i]) /\ IsAtom(t[j])
    BY <1>1 DEF Atoms
  <2>2. /\ ~Precedes(t[i], t[i])
        /\ Precedes(t[i], t[j]) \/ Precedes(t[j], t[i]) \/ t[i] = t[j]
        /\ Precedes(t[i], t[j]) => ~Precedes(t[j], t[i])
    BY <1>1, <2>1, AtomsAreOrdered DEF Untied
  <2>3. QED
    BY <1>1, <1>2, <2>2
<1> HIDE DEF size
<1> DEFINE first == [i \in 1 .. n - 1 |-> t[i]]
           before == Before(atoms, t[n])
<1>4. n \in 1 .. size /\ n \in Nat /\ 1 .. n - 1 \subseteq 1 .. size
  BY <1>1 DEF size
<1>5. ASSUME NEW i \in 1 .. n - 1 PROVE first[i] \in before
  BY <1>1, <1>3, <1>4 DEF Before
<1>6. \A i, j \in 1 .. n - 1 : first[i] = first[j] => i = j
  BY <1>1, <1>4
<1>7. ASSUME NEW b \in before PROVE \E i \in 1 .. n - 1 : first[i] = b
  <2>1. PICK i \in 1 .. size : t[i] = b
    BY <1>1 DEF Before
  <2>2. Precedes(t[i], t[n])
    BY <2>1 DEF Before
  <2>3. i \in 1 .. n - 1
    BY <1>1, <1>3, <1>4, <2>1, <2>2
  <2>4. QED
    BY <2>1, <2>3
<1>8. first \in [1 .. n - 1 -> before]
  BY <1>5
<1> HIDE DEF first, before
<1>9. first \in Bijection(1 .. n - 1, before)
  BY <1>6, <1>7, <1>8 DEF Bijection, Injection, Surjection, IsInjective
<1>10. ExistsBijection(1 .. n - 1, before)
  BY <1>9 DEF ExistsBijection
<1>11. n - 1 \in Nat
  BY <1>4
<1>12. Cardinality(before) = n - 1
  BY <1>10, <1>11, FS_CountingElements
<1>13. QED
  BY <1>4, <1>12 DEF Place, before

\* The one sorted sequence.
LEMMA OneSortedSequence ==
  ASSUME NEW atoms, Atoms(atoms), Untied(atoms)
  PROVE  \E t : Sorted(atoms) = {t}
<1> DEFINE D == 1 .. Cardinality(atoms)
           t == [n \in D |-> CHOOSE a \in atoms : Place(atoms, a) = n]
<1>1. \A n \in D : t[n] \in atoms /\ Place(atoms, t[n]) = n
  BY EveryPlaceIsTaken
<1>2. DOMAIN t = D /\ t \in [D -> atoms]
  BY <1>1
<1> HIDE DEF t
<1>3. \A i, j \in D : i # j => t[i] # t[j]
  BY <1>1
<1>4. t \in SetToSeqs(atoms)
  BY <1>2, <1>3 DEF SetToSeqs
<1>5. ASSUME NEW m \in D, NEW n \in D, m < n PROVE ~Precedes(t[n], t[m])
  <2>1. Precedes(t[n], t[m]) => Place(atoms, t[n]) < Place(atoms, t[m])
    BY <1>1, PlacesAreDistinct
  <2>2. QED
    BY <1>1, <1>5, <2>1
<1>6. t \in Sorted(atoms)
  BY <1>2, <1>4, <1>5 DEF Sorted
<1>7. ASSUME NEW s \in Sorted(atoms) PROVE s = t
  <2>1. s \in [D -> atoms]
    BY SequencesHoldAll DEF Sorted
  <2>2. ASSUME NEW n \in D PROVE s[n] = t[n]
    <3>1. Place(atoms, s[n]) = n
      BY SortedIsInPlace
    <3>2. s[n] \in atoms /\ t[n] \in atoms /\ Place(atoms, t[n]) = n
      BY <1>1, <2>1
    <3>3. QED
      BY <3>1, <3>2, PlacesAreDistinct
  <2>3. s = [n \in D |-> s[n]] /\ t = [n \in D |-> t[n]]
    BY <1>2, <2>1
  <2>4. QED
    BY <2>2, <2>3
<1>8. QED
  BY <1>6, <1>7

\* A finite set of atomic rules no two of which tie is printed in one way.
LEMMA PrintedOneWay ==
  ASSUME NEW atoms, Atoms(atoms), Untied(atoms)
  PROVE  Cardinality(Renderings(atoms)) = 1
<1>1. PICK t : Sorted(atoms) = {t}
  BY OneSortedSequence
<1>2. Renderings(atoms) = {[n \in DOMAIN s |-> Printed(s[n])] : s \in Sorted(atoms)}
  BY DEF Renderings, Sorted
<1>3. Renderings(atoms) = {[n \in DOMAIN t |-> Printed(t[n])]}
  BY <1>1, <1>2
<1>4. QED
  BY <1>3, FS_Singleton

\* Printing shows all that tells rules apart: the source has only one family.
LEMMA PrintingTellsApart ==
  ASSUME NEW old, NEW new, Atoms(old), Atoms(new), old # new,
         NEW left \in Renderings(old), NEW right \in Renderings(new)
  PROVE  ToSet(left) # ToSet(right)
<1>1. ASSUME NEW atoms, Atoms(atoms), NEW shown \in Renderings(atoms)
      PROVE  ToSet(shown) = {Printed(a) : a \in atoms}
  <2>1. PICK t \in SetToSeqs(atoms) : shown = [n \in DOMAIN t |-> Printed(t[n])]
    BY DEF Renderings
  <2>2. /\ DOMAIN t = 1 .. Cardinality(atoms) /\ \A n \in DOMAIN t : t[n] \in atoms
        /\ \A a \in atoms : \E n \in DOMAIN t : t[n] = a
    BY <1>1, SequencesHoldAll
  <2>3. DOMAIN shown = DOMAIN t /\ \A n \in DOMAIN t : shown[n] = Printed(t[n])
    BY <2>1
  <2>4. QED
    BY <2>2, <2>3 DEF ToSet
<1>2. ASSUME NEW a, NEW b, IsAtom(a), IsAtom(b), Printed(a) = Printed(b) PROVE a = b
  <2>1. /\ a.protocol = b.protocol /\ a.from_port = b.from_port
        /\ a.to_port = b.to_port /\ a.cidr = b.cidr
    BY <1>2 DEF Printed
  <2>2. a.family = b.family
    BY <1>2, <2>1 DEF IsAtom
  <2>3. QED
    BY <1>2, <2>1, <2>2 DEF IsAtom
<1>3. ToSet(left) = {Printed(a) : a \in old} /\ ToSet(right) = {Printed(a) : a \in new}
  BY <1>1
<1>4. \A a \in old, b \in new : Printed(a) = Printed(b) => a = b
  BY <1>2 DEF Atoms
<1>5. QED
  BY <1>3, <1>4

-----------------------------------------------------------------------------
\* The rules that Terraform may write and AWS may answer for a direction.
RulesOf(d) == {StateRule(b) : b \in Blocks(Grants[d])} \cup {LiveRule(b) : b \in Blocks(Grants[d])}

AsWritten(grant) ==
  [protocol |-> grant.protocol, from |-> WrittenPort(grant.from),
   to |-> WrittenPort(grant.to), source |-> grant.source]

CidrAtoms(d) ==
  {AtomOf(g) : g \in ToCidrs(Grants[d])} \cup {AtomOf(AsWritten(g)) : g \in ToCidrs(Grants[d])}

LEMMA CidrAtomsAreAtoms ==
  ASSUME NEW d \in Directions
  PROVE  Atoms(CidrAtoms(d))
<1> DEFINE cidrs == ToCidrs(Grants[d])
<1>1. /\ \A g \in cidrs : g \in Grants[d] /\ g.source \in V4 \cup V6
      /\ cidrs \in SUBSET Grants[d] /\ IsFiniteSet(Grants[d])
  BY GrantsAre, FiniteAssumption DEF ToCidrs
<1>2. IsFiniteSet(cidrs)
  BY <1>1, FS_Subset
<1> HIDE DEF cidrs
<1>3. IsFiniteSet({AtomOf(g) : g \in cidrs}) /\ IsFiniteSet({AtomOf(AsWritten(g)) : g \in cidrs})
  <2> DEFINE atoms == [g \in cidrs |-> AtomOf(g)]
             stored == [g \in cidrs |-> AtomOf(AsWritten(g))]
  <2>1. atoms \in Surjection(cidrs, {AtomOf(g) : g \in cidrs})
    BY DEF Surjection
  <2>2. stored \in Surjection(cidrs, {AtomOf(AsWritten(g)) : g \in cidrs})
    BY DEF Surjection
  <2> HIDE DEF atoms, stored
  <2>3. QED
    BY <1>2, <2>1, <2>2, FS_Surjection
<1>4. IsFiniteSet(CidrAtoms(d))
  BY <1>3, FS_Union DEF CidrAtoms, cidrs
<1>5. ASSUME NEW g \in cidrs PROVE IsAtom(AtomOf(g)) /\ IsAtom(AtomOf(AsWritten(g)))
  <2>1. /\ g = [protocol |-> g.protocol, from |-> g.from, to |-> g.to, source |-> g.source]
        /\ g.source \in V4 \cup V6 /\ g \in Grants[d]
        /\ g.from \in Ports /\ g.to \in Ports
    BY <1>1, GrantsAssumption
  <2>2. g.protocol \in RankedStrings
    BY <2>1 DEF RankedStrings
  <2>3. {"ipv4", "ipv6", g.source} \subseteq RankedStrings
    BY <2>1 DEF RankedStrings
  <2>4. IsAtom(AtomOf(g))
    BY <2>1, <2>2, <2>3 DEF IsAtom, AtomOf
  <2>5. AsWritten(g) = [protocol |-> g.protocol, from |-> WrittenPort(g.from),
                        to |-> WrittenPort(g.to), source |-> g.source]
    BY DEF AsWritten
  <2>6. WrittenPort(g.from) \in Ports /\ WrittenPort(g.to) \in Ports
    BY <2>1 DEF WrittenPort, Ports
  <2>7. IsAtom(AtomOf(AsWritten(g)))
    BY <2>2, <2>3, <2>5, <2>6 DEF IsAtom, AtomOf
  <2>8. QED
    BY <2>4, <2>7
<1>6. QED
  BY <1>4, <1>5 DEF Atoms, CidrAtoms, cidrs

\* Every atomic rule comes of a grant to a CIDR block.
LEMMA RulesMakeAtoms ==
  ASSUME NEW d \in Directions, NEW rules \in SUBSET RulesOf(d)
  PROVE  Atoms(AtomicRules(rules))
<1>1. ASSUME NEW atom \in AtomicRules(rules) PROVE atom \in CidrAtoms(d)
  <2>1. PICK rule \in rules : \/ \E c \in rule.cidr_blocks : atom = Atom(rule, "ipv4", c)
                              \/ \E c \in rule.ipv6_cidr_blocks : atom = Atom(rule, "ipv6", c)
    BY <1>1 DEF AtomicRules
  <2>2. PICK b \in Blocks(Grants[d]) : rule = StateRule(b) \/ rule = LiveRule(b)
    BY <2>1 DEF RulesOf
  <2>3. /\ rule.cidr_blocks = {h.source : h \in b} \cap V4
        /\ rule.ipv6_cidr_blocks = {h.source : h \in b} \cap V6
    BY <2>2 DEF StateRule, LiveRule
  <2>4. PICK g \in b : \/ g.source \in V4 /\ atom = Atom(rule, "ipv4", g.source)
                       \/ g.source \in V6 /\ g.source \notin V4 /\ atom = Atom(rule, "ipv6", g.source)
    BY <2>1, <2>3, SourcesAssumption
  <2>5. /\ g \in Grants[d]
        /\ LiveRule(b).protocol = g.protocol
        /\ LiveRule(b).from_port = g.from /\ LiveRule(b).to_port = g.to
    BY BlocksAgree
  <2>6. /\ StateRule(b).protocol = g.protocol
        /\ StateRule(b).from_port = WrittenPort(g.from) /\ StateRule(b).to_port = WrittenPort(g.to)
    BY <2>5 DEF StateRule, LiveRule
  <2>7. g \in ToCidrs(Grants[d])
    BY <2>4, <2>5, SourcesAssumption DEF ToCidrs
  <2>8. AsWritten(g) = [protocol |-> g.protocol, from |-> WrittenPort(g.from),
                        to |-> WrittenPort(g.to), source |-> g.source]
    BY DEF AsWritten
  <2>9. atom = AtomOf(g) \/ atom = AtomOf(AsWritten(g))
    <3>1. CASE rule = LiveRule(b)
      BY <2>4, <2>5, <3>1 DEF Atom, AtomOf
    <3>2. CASE rule = StateRule(b)
      BY <2>4, <2>6, <2>8, <3>2 DEF Atom, AtomOf
    <3>3. QED
      BY <2>2, <3>1, <3>2
  <2>10. QED
    BY <2>7, <2>9 DEF CidrAtoms
<1>2. IsFiniteSet(CidrAtoms(d)) /\ \A a \in CidrAtoms(d) : IsAtom(a)
  BY CidrAtomsAreAtoms DEF Atoms
<1>3. AtomicRules(rules) \in SUBSET CidrAtoms(d)
  BY <1>1
<1>4. QED
  BY <1>2, <1>3, FS_Subset DEF Atoms

LEMMA BlocksGrow ==
  ASSUME NEW granted, NEW more, granted \subseteq more, NEW blocks \in Groupings(granted)
  PROVE  blocks \subseteq Blocks(more)
  BY DEF Groupings, Blocks

\* What is printed of a direction's rules are printed rules.
LEMMA RenderingsArePrinted ==
  ASSUME NEW d \in Directions, NEW rules \in SUBSET RulesOf(d),
         NEW shown \in Renderings(AtomicRules(rules))
  PROVE  shown \in Seq(PrintedRules)
<1> DEFINE atoms == AtomicRules(rules)
<1>1. Atoms(atoms)
  BY RulesMakeAtoms
<1>2. ASSUME NEW a \in atoms PROVE Printed(a) \in PrintedRules
  <2>1. PICK rule \in rules : a \in AtomicRules({rule})
    BY DEF AtomicRules
  <2>2. PICK b \in Blocks(Grants[d]) : rule = StateRule(b) \/ rule = LiveRule(b)
    BY DEF RulesOf
  <2>3. a \in AtomicRules({StateRule(b), LiveRule(b)})
    BY <2>1, <2>2 DEF AtomicRules
  <2>4. b \in UNION {Blocks(Grants[e]) : e \in Directions}
    BY <2>2
  <2>5. QED
    BY <2>3, <2>4 DEF PrintedRules
<1> HIDE DEF atoms
<1>3. PICK t \in SetToSeqs(atoms) : shown = [n \in DOMAIN t |-> Printed(t[n])]
  BY DEF Renderings, atoms
<1>4. Cardinality(atoms) \in Nat /\ t \in [1 .. Cardinality(atoms) -> atoms]
  BY <1>1, SequencesHoldAll
<1>5. shown \in [1 .. Cardinality(atoms) -> PrintedRules]
  BY <1>2, <1>3, <1>4
<1>6. QED
  BY <1>4, <1>5

\* What one direction's comparison files is a drift, or none, and shows what
\* differs or, of a marked attribute, nothing.
ShowsWhatDiffers(d, filed) ==
  \A n \in DOMAIN filed :
     IF d \in marked THEN filed[n] = [state |-> Hidden, live |-> Hidden]
     ELSE ToSet(filed[n].state) # ToSet(filed[n].live)

LEMMA FiledIsDrift ==
  ASSUME NEW d \in Directions, state[d] \in SUBSET RulesOf(d), NEW live \in SUBSET RulesOf(d),
         NEW filed \in Compare(d, live)
  PROVE  filed \in Seq(Drifts) /\ ShowsWhatDiffers(d, filed)
<1> DEFINE old == AtomicRules(state[d])
           new == AtomicRules(live)
<1>1. CASE old = new
  <2>1. filed = <<>>
    BY <1>1 DEF Compare
  <2>2. QED
    BY <2>1 DEF ShowsWhatDiffers
<1>2. CASE old # new /\ d \in marked
  <2>1. PICK drift \in [state : {Hidden}, live : {Hidden}] : filed = <<drift>>
    BY <1>2 DEF Compare
  <2>2. drift = [state |-> Hidden, live |-> Hidden] /\ drift \in Drifts
    BY <2>1 DEF Drifts
  <2>3. QED
    BY <1>2, <2>1, <2>2 DEF ShowsWhatDiffers
<1>3. CASE old # new /\ d \notin marked
  <2>1. PICK drift \in [state : Renderings(old), live : Renderings(new)] : filed = <<drift>>
    BY <1>3 DEF Compare
  <2>2. drift.state \in Renderings(old) /\ drift.live \in Renderings(new)
        /\ drift = [state |-> drift.state, live |-> drift.live]
    BY <2>1
  <2>3. drift.state \in Seq(PrintedRules) /\ drift.live \in Seq(PrintedRules)
    BY <2>2, RenderingsArePrinted
  <2>4. drift \in Drifts
    BY <2>2, <2>3 DEF Drifts
  <2>5. Atoms(old) /\ Atoms(new)
    BY RulesMakeAtoms
  <2>6. ToSet(drift.state) # ToSet(drift.live)
    BY <1>3, <2>2, <2>5, PrintingTellsApart
  <2>7. QED
    BY <1>3, <2>1, <2>4, <2>6 DEF ShowsWhatDiffers
<1>4. QED
  BY <1>1, <1>2, <1>3

ReportInv == TypeOK /\ ReportShowsWhatDiffers /\ DOMAIN grants = Directions

LEMMA ReportInit == Init => ReportInv
<1> SUFFICES ASSUME Init PROVE ReportInv
  OBVIOUS
<1>1. \A d \in Directions : written[d] \subseteq Grants[d] /\ grants = written
  BY DEF Init
<1>2. PICK in \in Groupings(written["ingress"]), out \in Groupings(written["egress"]) :
         state = [ingress |-> {StateRule(b) : b \in in}, egress |-> {StateRule(b) : b \in out}]
  BY DEF Init
<1>3. in \subseteq Blocks(Grants["ingress"]) /\ out \subseteq Blocks(Grants["egress"])
  BY <1>1, BlocksGrow DEF Directions
<1>4. \A d \in Directions : state[d] \subseteq {StateRule(b) : b \in Blocks(Grants[d])}
  BY <1>2, <1>3 DEF Directions
<1>5. QED
  BY <1>1, <1>4 DEF Init, ReportInv, TypeOK, ReportShowsWhatDiffers

LEMMA ReportStep == ReportInv /\ [Next]_vars => ReportInv'
<1> SUFFICES ASSUME ReportInv, [Next]_vars PROVE ReportInv'
  OBVIOUS
<1> USE DEF ReportInv, TypeOK
<1>1. ASSUME NEW d \in Directions, NEW g \in Grants[d], Authorize(d, g) PROVE ReportInv'
  <2>1. \A e \in Directions : grants'[e] \subseteq Grants[e]
    BY <1>1 DEF Authorize
  <2>2. QED
    BY <1>1, <2>1 DEF Authorize, ReportShowsWhatDiffers
<1>2. ASSUME NEW d \in Directions, NEW g \in Grants[d], Revoke(d, g) PROVE ReportInv'
  <2>1. \A e \in Directions : grants'[e] \subseteq Grants[e]
    BY <1>2 DEF Revoke
  <2>2. QED
    BY <1>2, <2>1 DEF Revoke, ReportShowsWhatDiffers
<1>3. CASE CompareSecurityGroup
  <2>1. PICK in \in Groupings(grants["ingress"]), out \in Groupings(grants["egress"]) :
           \E ingress \in Compare("ingress", {LiveRule(b) : b \in in}),
              egress \in Compare("egress", {LiveRule(b) : b \in out}) :
                 report' = [ingress |-> ingress, egress |-> egress]
    BY <1>3 DEF CompareSecurityGroup
  <2>2. PICK ingress \in Compare("ingress", {LiveRule(b) : b \in in}),
             egress \in Compare("egress", {LiveRule(b) : b \in out}) :
                report' = [ingress |-> ingress, egress |-> egress]
    BY <2>1
  <2>3. "ingress" \in Directions /\ "egress" \in Directions
    BY DEF Directions
  <2>4. in \subseteq Blocks(Grants["ingress"]) /\ out \subseteq Blocks(Grants["egress"])
    BY <2>3, BlocksGrow
  <2>5. \A d \in Directions : state[d] \in SUBSET RulesOf(d)
    BY DEF RulesOf
  <2>6. ingress \in Seq(Drifts) /\ ShowsWhatDiffers("ingress", ingress)
    <3>1. {LiveRule(b) : b \in in} \in SUBSET RulesOf("ingress")
      BY <2>4 DEF RulesOf
    <3>2. QED
      BY <2>2, <2>3, <2>5, <3>1, FiledIsDrift
  <2>7. egress \in Seq(Drifts) /\ ShowsWhatDiffers("egress", egress)
    <3>1. {LiveRule(b) : b \in out} \in SUBSET RulesOf("egress")
      BY <2>4 DEF RulesOf
    <3>2. QED
      BY <2>2, <2>3, <2>5, <3>1, FiledIsDrift
  <2>8. UNCHANGED <<written, state, marked, grants>>
    BY <1>3 DEF CompareSecurityGroup
  <2>9. TypeOK'
    BY <2>2, <2>6, <2>7, <2>8 DEF Directions
  <2>10. ReportShowsWhatDiffers'
    BY <2>2, <2>6, <2>7, <2>8 DEF ReportShowsWhatDiffers, ShowsWhatDiffers, Directions
  <2>11. QED
    BY <2>8, <2>9, <2>10
<1>4. CASE UNCHANGED vars
  BY <1>4 DEF vars, ReportShowsWhatDiffers
<1>5. QED
  BY <1>1, <1>2, <1>3, <1>4 DEF Next

LEMMA ReportHolds == Spec => []ReportInv
  BY ReportInit, ReportStep, PTL DEF Spec

\* The state and the answers keep their types: the state holds rules of grants
\* that were there, and a report is a list of drifts of printed rules.
THEOREM TypeCorrect == Spec => []TypeOK
<1>1. ReportInv => TypeOK
  BY DEF ReportInv
<1>2. QED
  BY <1>1, ReportHolds, PTL

\* Terraform writes a number for every port, so no two rules it writes tie.
LEMMA StateIsUntied ==
  ASSUME NEW d \in Directions, NEW rules \in SUBSET {StateRule(b) : b \in Blocks(Grants[d])}
  PROVE  Untied(AtomicRules(rules))
<1> DEFINE atoms == AtomicRules(rules)
<1>1. Atoms(atoms)
  BY RulesMakeAtoms DEF RulesOf
<1>2. ASSUME NEW a \in atoms PROVE a.from_port # Null /\ a.to_port # Null
  <2>1. PICK rule \in rules : \E c : a = Atom(rule, "ipv4", c) \/ a = Atom(rule, "ipv6", c)
    BY <1>2 DEF AtomicRules
  <2>2. a.from_port = rule.from_port /\ a.to_port = rule.to_port
    BY <2>1 DEF Atom
  <2>3. PICK b \in Blocks(Grants[d]) : rule = StateRule(b)
    BY <2>1
  <2>4. \E g : rule.from_port = WrittenPort(g.from) /\ rule.to_port = WrittenPort(g.to)
    BY <2>3 DEF StateRule
  <2>5. QED
    BY <2>2, <2>4, NullAssumption DEF WrittenPort
<1> HIDE DEF atoms
<1>3. ASSUME NEW a \in atoms, NEW b \in atoms PROVE Precedes(a, b) \/ Precedes(b, a) \/ a = b
  <2>1. {Null, -1} # {a.from_port, b.from_port} /\ {Null, -1} # {a.to_port, b.to_port}
    BY <1>2
  <2>2. QED
    BY <1>1, <2>1, AtomsAreOrdered DEF Atoms
<1>4. QED
  BY <1>3 DEF Untied, atoms

\* The atomic rules of grants that do not mix None and -1 do not tie.
LEMMA GrantsAreUntied ==
  ASSUME NEW d \in Directions, NEW granted \in SUBSET Grants[d], ~MixesNoneAndAll(granted)
  PROVE  Atoms(AtomsOf(granted)) /\ Untied(AtomsOf(granted))
<1>1. Atoms(AtomsOf(granted))
  <2>1. AtomsOf(granted) \in SUBSET CidrAtoms(d)
    BY DEF AtomsOf, ToCidrs, CidrAtoms
  <2>2. QED
    BY <2>1, CidrAtomsAreAtoms, FS_Subset DEF Atoms
<1>2. ASSUME NEW a \in AtomsOf(granted), NEW b \in AtomsOf(granted)
      PROVE  Precedes(a, b) \/ Precedes(b, a) \/ a = b
  <2>1. PICK g \in granted, h \in granted : a = AtomOf(g) /\ b = AtomOf(h)
    BY DEF AtomsOf, ToCidrs
  <2>2. /\ a.protocol = g.protocol /\ a.from_port = g.from /\ a.to_port = g.to /\ a.cidr = g.source
        /\ b.protocol = h.protocol /\ b.from_port = h.from /\ b.to_port = h.to /\ b.cidr = h.source
    BY <2>1 DEF AtomOf
  <2>3. SUFFICES ASSUME ~(Precedes(a, b) \/ Precedes(b, a) \/ a = b) PROVE FALSE
    OBVIOUS
  <2>4. /\ g.protocol = h.protocol /\ g.source = h.source
        /\ {Null, -1} = {g.from, h.from} \/ {Null, -1} = {g.to, h.to}
    BY <1>1, <2>2, <2>3, AtomsAreOrdered DEF Atoms
  <2>5. \/ <<g.from, h.from>> = <<Null, -1>> \/ <<h.from, g.from>> = <<Null, -1>>
        \/ <<g.to, h.to>> = <<Null, -1>> \/ <<h.to, g.to>> = <<Null, -1>>
    BY <2>4
  <2>6. QED
    BY <2>4, <2>5 DEF MixesNoneAndAll
<1>3. QED
  BY <1>1, <1>2 DEF Untied

\* However AWS groups its answer, the lists printed of it are those of the
\* grants themselves; and it can be grouped, one grant to a rule at the least.
LEMMA LiveListsAre ==
  ASSUME NEW d \in Directions, grants[d] \in SUBSET Grants[d]
  PROVE  LiveLists(d) = Renderings(AtomsOf(grants[d]))
<1> DEFINE single == {{g} : g \in grants[d]}
<1>1. single \in Groupings(grants[d])
  BY DEF Groupings, Blocks
<1>2. \A blocks \in Groupings(grants[d]) :
        AtomicRules({LiveRule(b) : b \in blocks}) = AtomsOf(grants[d])
  BY GroupingIsIgnored
<1> HIDE DEF single
<1>3. QED
  BY <1>1, <1>2 DEF LiveLists

\* Whatever a group grants and however that is written and answered, its
\* state is printed in one way, and so is the answer, unless it has both a
\* port left out and one of -1 for one protocol and source (BUG-4).
THEOREM PrintedAlwaysOneWay == Spec => []OneRendering
<1>1. ReportInv => OneRendering
  <2> SUFFICES ASSUME ReportInv, NEW d \in Directions
               PROVE  /\ Cardinality(Renderings(AtomicRules(state[d]))) = 1
                      /\ ~MixesNoneAndAll(grants[d]) => Cardinality(LiveLists(d)) = 1
    BY DEF OneRendering
  <2>1. Cardinality(Renderings(AtomicRules(state[d]))) = 1
    <3>1. state[d] \in SUBSET {StateRule(b) : b \in Blocks(Grants[d])}
      BY DEF ReportInv, TypeOK
    <3>2. QED
      BY <3>1, RulesMakeAtoms, StateIsUntied, PrintedOneWay DEF RulesOf
  <2>2. ASSUME ~MixesNoneAndAll(grants[d]) PROVE Cardinality(LiveLists(d)) = 1
    <3>1. grants[d] \in SUBSET Grants[d]
      BY DEF ReportInv, TypeOK
    <3>2. Cardinality(Renderings(AtomsOf(grants[d]))) = 1
      BY <2>2, <3>1, GrantsAreUntied, PrintedOneWay
    <3>3. QED
      BY <3>1, <3>2, LiveListsAre
  <2>3. QED
    BY <2>1, <2>2
<1>2. QED
  BY <1>1, ReportHolds, PTL

\* Whatever was granted, written and changed, known ports or not, a reported
\* direction shows two lists that differ, or the placeholder twice.
THEOREM ReportAlwaysShowsWhatDiffers == Spec => []ReportShowsWhatDiffers
<1>1. ReportInv => ReportShowsWhatDiffers
  BY DEF ReportInv
<1>2. QED
  BY <1>1, ReportHolds, PTL
=============================================================================
