----------------------------- MODULE StateWalk -----------------------------
(***************************************************************************)
(* iter_state_resources of core/state.py: the modules of a state are taken *)
(* from a stack, their resources collected and their child modules pushed, *)
(* and of what was collected the managed resources are returned.           *)
(***************************************************************************)
EXTENDS Integers, Sequences, SequencesExt

CONSTANTS
    Nil,        \* no state yet, no module, no result
    Modules,    \* module objects of the states considered
    Trees       \* the states considered

VARIABLES
    tree,       \* the state walked
    stack,
    visited,    \* history: the modules popped
    collected,
    resources   \* what is returned

walkVars == <<tree, stack, visited, collected, resources>>

-----------------------------------------------------------------------------
\* A state: root is Nil when it holds no values or no root module; a resource
\* is named by its module and its position there, and modes tells its mode.
TreeRecords ==
    [root : Modules \cup {Nil},
     children : [Modules -> Seq(Modules)],
     modes : [Modules -> Seq({"managed", "data"})]]

\* What a document nests is nested in one place.
IsTree(t) ==
    /\ \A p, q \in Modules :
        \A i \in DOMAIN t.children[p], j \in DOMAIN t.children[q] :
            t.children[p][i] = t.children[q][j] => p = q /\ i = j
    /\ \A p \in Modules : t.root \notin Range(t.children[p])

ASSUME TreesAssumption == \A t \in Trees : t \in TreeRecords /\ IsTree(t)
ASSUME NilAssumption == Nil \notin Modules /\ Nil \notin Trees

WalkInit ==
    /\ tree = Nil
    /\ stack = <<>>
    /\ visited = {}
    /\ collected = <<>>
    /\ resources = Nil

\* iter_state_resources is called.
Call(t) ==
    /\ tree = Nil
    /\ tree' = t
    /\ stack' = IF t.root = Nil THEN <<>> ELSE <<t.root>>
    /\ UNCHANGED <<visited, collected, resources>>

ResourcesOf(module) == [i \in DOMAIN tree.modes[module] |-> <<module, i>>]

\* Mutants: the oldest module is taken; only the last child is pushed.
Popped_Oldest(module) == module = Head(stack) /\ stack' = Tail(stack) \o tree.children[module]
Popped_LastChildOnly(module) ==
    LET children == tree.children[module]
    IN  /\ module = Last(stack)
        /\ stack' = Front(stack) \o (IF children = <<>> THEN <<>> ELSE <<Last(children)>>)

\* The last module is popped and its children are pushed.
Popped(module) == module = Last(stack) /\ stack' = Front(stack) \o tree.children[module]

Visit ==
    /\ stack # <<>>
    /\ \E module \in Modules :
           /\ Popped(module)
           /\ visited' = visited \cup {module}
           /\ collected' = collected \o ResourcesOf(module)
    /\ UNCHANGED <<tree, resources>>

\* Mutant: data sources are returned too.
IsManaged_Any(resource) == tree.modes[resource[1]][resource[2]] \in {"managed", "data"}

IsManaged(resource) == tree.modes[resource[1]][resource[2]] = "managed"

WithManaged(kept, resource) == IF IsManaged(resource) THEN Append(kept, resource) ELSE kept

Return ==
    /\ tree # Nil
    /\ stack = <<>>
    /\ resources = Nil
    /\ resources' = FoldLeft(WithManaged, <<>>, collected)
    /\ UNCHANGED <<tree, stack, visited, collected>>

WalkStep == Visit \/ Return

WalkNext == (\E t \in Trees : Call(t)) \/ WalkStep

WalkSpec == WalkInit /\ [][WalkNext]_walkVars

-----------------------------------------------------------------------------
\* Closed sets of modules hold the root and with each module its children; the
\* modules of the state are those no closed set can do without.
Closed(t, set) ==
    /\ t.root # Nil => t.root \in set
    /\ \A m \in set : Range(t.children[m]) \subseteq set

ModulesOf(t) == {m \in Modules : \A set \in SUBSET Modules : Closed(t, set) => m \in set}

AllResources(t) == UNION {{<<m, i>> : i \in DOMAIN t.modes[m]} : m \in ModulesOf(t)}

Walked == tree # Nil /\ stack = <<>>

\* When the stack is empty, each resource of each module, however deep, has been
\* collected exactly once and nothing else has (R9).
EveryResourceOnce ==
    Walked => Range(collected) = AllResources(tree) /\ IsInjective(collected)

-----------------------------------------------------------------------------
ManagedOf(t) == {r \in AllResources(t) : t.modes[r[1]][r[2]] = "managed"}

\* The modules nested in m, at any depth, and m.
PartOf(t, m) ==
    {n \in Modules :
        \A set \in SUBSET Modules :
            m \in set /\ (\A p \in set : Range(t.children[p]) \subseteq set) => n \in set}

\* Depth first, m comes before n: n is nested in m, or both are nested in one
\* module and m in the later of two of its children.  Siblings thus come in the
\* reverse of the document's order, the last of child_modules first, each with
\* all that is nested in it.
TakenBefore(t, m, n) ==
    \/ \E i \in DOMAIN t.children[m] : n \in PartOf(t, t.children[m][i])
    \/ \E p \in Modules : \E i, j \in DOMAIN t.children[p] :
          j < i /\ m \in PartOf(t, t.children[p][i]) /\ n \in PartOf(t, t.children[p][j])

ComesBefore(t, r, s) ==
    \/ r[1] = s[1] /\ r[2] < s[2]
    \/ TakenBefore(t, r[1], s[1])

\* A sequence of resources in which each comes before those after it: those of
\* one module in the order of the document.
InOrder(t, list) ==
    \A i, j \in DOMAIN list : i < j => ComesBefore(t, list[i], list[j])

\* What is returned are the managed resources depth first: no module's are
\* parted by those of a module that is not nested in it, however many were on
\* the stack meanwhile.  It is not the order of the document, siblings being
\* reversed, but it is one that the document alone decides: drifts are filed in
\* it, and two runs over one state must print the same bytes (AC11).
WalkIsDepthFirst ==
    resources # Nil => Range(resources) = ManagedOf(tree) /\ InOrder(tree, resources)
=============================================================================
