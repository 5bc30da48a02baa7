-------------------------- MODULE IngestionProofs --------------------------
(***************************************************************************)
(* Proofs about InputFile, StateWalk and Ingestion, which composes them:   *)
(* for every set of things that may be at the path, any number of changes  *)
(* of them, and every set of modules and states.                           *)
(***************************************************************************)
EXTENDS Ingestion, FiniteSums

(***************************************************************************)
(* The loader (InputFile).                                                 *)
(***************************************************************************)
Looking == {"stat", "is_dir", "read"}

\* What the loader holds is something that was at the path.
HeldWasSeen ==
    /\ file \in seen
    /\ raw # Null => raw.node = "file" /\ (raw \in seen \/ rewritten)
    /\ at \in {"reading", "parse", "validate"} => raw # Null
    /\ at \in Looking => raw = Null
    /\ at = "validate" => raw.text.form = "object"

\* The size held against the cap was that of something at the path.
SizeWasSeen ==
    /\ kind # "snapshot" /\ at \notin {"stat", "end"} =>
          \E earlier \in seen : earlier.node \notin {"absent", "denied"} /\ earlier.size = size
    /\ kind # "snapshot" /\ at \in {"read", "reading", "parse", "validate"} => size <= Cap
    /\ at \in {"stat", "is_dir"} => kind # "snapshot"

EndsOnce == outcome = "running" <=> at # "end"

Bad(thing) == thing.node # "file" \/ thing.size > Cap \/ ~Described(thing.text)

LoadInv ==
    /\ LoadTypeOK /\ HeldWasSeen /\ SizeWasSeen /\ EndsOnce
    /\ outcome = "accepted" => raw # Null /\ loaded = raw.text /\ Described(loaded)
    /\ outcome \in {"refused", "crashed"} => rewritten \/ \E thing \in seen : Bad(thing)
    /\ CapIsEnforced

-----------------------------------------------------------------------------
LEMMA ThingsAre ==
  ASSUME NEW thing \in Things
  PROVE  /\ thing.node \in Nodes /\ thing.size \in Nat
         /\ thing.node = "file" => IsText(thing.text)
         /\ thing # Null
  BY ThingsAssumption, BoundsAssumption

LEMMA InitLoads == LoadInit => LoadInv
<1> SUFFICES ASSUME LoadInit PROVE LoadInv
  OBVIOUS
<1>1. LoadTypeOK
  <2>1. rewritten \in BOOLEAN
    BY DEF LoadInit
  <2>2. QED
    BY <2>1, BoundsAssumption DEF LoadInit, LoadTypeOK, Places
<1>2. HeldWasSeen /\ SizeWasSeen /\ EndsOnce
  BY ThingsAre DEF LoadInit, HeldWasSeen, SizeWasSeen, EndsOnce, Looking
<1>3. QED
  BY <1>1, <1>2 DEF LoadInit, LoadInv, CapIsEnforced

\* A loader that ends without a document, having met something bad or read what
\* was written into.
LEMMA GivingUp ==
  ASSUME LoadInv, Refused \/ Escapes, rewritten \/ \E thing \in seen : Bad(thing), at # "end",
         UNCHANGED <<kind, file, edits, seen, rewritten, raw>>, size' \in Nat
  PROVE  LoadInv'
<1> USE DEF LoadInv, Refused, Escapes, End
<1>1. LoadTypeOK' /\ EndsOnce' /\ HeldWasSeen' /\ SizeWasSeen'
  BY DEF LoadTypeOK, EndsOnce, HeldWasSeen, SizeWasSeen, Places, Looking
<1>2. (rewritten \/ \E t \in seen : Bad(t))' /\ outcome' # "accepted"
  BY DEF Bad, Described
<1>3. CapIsEnforced'
  BY DEF CapIsEnforced
<1>4. QED
  BY <1>1, <1>2, <1>3

LEMMA StepLoads == LoadInv /\ [LoadNext]_loadVars => LoadInv'
<1> SUFFICES ASSUME LoadInv, [LoadNext]_loadVars PROVE LoadInv'
  OBVIOUS
<1>1. /\ file \in Things /\ file \in seen /\ seen \subseteq Things /\ file # Null
      /\ file.node \in Nodes /\ file.size \in Nat /\ size \in Nat
  BY ThingsAre DEF LoadInv, LoadTypeOK, HeldWasSeen
<1>2. CASE Stat
  <2>1. CASE file.node \in {"absent", "denied"}
    BY <1>1, <1>2, <2>1, GivingUp DEF Stat, Bad
  <2>2. CASE file.node \notin {"absent", "denied"}
    <3>1. /\ at = "stat" /\ at' = "is_dir" /\ size' = file.size
          /\ UNCHANGED <<kind, file, edits, seen, rewritten, raw, loaded, outcome>>
      BY <1>2, <2>2 DEF Stat, Goto
    <3>2. LoadTypeOK' /\ HeldWasSeen' /\ EndsOnce'
      BY <1>1, <3>1 DEF LoadInv, LoadTypeOK, HeldWasSeen, EndsOnce, Places, Looking
    <3>3. SizeWasSeen'
      BY <1>1, <2>2, <3>1 DEF LoadInv, SizeWasSeen
    <3>4. outcome' = "running" /\ CapIsEnforced'
      BY <3>1 DEF LoadInv, EndsOnce, CapIsEnforced
    <3>5. QED
      BY <3>2, <3>3, <3>4 DEF LoadInv
  <2>3. QED
    BY <2>1, <2>2
<1>3. CASE IsDir
  <2>1. kind # "snapshot" /\ at = "is_dir"
    BY <1>3 DEF IsDir, LoadInv, SizeWasSeen
  <2>2. PICK earlier \in seen :
           earlier.node \notin {"absent", "denied"} /\ earlier.size = size
    BY <2>1 DEF LoadInv, SizeWasSeen
  <2>3. CASE file.node = "directory" \/ size > Cap
    <3>1. Bad(file) \/ Bad(earlier)
      BY <2>2, <2>3 DEF Bad
    <3>2. (Refused \/ Escapes) /\ UNCHANGED <<kind, file, edits, seen, rewritten, size, raw>>
      BY <1>3, <2>3 DEF IsDir
    <3>3. QED
      BY <1>1, <2>1, <2>2, <3>1, <3>2, GivingUp
  <2>4. CASE ~(file.node = "directory" \/ size > Cap)
    <3>1. /\ at' = "read" /\ size <= Cap
          /\ UNCHANGED <<kind, file, edits, seen, rewritten, size, raw, loaded, outcome>>
      BY <1>1, <1>3, <2>4, BoundsAssumption DEF IsDir, Goto
    <3>2. LoadTypeOK' /\ HeldWasSeen' /\ EndsOnce'
      BY <2>1, <3>1 DEF LoadInv, LoadTypeOK, HeldWasSeen, EndsOnce, Places, Looking
    <3>3. SizeWasSeen'
      BY <2>1, <2>2, <3>1 DEF SizeWasSeen
    <3>4. outcome' = "running" /\ CapIsEnforced'
      BY <2>1, <3>1 DEF LoadInv, EndsOnce, CapIsEnforced
    <3>5. QED
      BY <3>2, <3>3, <3>4 DEF LoadInv
  <2>5. QED
    BY <2>3, <2>4
<1>4. CASE IsDirRaises
  BY <1>1, <1>4, GivingUp DEF IsDirRaises, Bad
<1>5. CASE Open
  <2>1. CASE file.node # "file"
    BY <1>1, <1>5, <2>1, GivingUp DEF Open, Bad
  <2>2. CASE file.node = "file"
    <3>1. /\ at = "read" /\ at' = "reading" /\ raw' = file
          /\ UNCHANGED <<kind, file, edits, seen, rewritten, size, loaded, outcome>>
      BY <1>5, <2>2 DEF Open, Goto
    <3>2. LoadTypeOK' /\ HeldWasSeen' /\ EndsOnce'
      BY <1>1, <2>2, <3>1 DEF LoadInv, LoadTypeOK, HeldWasSeen, EndsOnce, Places, Looking
    <3>3. SizeWasSeen'
      BY <3>1 DEF LoadInv, SizeWasSeen
    <3>4. outcome' = "running"
      BY <3>1 DEF LoadInv, EndsOnce
    <3>5. CapIsEnforced'
      BY <3>1 DEF LoadInv, SizeWasSeen, CapIsEnforced
    <3>6. QED
      BY <3>2, <3>3, <3>4, <3>5 DEF LoadInv
  <2>3. QED
    BY <2>1, <2>2
<1>6. ASSUME at \in {"parse", "validate"}
      PROVE  /\ raw \in Things /\ raw # Null /\ (raw \in seen \/ rewritten)
             /\ raw.node = "file" /\ IsText(raw.text) /\ at # "end"
  BY <1>1, <1>6, ThingsAre DEF LoadInv, LoadTypeOK, HeldWasSeen
<1>7. ASSUME at \in {"parse", "validate"}, Accepted, Described(raw.text),
             UNCHANGED <<kind, file, edits, seen, rewritten, size, raw>>
      PROVE  LoadInv'
  <2>1. /\ at' = "end" /\ outcome' = "accepted" /\ loaded' = raw.text /\ Described(loaded)'
    BY <1>7 DEF Accepted, Described
  <2>2. LoadTypeOK' /\ HeldWasSeen' /\ SizeWasSeen' /\ EndsOnce'
    BY <1>7, <2>1
    DEF LoadInv, LoadTypeOK, HeldWasSeen, SizeWasSeen, EndsOnce, Places, Looking
  <2>3. CapIsEnforced'
    BY <1>7 DEF LoadInv, CapIsEnforced
  <2>4. QED
    BY <1>6, <1>7, <2>1, <2>2, <2>3 DEF LoadInv
<1>8. CASE Parse
  <2>1. at = "parse" /\ UNCHANGED <<kind, file, edits, seen, rewritten, size, raw>>
    BY <1>8 DEF Parse
  <2>2. CASE Accepted /\ raw.text.form = "nothing" /\ kind = "policy"
    BY <1>7, <2>1, <2>2 DEF Described
  <2>3. CASE Goto("parse", "validate") /\ raw.text.form = "object"
    <3>1. at' = "validate" /\ UNCHANGED <<loaded, outcome>>
      BY <2>3 DEF Goto
    <3>2. LoadTypeOK' /\ HeldWasSeen' /\ SizeWasSeen' /\ EndsOnce'
      BY <2>1, <2>3, <3>1
      DEF LoadInv, LoadTypeOK, HeldWasSeen, SizeWasSeen, EndsOnce, Places, Looking
    <3>3. outcome' = "running" /\ CapIsEnforced'
      BY <2>1, <3>1 DEF LoadInv, EndsOnce, CapIsEnforced
    <3>4. QED
      BY <3>2, <3>3 DEF LoadInv
  <2>4. CASE (Refused \/ Escapes) /\ ~Described(raw.text)
    BY <1>1, <1>6, <2>1, <2>4, GivingUp DEF Bad
  <2>5. \/ Accepted /\ raw.text.form = "nothing" /\ kind = "policy"
        \/ Goto("parse", "validate") /\ raw.text.form = "object"
        \/ (Refused \/ Escapes) /\ ~Described(raw.text)
    BY <1>8 DEF Parse, Unlisted, Described
  <2>6. QED
    BY <2>2, <2>3, <2>4, <2>5
<1>9. CASE Validate
  <2>1. /\ at = "validate" /\ raw.text.form = "object"
        /\ UNCHANGED <<kind, file, edits, seen, rewritten, size, raw>>
    BY <1>9 DEF Validate, LoadInv, HeldWasSeen
  <2>2. Described(raw.text) <=>
          RequiredKeys \subseteq raw.text.keys /\ raw.text.fits /\ VersionIsSupported
    <3>1. raw.text.version \in {"1", "1.2", "10.0", "2"} /\ raw.text.fits \in BOOLEAN
      BY <1>6, <2>1 DEF IsText
    <3>2. kind \in {"plan", "state", "policy", "snapshot"}
      BY BoundsAssumption DEF LoadInv, LoadTypeOK
    <3>3. QED
      BY <2>1, <3>1, <3>2 DEF Described, RequiredKeys, VersionIsSupported
  <2>3. CASE Described(raw.text)
    <3>1. Accepted
      BY <1>9, <2>2, <2>3 DEF Validate
    <3>2. QED
      BY <1>7, <2>1, <2>3, <3>1
  <2>4. CASE ~Described(raw.text)
    <3>1. Refused
      BY <1>9, <2>2, <2>4 DEF Validate
    <3>2. QED
      BY <1>1, <1>6, <2>1, <2>4, <3>1, GivingUp DEF Bad
  <2>5. QED
    BY <2>3, <2>4
<1>10. CASE Read
  <2>1. /\ at = "reading" /\ at' = "parse"
        /\ UNCHANGED <<kind, file, edits, seen, rewritten, size, raw, loaded, outcome>>
    BY <1>10 DEF Read, Goto
  <2>2. LoadTypeOK' /\ HeldWasSeen' /\ SizeWasSeen' /\ EndsOnce'
    BY <2>1 DEF LoadInv, LoadTypeOK, HeldWasSeen, SizeWasSeen, EndsOnce, Places, Looking
  <2>3. outcome' = "running" /\ CapIsEnforced'
    BY <2>1 DEF LoadInv, EndsOnce, CapIsEnforced
  <2>4. QED
    BY <2>2, <2>3 DEF LoadInv
<1>11. CASE Replace
  <2>1. /\ at \in Looking /\ file' \in Things /\ edits' = edits + 1 /\ edits < MaxEdits
        /\ seen' = seen \cup {file'} /\ UNCHANGED <<kind, at, rewritten, size, raw, loaded, outcome>>
    BY <1>11 DEF Replace, Looking
  <2>2. raw = Null /\ outcome = "running"
    BY <2>1 DEF LoadInv, HeldWasSeen, EndsOnce, Looking
  <2>3. LoadTypeOK' /\ HeldWasSeen' /\ EndsOnce'
    BY <1>1, <2>1, <2>2, ThingsAre, BoundsAssumption
    DEF LoadInv, LoadTypeOK, HeldWasSeen, EndsOnce, Places, Looking
  <2>4. SizeWasSeen'
    BY <2>1 DEF LoadInv, SizeWasSeen
  <2>5. CapIsEnforced'
    BY <2>1, <2>2 DEF CapIsEnforced
  <2>6. QED
    BY <2>1, <2>2, <2>3, <2>4, <2>5 DEF LoadInv
<1>12. CASE Rewrite
  <2>1. /\ at = "reading" /\ file' \in Things /\ raw' \in Things /\ raw'.node = "file"
        /\ edits' = edits + 1 /\ edits < MaxEdits /\ seen' = seen \cup {file'} /\ rewritten' = TRUE
        /\ UNCHANGED <<kind, at, size, loaded, outcome>>
    BY <1>12 DEF Rewrite
  <2>2. outcome = "running" /\ raw' # Null /\ rewritten' \in BOOLEAN
    BY <2>1, ThingsAre DEF LoadInv, EndsOnce
  <2>3. LoadTypeOK' /\ HeldWasSeen' /\ EndsOnce'
    BY <1>1, <2>1, <2>2, BoundsAssumption
    DEF LoadInv, LoadTypeOK, HeldWasSeen, EndsOnce, Places, Looking
  <2>4. SizeWasSeen'
    BY <2>1 DEF LoadInv, SizeWasSeen
  <2>5. CapIsEnforced'
    BY <2>1 DEF LoadInv, SizeWasSeen, CapIsEnforced
  <2>6. QED
    BY <2>1, <2>2, <2>3, <2>4, <2>5 DEF LoadInv
<1>13. CASE UNCHANGED loadVars
  BY <1>13 DEF loadVars, LoadInv, LoadTypeOK, HeldWasSeen, SizeWasSeen, EndsOnce, CapIsEnforced,
               Bad, Described
<1>14. QED
  BY <1>2, <1>3, <1>4, <1>5, <1>8, <1>9, <1>10, <1>11, <1>12, <1>13
  DEF LoadNext, LoadStep, Edit

LEMMA LoadInvHolds == LoadSpec => []LoadInv
  BY InitLoads, StepLoads, PTL DEF LoadSpec

LEMMA LoadInvSuffices ==
  LoadInv => LoadTypeOK /\ AcceptedWasThere /\ RefusalIsEarned /\ CapIsEnforced
<1>1. LoadInv => AcceptedWasThere
  BY DEF LoadInv, AcceptedWasThere, HeldWasSeen
<1>2. LoadInv => RefusalIsEarned
  BY DEF LoadInv, RefusalIsEarned, Bad
<1>3. QED
  BY <1>1, <1>2 DEF LoadInv

-----------------------------------------------------------------------------
\* The loader's variables keep their types.
THEOREM LoadTypeCorrect == LoadSpec => []LoadTypeOK
  BY LoadInvSuffices, LoadInvHolds, PTL

\* However often others change the file while it is loaded, what is accepted is a
\* document of its kind and was at the path as a whole, unless it was written into
\* during the read; a file that cannot be read never passes for an empty one
\* (R2, R13).
THEOREM AcceptedAlwaysWasThere == LoadSpec => []AcceptedWasThere
  BY LoadInvSuffices, LoadInvHolds, PTL

\* A loader that gives up, with a diagnostic or without, has met something at the
\* path that was no good file, or one written into while it was read.
THEOREM RefusalIsAlwaysEarned == LoadSpec => []RefusalIsEarned
  BY LoadInvSuffices, LoadInvHolds, PTL

\* The cap is enforced up to the race between the look and the read: a bigger file
\* is only ever read in place of one that kept to the cap.
THEOREM CapIsAlwaysEnforced == LoadSpec => []CapIsEnforced
  BY LoadInvSuffices, LoadInvHolds, PTL
-----------------------------------------------------------------------------
(***************************************************************************)
(* The walk (StateWalk).                                                   *)
(***************************************************************************)
Resources == Modules \X Nat

WalkTypeOK ==
    /\ tree \in Trees \cup {Nil}
    /\ stack \in Seq(Modules)
    /\ visited \subseteq Modules
    /\ collected \in Seq(Resources)

\* Before the call there is nothing.
NothingYet == tree = Nil => stack = <<>> /\ visited = {} /\ collected = <<>>

\* What is not collected yet lies on the stack or below it.
NothingLost ==
    tree # Nil =>
        /\ tree.root # Nil => tree.root \in visited \cup Range(stack)
        /\ \A m \in visited : Range(tree.children[m]) \subseteq visited \cup Range(stack)

\* Nothing beside the modules of the state is ever on the stack.
NothingForeign ==
    tree # Nil =>
        \A set \in SUBSET Modules : Closed(tree, set) => visited \cup Range(stack) \subseteq set

\* No module is on the stack twice or comes back to it: a child is there only
\* after the one module that holds it.
NothingTwice ==
    tree # Nil =>
        /\ IsInjective(stack)
        /\ Range(stack) \cap visited = {}
        /\ \A p \in Modules : \A i \in DOMAIN tree.children[p] :
              tree.children[p][i] \in visited \cup Range(stack) => p \in visited

\* The resources collected are those of the modules visited.
CollectedIsVisited ==
    tree # Nil =>
        /\ Range(collected) = UNION {{<<m, i>> : i \in DOMAIN tree.modes[m]} : m \in visited}
        /\ IsInjective(collected)

WalkInv ==
    /\ WalkTypeOK /\ NothingYet /\ NothingLost /\ NothingForeign /\ NothingTwice
    /\ CollectedIsVisited

-----------------------------------------------------------------------------
LEMMA TreesAre ==
  ASSUME NEW t \in Trees
  PROVE  /\ t.root \in Modules \cup {Nil}
         /\ \A m \in Modules : t.children[m] \in Seq(Modules)
         /\ \A m \in Modules : t.modes[m] \in Seq({"managed", "data"})
         /\ IsTree(t)
         /\ t # Nil
  BY TreesAssumption, NilAssumption DEF TreeRecords

LEMMA ConcatenationRange ==
  ASSUME NEW S, NEW a \in Seq(S), NEW b \in Seq(S)
  PROVE  a \o b \in Seq(S) /\ Range(a \o b) = Range(a) \cup Range(b)
<1>1. /\ a \o b \in Seq(S) /\ Len(a \o b) = Len(a) + Len(b)
      /\ \A i \in 1 .. Len(a) + Len(b) : (a \o b)[i] = IF i <= Len(a) THEN a[i] ELSE b[i - Len(a)]
  OBVIOUS
<1>2. /\ DOMAIN a = 1 .. Len(a) /\ DOMAIN b = 1 .. Len(b)
      /\ DOMAIN (a \o b) = 1 .. Len(a) + Len(b)
      /\ Len(a) \in Nat /\ Len(b) \in Nat
  BY <1>1
<1>3. \A x \in Range(a \o b) : x \in Range(a) \cup Range(b)
  BY <1>1, <1>2 DEF Range
<1>4. \A x \in Range(a) : x \in Range(a \o b)
  BY <1>1, <1>2 DEF Range
<1>5. \A x \in Range(b) : x \in Range(a \o b)
  <2> SUFFICES ASSUME NEW j \in 1 .. Len(b) PROVE b[j] \in Range(a \o b)
    BY <1>2 DEF Range
  <2>1. Len(a) + j \in 1 .. Len(a) + Len(b) /\ (a \o b)[Len(a) + j] = b[j]
    BY <1>1, <1>2
  <2>2. QED
    BY <1>2, <2>1 DEF Range
<1>6. QED
  BY <1>1, <1>3, <1>4, <1>5

LEMMA ConcatenationInjective ==
  ASSUME NEW S, NEW a \in Seq(S), NEW b \in Seq(S),
         IsInjective(a), IsInjective(b), Range(a) \cap Range(b) = {}
  PROVE  IsInjective(a \o b)
<1>1. /\ Len(a \o b) = Len(a) + Len(b)
      /\ \A i \in 1 .. Len(a) + Len(b) : (a \o b)[i] = IF i <= Len(a) THEN a[i] ELSE b[i - Len(a)]
      /\ DOMAIN a = 1 .. Len(a) /\ DOMAIN b = 1 .. Len(b)
      /\ DOMAIN (a \o b) = 1 .. Len(a) + Len(b)
      /\ Len(a) \in Nat /\ Len(b) \in Nat
  OBVIOUS
<1>2. \A i \in 1 .. Len(a) + Len(b) :
        /\ i <= Len(a) => (a \o b)[i] = a[i] /\ i \in DOMAIN a /\ a[i] \in Range(a)
        /\ i > Len(a) => /\ (a \o b)[i] = b[i - Len(a)]
                         /\ i - Len(a) \in DOMAIN b /\ b[i - Len(a)] \in Range(b)
  BY <1>1 DEF Range
<1>3. \A i, j \in 1 .. Len(a) + Len(b) : (a \o b)[i] = (a \o b)[j] => i = j
  <2> SUFFICES ASSUME NEW i \in 1 .. Len(a) + Len(b), NEW j \in 1 .. Len(a) + Len(b),
                      (a \o b)[i] = (a \o b)[j]
               PROVE  i = j
    OBVIOUS
  <2>1. CASE i <= Len(a) /\ j <= Len(a)
    BY <1>2, <2>1 DEF IsInjective
  <2>2. CASE i > Len(a) /\ j > Len(a)
    <3>1. i - Len(a) = j - Len(a)
      BY <1>2, <2>2 DEF IsInjective
    <3>2. QED
      BY <1>1, <3>1
  <2>3. CASE (i <= Len(a)) # (j <= Len(a))
    BY <1>1, <1>2, <2>3
  <2>4. QED
    BY <1>1, <2>1, <2>2, <2>3
<1>4. QED
  BY <1>1, <1>3 DEF IsInjective

\* A stack whose last element makes room for a sequence.
LEMMA PopAndPush ==
  ASSUME NEW S, NEW s \in Seq(S), s # <<>>, NEW c \in Seq(S)
  PROVE  /\ Last(s) \in Range(s)
         /\ Front(s) \o c \in Seq(S)
         /\ Range(Front(s) \o c) = Range(Front(s)) \cup Range(c)
         /\ Range(s) = Range(Front(s)) \cup {Last(s)}
         /\ Range(s) \subseteq S
         /\ IsInjective(s) => IsInjective(Front(s)) /\ Last(s) \notin Range(Front(s))
<1>1. Len(s) \in Nat /\ Len(s) # 0 /\ DOMAIN s = 1 .. Len(s)
  OBVIOUS
<1>2. /\ Front(s) \in Seq(S) /\ Len(Front(s)) = Len(s) - 1
      /\ \A i \in 1 .. Len(s) - 1 : Front(s)[i] = s[i]
      /\ DOMAIN Front(s) = 1 .. Len(s) - 1
  BY <1>1 DEF Front
<1>3. Last(s) = s[Len(s)] /\ Last(s) \in Range(s)
  BY <1>1 DEF Last, Range
<1>4. Range(s) = Range(Front(s)) \cup {Last(s)}
  BY <1>1, <1>2, <1>3 DEF Range
<1>5. Range(s) \subseteq S
  BY <1>1 DEF Range
<1>6. IsInjective(s) => IsInjective(Front(s)) /\ Last(s) \notin Range(Front(s))
  <2> SUFFICES ASSUME IsInjective(s)
               PROVE  IsInjective(Front(s)) /\ Last(s) \notin Range(Front(s))
    OBVIOUS
  <2>1. \A i, j \in 1 .. Len(s) : s[i] = s[j] => i = j
    BY <1>1 DEF IsInjective
  <2>2. IsInjective(Front(s))
    BY <1>1, <1>2, <2>1 DEF IsInjective
  <2>3. \A i \in 1 .. Len(s) - 1 : Front(s)[i] # s[Len(s)]
    BY <1>1, <1>2, <2>1
  <2>4. QED
    BY <1>2, <1>3, <2>2, <2>3 DEF Range
<1>7. /\ Front(s) \o c \in Seq(S)
      /\ Range(Front(s) \o c) = Range(Front(s)) \cup Range(c)
  BY <1>2, ConcatenationRange
<1>8. QED
  BY <1>3, <1>4, <1>5, <1>6, <1>7

LEMMA CallKeeps ==
  ASSUME WalkInv, NEW t \in Trees, Call(t)
  PROVE  WalkInv'
<1> USE DEF WalkInv, Call
<1>1. /\ tree = Nil /\ tree' = t /\ t # Nil /\ visited' = {} /\ collected' = <<>>
      /\ stack' = IF t.root = Nil THEN <<>> ELSE <<t.root>>
      /\ t.root \in Modules \cup {Nil}
  BY TreesAre DEF NothingYet
<1>2. CASE t.root = Nil
  <2>1. stack' = <<>> /\ Range(stack') = {}
    BY <1>1, <1>2 DEF Range
  <2>2. Range(collected') = {} /\ IsInjective(collected') /\ IsInjective(stack')
    BY <1>1, <2>1 DEF Range, IsInjective
  <2>3. WalkTypeOK' /\ NothingYet'
    BY <1>1, <2>1 DEF WalkTypeOK, NothingYet
  <2>4. NothingLost' /\ NothingForeign' /\ NothingTwice' /\ CollectedIsVisited'
    BY <1>1, <1>2, <2>1, <2>2 DEF NothingLost, NothingForeign, NothingTwice, CollectedIsVisited
  <2>5. QED
    BY <2>3, <2>4
<1>3. CASE t.root # Nil
  <2>1. stack' = <<t.root>> /\ t.root \in Modules /\ stack' \in Seq(Modules)
    BY <1>1, <1>3
  <2>2. Range(stack') = {t.root}
    BY <2>1 DEF Range
  <2>3. Range(collected') = {} /\ IsInjective(collected') /\ IsInjective(stack')
    BY <1>1, <2>1 DEF Range, IsInjective
  <2>4. WalkTypeOK' /\ NothingYet'
    BY <1>1, <2>1 DEF WalkTypeOK, NothingYet
  <2>5. NothingLost' /\ CollectedIsVisited'
    BY <1>1, <2>2, <2>3 DEF NothingLost, CollectedIsVisited
  <2>6. NothingForeign'
    BY <1>1, <1>3, <2>2 DEF NothingForeign, Closed
  <2>7. NothingTwice'
    <3>1. \A q \in Modules : t.root \notin Range(t.children[q])
      BY TreesAre DEF IsTree
    <3>2. \A q \in Modules : \A i \in DOMAIN t.children[q] : t.children[q][i] # t.root
      BY <3>1 DEF Range
    <3>3. QED
      BY <1>1, <2>2, <2>3, <3>2 DEF NothingTwice
  <2>8. QED
    BY <2>4, <2>5, <2>6, <2>7
<1>4. QED
  BY <1>2, <1>3

\* What Visit does, said of ranges.
LEMMA VisitMoves ==
  ASSUME WalkInv, Visit
  PROVE  \E m \in Modules :
           /\ tree \in Trees /\ tree' = tree
           /\ m \in Range(stack) /\ m \notin visited
           /\ stack' \in Seq(Modules)
           /\ Range(stack') = (Range(stack) \ {m}) \cup Range(tree.children[m])
           /\ visited' = visited \cup {m}
           /\ collected' = collected \o ResourcesOf(m)
           /\ IsInjective(stack')
           /\ Range(tree.children[m]) \cap (visited \cup Range(stack)) = {}
<1>1. PICK m \in Modules : Popped(m) /\ visited' = visited \cup {m}
                            /\ collected' = collected \o ResourcesOf(m)
  BY DEF Visit
<1>2. /\ tree \in Trees /\ tree # Nil /\ tree' = tree
      /\ stack # <<>> /\ stack \in Seq(Modules)
      /\ tree.children[m] \in Seq(Modules)
  BY TreesAre DEF Visit, WalkInv, WalkTypeOK, NothingYet
<1> DEFINE c == tree.children[m]
<1>3. m = Last(stack) /\ stack' = Front(stack) \o c
  BY <1>1 DEF Popped
<1>4. /\ IsInjective(stack) /\ Range(stack) \cap visited = {}
      /\ \A i \in DOMAIN c : c[i] \in visited \cup Range(stack) => m \in visited
  BY <1>2 DEF WalkInv, NothingTwice
<1>5. /\ m \in Range(stack) /\ stack' \in Seq(Modules)
      /\ Range(stack') = Range(Front(stack)) \cup Range(c)
      /\ Range(stack) = Range(Front(stack)) \cup {m}
      /\ IsInjective(Front(stack)) /\ m \notin Range(Front(stack))
  BY <1>2, <1>3, <1>4, PopAndPush
<1>6. m \notin visited
  BY <1>4, <1>5
<1>7. Range(c) \cap (visited \cup Range(stack)) = {}
  BY <1>4, <1>6 DEF Range
<1>8. IsInjective(c)
  <2>1. \A i \in DOMAIN c, j \in DOMAIN c : c[i] = c[j] => i = j
    BY <1>2, TreesAre DEF IsTree
  <2>2. QED
    BY <2>1 DEF IsInjective
<1>9. IsInjective(stack')
  <2>1. Front(stack) \in Seq(Modules)
    BY <1>2 DEF Front
  <2>2. Range(Front(stack)) \cap Range(c) = {}
    BY <1>5, <1>7
  <2>3. QED
    BY <1>2, <1>3, <1>5, <1>8, <2>1, <2>2, ConcatenationInjective
<1>10. Range(stack') = (Range(stack) \ {m}) \cup Range(c)
  BY <1>5
<1>11. QED
  BY <1>1, <1>2, <1>5, <1>6, <1>7, <1>9, <1>10

LEMMA VisitKeeps ==
  ASSUME WalkInv, Visit
  PROVE  WalkInv'
<1>1. PICK m \in Modules :
           /\ tree \in Trees /\ tree' = tree
           /\ m \in Range(stack) /\ m \notin visited
           /\ stack' \in Seq(Modules)
           /\ Range(stack') = (Range(stack) \ {m}) \cup Range(tree.children[m])
           /\ visited' = visited \cup {m}
           /\ collected' = collected \o ResourcesOf(m)
           /\ IsInjective(stack')
           /\ Range(tree.children[m]) \cap (visited \cup Range(stack)) = {}
  BY VisitMoves
<1>2. tree # Nil /\ collected \in Seq(Resources) /\ visited \subseteq Modules
  BY <1>1, TreesAre DEF WalkInv, WalkTypeOK
<1> DEFINE r == ResourcesOf(m)
<1>3. r \in Seq(Resources) /\ IsInjective(r) /\ Range(r) = {<<m, i>> : i \in DOMAIN tree.modes[m]}
  <2>1. tree.modes[m] \in Seq({"managed", "data"})
    BY <1>1, TreesAre
  <2>2. /\ DOMAIN r = 1 .. Len(tree.modes[m]) /\ Len(tree.modes[m]) \in Nat
        /\ DOMAIN tree.modes[m] = 1 .. Len(tree.modes[m])
        /\ \A i \in DOMAIN r : r[i] = <<m, i>>
        /\ r = [i \in 1 .. Len(tree.modes[m]) |-> <<m, i>>]
    BY <2>1 DEF ResourcesOf
  <2>3. r \in Seq(Resources)
    BY <2>2 DEF Resources
  <2>4. IsInjective(r)
    BY <2>2 DEF IsInjective
  <2>5. Range(r) = {<<m, i>> : i \in DOMAIN tree.modes[m]}
    BY <2>2 DEF Range
  <2>6. QED
    BY <2>3, <2>4, <2>5
<1>4. /\ collected' \in Seq(Resources)
      /\ Range(collected') = Range(collected) \cup Range(r)
  BY <1>1, <1>2, <1>3, ConcatenationRange
<1>5. WalkTypeOK' /\ NothingYet'
  BY <1>1, <1>2, <1>4 DEF WalkTypeOK, NothingYet
<1>6. NothingLost'
  BY <1>1, <1>2 DEF WalkInv, NothingLost
<1>7. NothingForeign'
  <2> SUFFICES ASSUME NEW set \in SUBSET Modules, Closed(tree, set)
               PROVE  visited' \cup Range(stack') \subseteq set
    BY <1>1 DEF NothingForeign
  <2>1. visited \cup Range(stack) \subseteq set
    BY <1>2 DEF WalkInv, NothingForeign
  <2>2. m \in set /\ Range(tree.children[m]) \subseteq set
    BY <1>1, <2>1 DEF Closed
  <2>3. QED
    BY <1>1, <2>1, <2>2
<1>8. NothingTwice'
  <2>1. Range(stack') \cap visited' = {}
    BY <1>1, <1>2 DEF WalkInv, NothingTwice
  <2>2. ASSUME NEW p \in Modules, NEW i \in DOMAIN tree.children[p],
               tree.children[p][i] \in visited' \cup Range(stack')
        PROVE  p \in visited'
    <3>1. CASE tree.children[p][i] \in visited \cup Range(stack)
      BY <1>1, <1>2, <2>2, <3>1 DEF WalkInv, NothingTwice
    <3>2. CASE tree.children[p][i] \in Range(tree.children[m])
      <4>1. PICK j \in DOMAIN tree.children[m] : tree.children[m][j] = tree.children[p][i]
        BY <3>2 DEF Range
      <4>2. p = m
        BY <1>1, <4>1, TreesAre DEF IsTree
      <4>3. QED
        BY <1>1, <4>2
    <3>3. QED
      BY <1>1, <2>2, <3>1, <3>2
  <2>3. QED
    BY <1>1, <2>1, <2>2 DEF NothingTwice
<1>9. CollectedIsVisited'
  <2>1. /\ Range(collected) = UNION {{<<q, i>> : i \in DOMAIN tree.modes[q]} : q \in visited}
        /\ IsInjective(collected)
    BY <1>2 DEF WalkInv, CollectedIsVisited
  <2>2. Range(collected) \cap Range(r) = {}
    BY <1>1, <1>3, <2>1
  <2>3. IsInjective(collected')
    BY <1>1, <1>2, <1>3, <2>1, <2>2, ConcatenationInjective
  <2>4. Range(collected') =
          UNION {{<<q, i>> : i \in DOMAIN tree.modes[q]} : q \in visited'}
    BY <1>1, <1>3, <1>4, <2>1
  <2>5. QED
    BY <1>1, <2>3, <2>4 DEF CollectedIsVisited
<1>10. QED
  BY <1>5, <1>6, <1>7, <1>8, <1>9 DEF WalkInv

-----------------------------------------------------------------------------
LEMMA InitWalks == WalkInit => WalkInv
  BY DEF WalkInit, WalkInv, WalkTypeOK, NothingYet, NothingLost, NothingForeign, NothingTwice,
         CollectedIsVisited

LEMMA StepWalks == WalkInv /\ [WalkNext]_walkVars => WalkInv'
<1> SUFFICES ASSUME WalkInv, [WalkNext]_walkVars PROVE WalkInv'
  OBVIOUS
<1>1. ASSUME NEW t \in Trees, Call(t) PROVE WalkInv'
  BY <1>1, CallKeeps
<1>2. CASE Visit
  BY <1>2, VisitKeeps
<1>3. CASE Return \/ UNCHANGED walkVars
  BY <1>3 DEF Return, walkVars, WalkInv, WalkTypeOK, NothingYet, NothingLost, NothingForeign,
              NothingTwice, CollectedIsVisited
<1>4. QED
  BY <1>1, <1>2, <1>3 DEF WalkNext, WalkStep

\* The modules visited are closed under taking children once the stack is empty.
LEMMA WalkedAreAll == WalkInv => EveryResourceOnce
<1> SUFFICES ASSUME WalkInv, tree # Nil, stack = <<>>
             PROVE  Range(collected) = AllResources(tree) /\ IsInjective(collected)
  BY DEF EveryResourceOnce, Walked
<1>1. Range(stack) = {} /\ visited \subseteq Modules
  BY DEF Range, WalkInv, WalkTypeOK
<1>2. Closed(tree, visited)
  BY <1>1 DEF WalkInv, NothingLost, Closed
<1>3. visited = ModulesOf(tree)
  BY <1>1, <1>2 DEF WalkInv, NothingForeign, ModulesOf
<1>4. QED
  BY <1>3 DEF WalkInv, CollectedIsVisited, AllResources

\* Whatever modules a state nests, and however deep, when the stack is empty
\* every resource of every module has been collected once and nothing else
\* (R9): the modules visited are then closed under taking children.
THEOREM EveryResourceIsCollectedOnce == WalkSpec => []EveryResourceOnce
  BY InitWalks, StepWalks, WalkedAreAll, PTL DEF WalkSpec

-----------------------------------------------------------------------------
(***************************************************************************)
(* The order (StateWalk).  Nothing in a state is nested in itself, so of   *)
(* two of its modules at most one is read before the other; the walk reads *)
(* what hangs on the top of its stack before what hangs below it.          *)
(***************************************************************************)
\* With a module its children, and with these theirs.
LEMMA PartIs ==
  ASSUME NEW t \in Trees, NEW m \in Modules
  PROVE  /\ m \in PartOf(t, m) /\ PartOf(t, m) \in SUBSET Modules
         /\ \A p \in PartOf(t, m) : \A i \in DOMAIN t.children[p] :
               t.children[p][i] \in PartOf(t, m)
         /\ \A set \in SUBSET Modules :
               /\ m \in set
               /\ \A p \in set : \A i \in DOMAIN t.children[p] : t.children[p][i] \in set
               => PartOf(t, m) \subseteq set
<1>1. ASSUME NEW p \in PartOf(t, m), NEW i \in DOMAIN t.children[p]
      PROVE  t.children[p][i] \in PartOf(t, m)
  <2>1. p \in Modules /\ t.children[p][i] \in Modules
    BY TreesAre DEF PartOf
  <2>2. t.children[p][i] \in Range(t.children[p])
    BY DEF Range
  <2>3. QED
    BY <2>1, <2>2 DEF PartOf
<1>2. ASSUME NEW set \in SUBSET Modules, m \in set,
             \A p \in set : \A i \in DOMAIN t.children[p] : t.children[p][i] \in set
      PROVE  PartOf(t, m) \subseteq set
  <2>1. \A p \in set : Range(t.children[p]) \subseteq set
    BY <1>2 DEF Range
  <2>2. QED
    BY <1>2, <2>1 DEF PartOf
<1>3. m \in PartOf(t, m) /\ PartOf(t, m) \in SUBSET Modules
  BY DEF PartOf
<1>4. QED
  BY <1>1, <1>2, <1>3

LEMMA PartsShrink ==
  ASSUME NEW t \in Trees, NEW m \in Modules, NEW n \in PartOf(t, m)
  PROVE  n \in Modules /\ PartOf(t, n) \subseteq PartOf(t, m)
  BY PartIs

LEMMA ChildsPart ==
  ASSUME NEW t \in Trees, NEW m \in Modules, NEW i \in DOMAIN t.children[m]
  PROVE  /\ t.children[m][i] \in Modules
         /\ t.children[m][i] \in PartOf(t, t.children[m][i])
         /\ PartOf(t, t.children[m][i]) \subseteq PartOf(t, m)
<1>1. t.children[m][i] \in Modules /\ t.children[m][i] \in PartOf(t, m)
  BY TreesAre, PartIs
<1>2. QED
  BY <1>1, PartIs, PartsShrink

\* Whatever hangs on a module, other than itself, is a child of something there.
LEMMA LastStep ==
  ASSUME NEW t \in Trees, NEW m \in Modules, NEW n \in PartOf(t, m), n # m
  PROVE  \E p \in PartOf(t, m) : \E i \in DOMAIN t.children[p] : t.children[p][i] = n
<1> SUFFICES ASSUME \A p \in PartOf(t, m) : \A i \in DOMAIN t.children[p] : t.children[p][i] # n
             PROVE  FALSE
  OBVIOUS
<1>1. m \in PartOf(t, m) \ {n} /\ PartOf(t, m) \ {n} \in SUBSET Modules
  BY PartIs
<1>2. \A p \in PartOf(t, m) \ {n} : \A i \in DOMAIN t.children[p] :
         t.children[p][i] \in PartOf(t, m) \ {n}
  BY PartIs
<1>3. QED
  BY <1>1, <1>2, PartIs

\* ... and hangs on one of its children.
LEMMA FirstStep ==
  ASSUME NEW t \in Trees, NEW m \in Modules, NEW n \in PartOf(t, m), n # m
  PROVE  \E i \in DOMAIN t.children[m] : n \in PartOf(t, t.children[m][i])
<1> DEFINE S == {m} \cup UNION {PartOf(t, t.children[m][i]) : i \in DOMAIN t.children[m]}
<1>1. \A x \in S : x = m \/ \E i \in DOMAIN t.children[m] : x \in PartOf(t, t.children[m][i])
  OBVIOUS
<1>2. \A i \in DOMAIN t.children[m] : PartOf(t, t.children[m][i]) \subseteq S
  OBVIOUS
<1>3. m \in S
  OBVIOUS
<1> HIDE DEF S
<1>4. S \in SUBSET Modules
  BY <1>1, ChildsPart, PartIs
<1>5. ASSUME NEW p \in S, NEW j \in DOMAIN t.children[p] PROVE t.children[p][j] \in S
  <2>1. CASE p = m
    BY <1>2, <2>1, ChildsPart
  <2>2. ASSUME NEW i \in DOMAIN t.children[m], p \in PartOf(t, t.children[m][i])
        PROVE  t.children[p][j] \in S
    <3>1. t.children[m][i] \in Modules
      BY ChildsPart
    <3>2. t.children[p][j] \in PartOf(t, t.children[m][i])
      BY <2>2, <3>1, PartIs
    <3>3. QED
      BY <1>2, <3>2
  <2>3. QED
    BY <1>1, <2>1, <2>2
<1>6. n \in S
  BY <1>3, <1>4, <1>5, PartIs
<1>7. QED
  BY <1>1, <1>6

\* A module has one parent, and the root none.
LEMMA OneParent ==
  ASSUME NEW t \in Trees, NEW p \in Modules, NEW i \in DOMAIN t.children[p]
  PROVE  /\ t.children[p][i] # t.root
         /\ \A q \in Modules : \A j \in DOMAIN t.children[q] :
               t.children[q][j] = t.children[p][i] => q = p /\ j = i
<1>1. t.children[p][i] \in Range(t.children[p])
  BY DEF Range
<1>2. QED
  BY <1>1, TreesAre DEF IsTree

\* The modules of a state are what hangs on its root.
LEMMA ModulesArePart ==
  ASSUME NEW t \in Trees, NEW m \in ModulesOf(t)
  PROVE  t.root \in Modules /\ m \in PartOf(t, t.root)
<1>1. t.root # Nil
  <2>1. t.root = Nil => Closed(t, {})
    BY DEF Closed
  <2>2. QED
    BY <2>1 DEF ModulesOf
<1>2. t.root \in Modules
  BY <1>1, TreesAre
<1>3. Closed(t, PartOf(t, t.root))
  BY <1>2, PartIs DEF Closed, Range
<1>4. QED
  BY <1>2, <1>3, PartIs DEF ModulesOf

\* Nothing in a state is nested in itself: what is, would hang on nothing but
\* itself, and so not on the root.
LEMMA NoCycle ==
  ASSUME NEW t \in Trees, NEW m \in ModulesOf(t), NEW i \in DOMAIN t.children[m]
  PROVE  m \notin PartOf(t, t.children[m][i])
<1> DEFINE c == t.children[m][i]
           C == {x \in PartOf(t, m) : m \in PartOf(t, x)}
<1> SUFFICES ASSUME m \in PartOf(t, c) PROVE FALSE
  OBVIOUS
<1>1. m \in Modules /\ c \in Modules /\ C \in SUBSET Modules /\ m \in C
      /\ PartOf(t, c) \subseteq PartOf(t, m)
  BY ChildsPart, PartIs DEF ModulesOf
<1>2. ASSUME NEW y \in C
      PROVE  \E p \in C : \E j \in DOMAIN t.children[p] : t.children[p][j] = y
  <2>1. y \in PartOf(t, m) /\ m \in PartOf(t, y) /\ y \in Modules
    BY <1>1
  <2>2. ASSUME NEW p \in PartOf(t, m), NEW j \in DOMAIN t.children[p], t.children[p][j] = y
        PROVE  p \in C
    <3>1. p \in Modules
      BY <1>1, PartsShrink
    <3>2. m \in PartOf(t, p)
      BY <2>1, <2>2, <3>1, ChildsPart
    <3>3. QED
      BY <3>2
  <2>3. CASE y # m
    <3>1. PICK p \in PartOf(t, m) : \E j \in DOMAIN t.children[p] : t.children[p][j] = y
      BY <1>1, <2>1, <2>3, LastStep
    <3>2. QED
      BY <2>2, <3>1
  <2>4. CASE y = m /\ m = c
    BY <1>1, <2>2, <2>4
  <2>5. CASE y = m /\ m # c
    <3>1. PICK p \in PartOf(t, c) : \E j \in DOMAIN t.children[p] : t.children[p][j] = m
      <4>1. c \in Modules /\ m \in PartOf(t, c) /\ m # c
        BY <1>1, <2>5
      <4> HIDE DEF c
      <4>2. QED
        BY <4>1, LastStep
    <3>2. p \in PartOf(t, m)
      BY <1>1
    <3>3. QED
      BY <2>2, <2>5, <3>1, <3>2
  <2>6. QED
    BY <2>3, <2>4, <2>5
<1> HIDE DEF C
<1>3. \A y \in C : y # t.root
  BY <1>1, <1>2, OneParent
<1>4. t.root \in Modules /\ m \in PartOf(t, t.root)
  BY ModulesArePart
<1>5. \A p \in Modules \ C : \A j \in DOMAIN t.children[p] : t.children[p][j] \in Modules \ C
  <2> SUFFICES ASSUME NEW p \in Modules \ C, NEW j \in DOMAIN t.children[p],
                      t.children[p][j] \in C
               PROVE  FALSE
    BY ChildsPart
  <2>1. PICK q \in C : \E k \in DOMAIN t.children[q] : t.children[q][k] = t.children[p][j]
    BY <1>2
  <2>2. q = p
    BY <1>1, <2>1, OneParent
  <2>3. QED
    BY <2>2
<1>6. PartOf(t, t.root) \subseteq Modules \ C
  BY <1>3, <1>4, <1>5, PartIs
<1>7. QED
  BY <1>1, <1>4, <1>6

\* Of two modules in which a third is nested one is nested in the other.
LEMMA Chain ==
  ASSUME NEW t \in Trees, NEW p \in Modules, NEW q \in Modules,
         NEW m \in PartOf(t, p), m \in PartOf(t, q)
  PROVE  p \in PartOf(t, q) \/ q \in PartOf(t, p)
<1> SUFFICES ASSUME p \notin PartOf(t, q), q \notin PartOf(t, p) PROVE FALSE
  OBVIOUS
<1> DEFINE S == PartOf(t, p) \ PartOf(t, q)
<1>1. p \in S /\ S \in SUBSET Modules
  BY PartIs
<1>2. ASSUME NEW x \in S, NEW i \in DOMAIN t.children[x] PROVE t.children[x][i] \in S
  <2>1. x \in Modules /\ t.children[x][i] \in PartOf(t, p)
    BY <1>1, PartIs
  <2>2. ASSUME t.children[x][i] \in PartOf(t, q) PROVE FALSE
    <3>1. PICK y \in PartOf(t, q) :
             \E j \in DOMAIN t.children[y] : t.children[y][j] = t.children[x][i]
      BY <2>1, <2>2, LastStep
    <3>2. y = x
      BY <2>1, <3>1, OneParent, PartIs
    <3>3. QED
      BY <3>1, <3>2
  <2>3. QED
    BY <2>1, <2>2
<1>3. PartOf(t, p) \subseteq S
  <2> HIDE DEF S
  <2>1. QED
    BY <1>1, <1>2, PartIs
<1>4. QED
  BY <1>3

\* What a module of the state is nested in is a module of the state.
LEMMA PartIsReached ==
  ASSUME NEW t \in Trees, NEW p \in Modules, NEW m \in PartOf(t, p), m \in ModulesOf(t)
  PROVE  p \in ModulesOf(t)
<1>1. t.root \in Modules /\ m \in PartOf(t, t.root)
  BY ModulesArePart
<1>2. p \in PartOf(t, t.root)
  <2>1. CASE t.root \in PartOf(t, p)
    <3>1. p = t.root
      <4>1. ASSUME p # t.root PROVE FALSE
        <5>1. PICK x \in PartOf(t, p) :
                 \E j \in DOMAIN t.children[x] : t.children[x][j] = t.root
          BY <2>1, <4>1, LastStep
        <5>2. QED
          BY <5>1, OneParent, PartIs
      <4>2. QED
        BY <4>1
    <3>2. QED
      BY <1>1, <3>1, PartIs
  <2>2. QED
    BY <1>1, <2>1, Chain
<1>3. ASSUME NEW set \in SUBSET Modules, Closed(t, set) PROVE p \in set
  <2>1. t.root \in set /\ \A x \in set : \A i \in DOMAIN t.children[x] : t.children[x][i] \in set
    BY <1>1, <1>3, NilAssumption DEF Closed, Range
  <2>2. PartOf(t, t.root) \subseteq set
    BY <1>1, <1>3, <2>1, PartIs
  <2>3. QED
    BY <1>2, <2>2
<1>4. QED
  BY <1>3 DEF ModulesOf

\* Two children of a module have nothing in common.
LEMMA ChildrenAreApart ==
  ASSUME NEW t \in Trees, NEW p \in ModulesOf(t),
         NEW i \in DOMAIN t.children[p], NEW j \in DOMAIN t.children[p],
         NEW m \in PartOf(t, t.children[p][i]), m \in PartOf(t, t.children[p][j])
  PROVE  i = j
<1>1. p \in Modules
  BY DEF ModulesOf
<1>2. ASSUME NEW k \in DOMAIN t.children[p], NEW l \in DOMAIN t.children[p],
             t.children[p][k] \in PartOf(t, t.children[p][l])
      PROVE  k = l
  <2> DEFINE c == t.children[p][k]
             d == t.children[p][l]
  <2>1. c \in Modules /\ d \in Modules
    BY <1>1, ChildsPart
  <2>2. CASE c = d
    BY <1>1, <2>2, OneParent
  <2>3. CASE c # d
    <3> HIDE DEF d
    <3>1. PICK y \in PartOf(t, d) : \E h \in DOMAIN t.children[y] : t.children[y][h] = c
      BY <1>2, <2>1, <2>3, LastStep DEF d
    <3>2. y = p
      BY <1>1, <2>1, <3>1, OneParent, PartIs
    <3>3. QED
      BY <3>1, <3>2, NoCycle DEF d
  <2>4. QED
    BY <2>2, <2>3
<1>3. t.children[p][i] \in Modules /\ t.children[p][j] \in Modules
  BY <1>1, ChildsPart
<1>4. QED
  BY <1>2, <1>3, Chain

\* Two modules of one child of q are not of different children of q.
LEMMA TogetherUnder ==
  ASSUME NEW t \in Trees, NEW p \in ModulesOf(t), NEW q \in ModulesOf(t),
         p # q, p \in PartOf(t, q),
         NEW k \in DOMAIN t.children[q], NEW l \in DOMAIN t.children[q],
         NEW m \in PartOf(t, p), m \in PartOf(t, t.children[q][k]),
         NEW n \in PartOf(t, p), n \in PartOf(t, t.children[q][l])
  PROVE  k = l
<1>1. p \in Modules /\ q \in Modules
  BY DEF ModulesOf
<1>2. PICK h \in DOMAIN t.children[q] : p \in PartOf(t, t.children[q][h])
  BY <1>1, FirstStep
<1>3. t.children[q][h] \in Modules
  BY <1>1, ChildsPart
<1>4. m \in PartOf(t, t.children[q][h]) /\ n \in PartOf(t, t.children[q][h])
  BY <1>2, <1>3, PartsShrink
<1>5. h = k /\ h = l
  BY <1>4, ChildrenAreApart
<1>6. QED
  BY <1>5

\* No two modules of a state are each taken before the other.
LEMMA TakenOneWay ==
  ASSUME NEW t \in Trees, NEW m \in ModulesOf(t), NEW n \in ModulesOf(t),
         TakenBefore(t, m, n), TakenBefore(t, n, m)
  PROVE  FALSE
<1> DEFINE Under(x, y) == \E i \in DOMAIN t.children[x] : y \in PartOf(t, t.children[x][i])
           Aside(x, y, p, i, j) == /\ i \in DOMAIN t.children[p] /\ j \in DOMAIN t.children[p]
                                   /\ j < i
                                   /\ x \in PartOf(t, t.children[p][i])
                                   /\ y \in PartOf(t, t.children[p][j])
<1>1. \A x, y \in Modules :
         TakenBefore(t, x, y) => \/ Under(x, y)
                                \/ \E p \in Modules : \E i, j \in DOMAIN t.children[p] :
                                      Aside(x, y, p, i, j)
  BY DEF TakenBefore
<1>2. m \in Modules /\ n \in Modules
  BY DEF ModulesOf
<1>3. ASSUME NEW x \in ModulesOf(t), NEW y \in ModulesOf(t), Under(x, y), Under(y, x)
      PROVE  FALSE
  <2>1. x \in Modules /\ y \in Modules
    BY DEF ModulesOf
  <2>2. PICK i \in DOMAIN t.children[x] : y \in PartOf(t, t.children[x][i])
    BY <1>3
  <2>3. PICK j \in DOMAIN t.children[y] : x \in PartOf(t, t.children[y][j])
    BY <1>3
  <2>4. x \in PartOf(t, y)
    BY <2>1, <2>3, ChildsPart
  <2>5. t.children[x][i] \in Modules
    BY <2>1, ChildsPart
  <2>6. x \in PartOf(t, t.children[x][i])
    BY <2>2, <2>4, <2>5, PartsShrink
  <2>7. QED
    BY <2>6, NoCycle
<1>4. ASSUME NEW x \in ModulesOf(t), NEW y \in ModulesOf(t), Under(x, y),
             NEW p \in Modules, NEW i \in DOMAIN t.children[p], NEW j \in DOMAIN t.children[p],
             Aside(y, x, p, i, j)
      PROVE  FALSE
  <2>1. x \in Modules /\ p \in ModulesOf(t)
    BY <1>4, ChildsPart, PartIsReached DEF ModulesOf
  <2>2. y \in PartOf(t, x)
    BY <1>4, <2>1, ChildsPart
  <2>3. y \in PartOf(t, t.children[p][j])
    BY <1>4, <2>2, ChildsPart, PartsShrink
  <2>4. i = j
    BY <1>4, <2>1, <2>3, ChildrenAreApart
  <2>5. p \in Modules /\ i \in Int /\ j \in Int /\ j < i
    BY <1>4, TreesAre
  <2>6. QED
    BY <2>4, <2>5
<1>5. ASSUME NEW p \in Modules, NEW i \in DOMAIN t.children[p], NEW j \in DOMAIN t.children[p],
             NEW q \in Modules, NEW k \in DOMAIN t.children[q], NEW l \in DOMAIN t.children[q],
             Aside(m, n, p, i, j), Aside(n, m, q, k, l)
      PROVE  FALSE
  <2>1. /\ m \in PartOf(t, p) /\ n \in PartOf(t, p) /\ m \in PartOf(t, q) /\ n \in PartOf(t, q)
    BY <1>5, ChildsPart
  <2>2. p \in ModulesOf(t) /\ q \in ModulesOf(t)
    BY <2>1, PartIsReached
  <2>3. i \in Int /\ j \in Int /\ k \in Int /\ l \in Int /\ j < i /\ l < k
    BY <1>5, TreesAre
  <2>4. CASE p = q
    <3>1. i = l /\ j = k
      BY <1>5, <2>2, <2>4, ChildrenAreApart
    <3>2. QED
      BY <2>3, <3>1
  <2>5. CASE p # q /\ p \in PartOf(t, q)
    <3>1. k = l
      BY <1>5, <2>1, <2>2, <2>5, TogetherUnder
    <3>2. QED
      BY <2>3, <3>1
  <2>6. CASE p # q /\ q \in PartOf(t, p)
    <3>1. i = j
      BY <1>5, <2>1, <2>2, <2>6, TogetherUnder
    <3>2. QED
      BY <2>3, <3>1
  <2>7. QED
    BY <2>1, <2>4, <2>5, <2>6, Chain
<1> HIDE DEF Under, Aside
<1>6. QED
  BY <1>1, <1>2, <1>3, <1>4, <1>5

LEMMA ComesOneWay ==
  ASSUME NEW t \in Trees, NEW r \in AllResources(t), NEW s \in AllResources(t)
  PROVE  ~(ComesBefore(t, r, s) /\ ComesBefore(t, s, r))
<1>1. ASSUME NEW q \in AllResources(t) PROVE q[1] \in ModulesOf(t) /\ q[2] \in Int
  <2>1. PICK m \in ModulesOf(t) : \E i \in DOMAIN t.modes[m] : q = <<m, i>>
    BY DEF AllResources
  <2>2. t.modes[m] \in Seq({"managed", "data"})
    BY TreesAre DEF ModulesOf
  <2>3. DOMAIN t.modes[m] \subseteq Int
    BY <2>2
  <2>4. QED
    BY <2>1, <2>3
<1>2. QED
  BY <1>1, TakenOneWay DEF ComesBefore

\* Two orderly lists of the same resources do not differ in a first place.
LEMMA NoFirstDifference ==
  ASSUME NEW t \in Trees, NEW a \in Seq(AllResources(t)), NEW b \in Seq(AllResources(t)),
         Range(a) = Range(b), InOrder(t, a), InOrder(t, b),
         NEW n \in DOMAIN a,
         \A k \in 1 .. n - 1 : k \in DOMAIN a /\ k \in DOMAIN b /\ a[k] = b[k]
  PROVE  n \in DOMAIN b /\ a[n] = b[n]
<1>1. /\ DOMAIN a = 1 .. Len(a) /\ Len(a) \in Nat /\ DOMAIN b = 1 .. Len(b) /\ Len(b) \in Nat
      /\ \A i \in DOMAIN a : a[i] \in AllResources(t)
      /\ \A i \in DOMAIN b : b[i] \in AllResources(t)
  OBVIOUS
<1>2. /\ \A i, j \in DOMAIN a : i < j => ComesBefore(t, a[i], a[j])
      /\ \A i, j \in DOMAIN b : i < j => ComesBefore(t, b[i], b[j])
  BY DEF InOrder
<1>3. /\ \A i, j \in DOMAIN a : i < j => a[i] # a[j]
      /\ \A i, j \in DOMAIN b : i < j => b[i] # b[j]
  BY <1>1, <1>2, ComesOneWay
<1>4. PICK k \in DOMAIN b : b[k] = a[n]
  BY DEF Range
<1>5. k >= n
  <2>1. ASSUME k < n PROVE FALSE
    <3>1. k \in DOMAIN a /\ a[k] = a[n]
      BY <1>1, <1>4, <2>1
    <3>2. QED
      BY <1>3, <2>1, <3>1
  <2>2. QED
    BY <1>1, <2>1
<1>6. CASE k = n
  BY <1>4, <1>6
<1>7. CASE k > n
  <2>1. n \in DOMAIN b
    BY <1>1, <1>7
  <2>2. PICK l \in DOMAIN a : a[l] = b[n]
    BY <2>1 DEF Range
  <2>3. CASE l < n
    <3>1. l \in DOMAIN b /\ b[l] = b[n]
      BY <1>1, <2>2, <2>3
    <3>2. QED
      BY <1>3, <2>1, <2>3, <3>1
  <2>4. CASE l = n
    BY <2>1, <2>2, <2>4
  <2>5. CASE l > n
    <3>1. ComesBefore(t, a[n], a[l]) /\ ComesBefore(t, b[n], b[k])
      BY <1>2, <1>7, <2>1, <2>5
    <3>2. QED
      BY <1>1, <1>4, <2>1, <2>2, <3>1, ComesOneWay
  <2>6. QED
    BY <1>1, <2>3, <2>4, <2>5
<1>8. QED
  BY <1>1, <1>5, <1>6, <1>7

\* A state has one depth-first order, siblings reversed: two lists of the same
\* resources that are both in it are the same list, so it leaves the walk no
\* choice and the document alone decides what is returned.
THEOREM OrderIsUnique ==
  ASSUME NEW t \in Trees, NEW a \in Seq(AllResources(t)), NEW b \in Seq(AllResources(t)),
         Range(a) = Range(b), InOrder(t, a), InOrder(t, b)
  PROVE  a = b
<1>1. DOMAIN a = 1 .. Len(a) /\ Len(a) \in Nat /\ DOMAIN b = 1 .. Len(b) /\ Len(b) \in Nat
  OBVIOUS
<1> DEFINE Same(n) == n \in DOMAIN a /\ n \in DOMAIN b /\ a[n] = b[n]
           Differ == {n \in DOMAIN a \cup DOMAIN b : ~Same(n)}
<1>2. Differ = {}
  <2> SUFFICES ASSUME Differ # {} PROVE FALSE
    OBVIOUS
  <2>1. Differ \in SUBSET Nat
    BY <1>1
  <2>2. PICK n \in Differ : \A m \in Differ : n <= m
    <3> HIDE DEF Differ
    <3>1. QED
      BY <2>1, SmallestOf
  <2>3. \A k \in 1 .. n - 1 : Same(k)
    <3> SUFFICES ASSUME NEW k \in 1 .. n - 1, ~Same(k) PROVE FALSE
      OBVIOUS
    <3>1. n \in Nat /\ k \in Nat /\ k < n
      BY <2>1
    <3>2. k \in DOMAIN a \cup DOMAIN b
      BY <1>1, <3>1
    <3>3. k \in Differ
      BY <3>2
    <3>4. QED
      BY <2>2, <3>1, <3>3
  <2>4. CASE n \in DOMAIN a
    BY <2>3, <2>4, NoFirstDifference
  <2>5. CASE n \in DOMAIN b
    BY <2>3, <2>5, NoFirstDifference
  <2>6. QED
    BY <2>4, <2>5
<1>3. DOMAIN a = DOMAIN b /\ \A n \in DOMAIN a : a[n] = b[n]
  BY <1>2
<1> HIDE DEF Differ
<1>4. QED
  BY <1>1, <1>3

\* What is collected is in order, and comes before what hangs on the stack; of
\* that, what hangs higher up comes first.
OrderInv ==
    tree # Nil =>
        /\ InOrder(tree, collected)
        /\ \A m \in visited : \A k \in DOMAIN stack : \A n \in PartOf(tree, stack[k]) :
              TakenBefore(tree, m, n)
        /\ \A k, l \in DOMAIN stack : k < l =>
              \A m \in PartOf(tree, stack[l]) : \A n \in PartOf(tree, stack[k]) :
                  TakenBefore(tree, m, n)

LEMMA ConcatenationPlaces ==
  ASSUME NEW S, NEW a \in Seq(S), NEW b \in Seq(S)
  PROVE  /\ Len(a) \in Nat /\ DOMAIN a = 1 .. Len(a)
         /\ Len(b) \in Nat /\ DOMAIN b = 1 .. Len(b)
         /\ DOMAIN (a \o b) = 1 .. Len(a) + Len(b)
         /\ \A i \in 1 .. Len(a) + Len(b) :
               (a \o b)[i] = IF i <= Len(a) THEN a[i] ELSE b[i - Len(a)]
  OBVIOUS

LEMMA CallOrders ==
  ASSUME WalkInv, NEW t \in Trees, Call(t)
  PROVE  OrderInv'
<1>1. /\ tree' = t /\ visited' = {} /\ collected' = <<>>
      /\ stack' = <<>> \/ stack' = <<t.root>>
  BY TreesAre DEF WalkInv, NothingYet, Call
<1>2. DOMAIN collected' = {} /\ DOMAIN stack' \subseteq {1}
  BY <1>1
<1>3. QED
  BY <1>1, <1>2 DEF OrderInv, InOrder

LEMMA VisitOrders ==
  ASSUME WalkInv, OrderInv, Visit
  PROVE  OrderInv'
<1>1. PICK m \in Modules : Popped(m) /\ visited' = visited \cup {m}
                            /\ collected' = collected \o ResourcesOf(m)
  BY DEF Visit
<1> DEFINE c == tree.children[m]
           s == Front(stack)
<1>2. /\ tree \in Trees /\ tree # Nil /\ tree' = tree
      /\ stack # <<>> /\ stack \in Seq(Modules) /\ collected \in Seq(Resources)
      /\ visited \in SUBSET Modules /\ c \in Seq(Modules)
  BY TreesAre DEF Visit, WalkInv, WalkTypeOK, NothingYet
<1>3. Len(stack) \in Nat /\ Len(stack) # 0 /\ DOMAIN stack = 1 .. Len(stack)
  BY <1>2
<1>4. m = stack[Len(stack)] /\ Len(stack) \in DOMAIN stack /\ stack' = s \o c
  BY <1>1, <1>3 DEF Popped, Last
<1>5. /\ s \in Seq(Modules) /\ Len(s) = Len(stack) - 1
      /\ \A k \in 1 .. Len(stack) - 1 : s[k] = stack[k]
  BY <1>2, <1>3 DEF Front
\* Each place of the new stack is one of the old or a child of m.
<1>6. \A k \in DOMAIN stack' :
         \/ k \in DOMAIN stack /\ k < Len(stack) /\ stack'[k] = stack[k]
         \/ /\ k >= Len(stack) /\ k - Len(s) \in DOMAIN c
            /\ stack'[k] = c[k - Len(s)]
  <2> HIDE DEF c, s
  <2>1. /\ Len(s) \in Nat /\ DOMAIN c = 1 .. Len(c) /\ Len(c) \in Nat
        /\ DOMAIN (s \o c) = 1 .. Len(s) + Len(c)
        /\ \A k \in 1 .. Len(s) + Len(c) :
              (s \o c)[k] = IF k <= Len(s) THEN s[k] ELSE c[k - Len(s)]
    BY <1>2, <1>5, ConcatenationPlaces
  <2>2. ASSUME NEW k \in DOMAIN (s \o c), k <= Len(s)
        PROVE  k \in DOMAIN stack /\ k < Len(stack) /\ (s \o c)[k] = stack[k]
    BY <1>3, <1>5, <2>1, <2>2
  <2>3. ASSUME NEW k \in DOMAIN (s \o c), ~(k <= Len(s))
        PROVE  k >= Len(stack) /\ k - Len(s) \in DOMAIN c /\ (s \o c)[k] = c[k - Len(s)]
    BY <1>3, <1>5, <2>1, <2>3
  <2>4. QED
    BY <1>4, <2>2, <2>3
<1>7. \A i \in DOMAIN c : PartOf(tree, c[i]) \subseteq PartOf(tree, m)
  BY <1>2, ChildsPart
<1>8. m \in PartOf(tree, m)
  BY <1>2, PartIs
<1>9. DOMAIN stack' \subseteq Int
  <2> HIDE DEF c, s
  <2>1. QED
    BY <1>2, <1>4, <1>5
<1>10. /\ \A x \in visited : \A k \in DOMAIN stack : \A n \in PartOf(tree, stack[k]) :
             TakenBefore(tree, x, n)
       /\ \A k, l \in DOMAIN stack : k < l =>
             \A x \in PartOf(tree, stack[l]) : \A n \in PartOf(tree, stack[k]) :
                 TakenBefore(tree, x, n)
       /\ InOrder(tree, collected)
  BY <1>2 DEF OrderInv
<1>11. ASSUME NEW x \in visited', NEW k \in DOMAIN stack', NEW n \in PartOf(tree, stack'[k])
       PROVE  TakenBefore(tree, x, n)
  <2>1. CASE x \in visited
    BY <1>4, <1>6, <1>7, <1>10, <2>1
  <2>2. CASE x = m /\ k \in DOMAIN stack /\ k < Len(stack) /\ stack'[k] = stack[k]
    BY <1>4, <1>8, <1>10, <2>2
  <2>3. CASE x = m /\ k - Len(s) \in DOMAIN c /\ stack'[k] = c[k - Len(s)]
    BY <2>3 DEF TakenBefore
  <2>4. QED
    BY <1>1, <1>6, <2>1, <2>2, <2>3
<1>12. ASSUME NEW k \in DOMAIN stack', NEW l \in DOMAIN stack', k < l,
              NEW x \in PartOf(tree, stack'[l]), NEW n \in PartOf(tree, stack'[k])
       PROVE  TakenBefore(tree, x, n)
  <2>1. CASE l \in DOMAIN stack /\ l < Len(stack) /\ stack'[l] = stack[l]
    <3>1. k \in DOMAIN stack /\ stack'[k] = stack[k]
      BY <1>3, <1>6, <1>9, <1>12, <2>1
    <3>2. QED
      BY <1>10, <1>12, <2>1, <3>1
  <2>2. CASE /\ l - Len(s) \in DOMAIN c /\ stack'[l] = c[l - Len(s)]
             /\ k \in DOMAIN stack /\ k < Len(stack) /\ stack'[k] = stack[k]
    <3>1. x \in PartOf(tree, m)
      BY <1>7, <2>2
    <3>2. QED
      BY <1>4, <1>10, <2>2, <3>1
  <2>3. CASE /\ l - Len(s) \in DOMAIN c /\ stack'[l] = c[l - Len(s)]
             /\ k - Len(s) \in DOMAIN c /\ stack'[k] = c[k - Len(s)]
    <3>1. k - Len(s) < l - Len(s)
      BY <1>3, <1>5, <1>9, <1>12
    <3>2. x \in PartOf(tree, c[l - Len(s)]) /\ n \in PartOf(tree, c[k - Len(s)])
      BY <2>3
    <3> HIDE DEF s
    <3>3. QED
      BY <2>3, <3>1, <3>2 DEF TakenBefore
  <2>4. QED
    BY <1>6, <2>1, <2>2, <2>3
<1>13. InOrder(tree, collected')
  <2> DEFINE r == ResourcesOf(m)
  <2>1. /\ r \in Seq(Resources) /\ \A i \in DOMAIN r : r[i] = <<m, i>>
    <3>1. tree.modes[m] \in Seq({"managed", "data"})
      BY <1>2, TreesAre
    <3>2. r = [i \in 1 .. Len(tree.modes[m]) |-> <<m, i>>] /\ Len(tree.modes[m]) \in Nat
      BY <3>1 DEF ResourcesOf
    <3>3. QED
      BY <3>2 DEF Resources
  <2>2. \A i \in DOMAIN collected : collected[i][1] \in visited
    <3>1. Range(collected) =
            UNION {{<<q, i>> : i \in DOMAIN tree.modes[q]} : q \in visited}
      BY <1>2 DEF WalkInv, CollectedIsVisited
    <3>2. \A i \in DOMAIN collected : collected[i] \in Range(collected)
      BY DEF Range
    <3>3. \A y \in UNION {{<<q, i>> : i \in DOMAIN tree.modes[q]} : q \in visited} :
             y[1] \in visited
      OBVIOUS
    <3>4. QED
      BY <3>1, <3>2, <3>3
  <2>3. \A x \in visited : TakenBefore(tree, x, m)
    BY <1>4, <1>8, <1>10
  <2> HIDE DEF r
  <2>4. /\ Len(collected) \in Nat /\ DOMAIN collected = 1 .. Len(collected)
        /\ DOMAIN (collected \o r) = 1 .. Len(collected) + Len(r)
        /\ \A i \in DOMAIN (collected \o r) :
              \/ i \in DOMAIN collected /\ (collected \o r)[i] = collected[i]
              \/ /\ i > Len(collected) /\ i - Len(collected) \in DOMAIN r
                 /\ (collected \o r)[i] = r[i - Len(collected)]
    BY <1>2, <2>1
  <2> SUFFICES ASSUME NEW i \in DOMAIN (collected \o r), NEW j \in DOMAIN (collected \o r), i < j
               PROVE  ComesBefore(tree, (collected \o r)[i], (collected \o r)[j])
    BY <1>1 DEF InOrder, r
  <2>5. CASE j \in DOMAIN collected /\ (collected \o r)[j] = collected[j]
    <3>1. i \in DOMAIN collected /\ (collected \o r)[i] = collected[i]
      BY <2>4, <2>5
    <3>2. QED
      BY <1>10, <2>5, <3>1 DEF InOrder
  <2>6. CASE /\ i \in DOMAIN collected /\ (collected \o r)[i] = collected[i]
             /\ j - Len(collected) \in DOMAIN r
             /\ (collected \o r)[j] = r[j - Len(collected)]
    <3>1. collected[i][1] \in visited /\ r[j - Len(collected)][1] = m
      BY <2>1, <2>2, <2>6
    <3>2. QED
      BY <2>3, <2>6, <3>1 DEF ComesBefore
  <2>7. CASE /\ i - Len(collected) \in DOMAIN r
             /\ (collected \o r)[i] = r[i - Len(collected)]
             /\ j - Len(collected) \in DOMAIN r
             /\ (collected \o r)[j] = r[j - Len(collected)]
    <3>1. /\ (collected \o r)[i] = <<m, i - Len(collected)>>
          /\ (collected \o r)[j] = <<m, j - Len(collected)>>
      BY <2>1, <2>7
    <3>2. i - Len(collected) < j - Len(collected)
      BY <2>4
    <3>3. QED
      BY <3>1, <3>2 DEF ComesBefore
  <2>8. QED
    BY <2>4, <2>5, <2>6, <2>7
<1>14. QED
  BY <1>2, <1>11, <1>12, <1>13 DEF OrderInv

LEMMA StepOrders == WalkInv /\ OrderInv /\ [WalkNext]_walkVars => OrderInv'
<1> SUFFICES ASSUME WalkInv, OrderInv, [WalkNext]_walkVars PROVE OrderInv'
  OBVIOUS
<1>1. ASSUME NEW t \in Trees, Call(t) PROVE OrderInv'
  BY <1>1, CallOrders
<1>2. CASE Visit
  BY <1>2, VisitOrders
<1>3. CASE Return \/ UNCHANGED walkVars
  BY <1>3 DEF Return, walkVars, OrderInv
<1>4. QED
  BY <1>1, <1>2, <1>3 DEF WalkNext, WalkStep

-----------------------------------------------------------------------------
(***************************************************************************)
(* The list returned.  FoldLeft takes the highest position first; what it  *)
(* makes of the first n elements is Kept[1 .. n].                          *)
(***************************************************************************)
Kept(s) ==
    CHOOSE g : g = [t \in SUBSET DOMAIN s |->
                       IF t = {} THEN <<>> ELSE WithManaged(g[t \ {Max(t)}], s[Max(t)])]

LEMMA FoldIsKept ==
  ASSUME NEW s
  PROVE  FoldLeft(WithManaged, <<>>, s) = Kept(s)[DOMAIN s]
  BY DEF FoldLeft, MapThenFoldSet, Kept

LEMMA MaxIsIn ==
  ASSUME NEW n \in Nat, NEW t \in SUBSET (1 .. n), t # {}
  PROVE  Max(t) \in t /\ \A x \in t : x <= Max(t)
<1> DEFINE below == {n - x : x \in t}
<1>1. below \in SUBSET Nat /\ below # {}
  <2>1. \A x \in t : n - x \in Nat
    OBVIOUS
  <2>2. \E x \in t : n - x \in below
    OBVIOUS
  <2>3. QED
    BY <2>1, <2>2
<1>2. PICK m \in below : \A l \in below : m <= l
  <2> HIDE DEF below
  <2>1. QED
    BY <1>1, SmallestOf
<1>3. \E y \in t : \A x \in t : y >= x
  BY <1>2
<1>4. QED
  BY <1>3 DEF Max

LEMMA KeptUnfolds ==
  ASSUME NEW s \in Seq(Resources)
  PROVE  /\ Kept(s)[{}] = <<>>
         /\ \A n \in Nat : n + 1 <= Len(s) =>
               Kept(s)[1 .. n + 1] = WithManaged(Kept(s)[1 .. n], s[n + 1])
<1> DEFINE D == 1 .. Len(s)
           V == Seq(Resources)
           pick == [t \in SUBSET D |-> Max(t)]
           step == [i \in D |-> [k \in V |-> WithManaged(k, s[i])]]
<1>1. DOMAIN s = D /\ Len(s) \in Nat /\ IsFiniteSet(D) /\ <<>> \in V
      /\ \A i \in D : s[i] \in Resources
  BY FS_Interval
<1>2. PicksFrom(pick, D)
  BY <1>1, MaxIsIn DEF PicksFrom
<1>3. step \in [D -> [V -> V]]
  <2>1. \A i \in D : \A k \in V : WithManaged(k, s[i]) \in V
    BY <1>1 DEF WithManaged
  <2> HIDE DEF V
  <2>2. QED
    BY <2>1
<1>4. \A t \in SUBSET D : pick[t] = Max(t)
  OBVIOUS
<1>5. \A i \in D : \A k \in V : step[i][k] = WithManaged(k, s[i])
  OBVIOUS
<1> DEFINE none == <<>>
<1>6. PICK g \in [SUBSET D -> V] : Unfolds(g, none, pick, step, D)
  <2>1. none \in V
    BY <1>1
  <2> HIDE DEF pick, step, none, V, D
  <2>2. QED
    BY <1>1, <1>2, <1>3, <2>1, FoldExists
<1> HIDE DEF pick, step, V
<1>7. \A t \in SUBSET D :
          g[t] = IF t = {} THEN <<>> ELSE WithManaged(g[t \ {Max(t)}], s[Max(t)])
  <2> SUFFICES ASSUME NEW t \in SUBSET D, t # {}
               PROVE  g[t] = WithManaged(g[t \ {Max(t)}], s[Max(t)])
    BY <1>6 DEF Unfolds
  <2>1. g[t] = step[Max(t)][g[t \ {Max(t)}]]
    BY <1>4, <1>6 DEF Unfolds
  <2>2. Max(t) \in D /\ g[t \ {Max(t)}] \in V
    BY <1>2, <1>4 DEF PicksFrom
  <2>3. QED
    BY <1>5, <2>1, <2>2
<1>8. g = [t \in SUBSET DOMAIN s |->
              IF t = {} THEN <<>> ELSE WithManaged(g[t \ {Max(t)}], s[Max(t)])]
  BY <1>1, <1>7
<1> DEFINE h == Kept(s)
<1>9. h = [t \in SUBSET DOMAIN s |->
              IF t = {} THEN <<>> ELSE WithManaged(h[t \ {Max(t)}], s[Max(t)])]
  BY <1>8 DEF Kept
<1> HIDE DEF h
<1>10. ASSUME NEW n \in Nat, n + 1 <= Len(s) PROVE h[1 .. n + 1] = WithManaged(h[1 .. n], s[n + 1])
  <2> DEFINE t == 1 .. n + 1
  <2>1. t \in SUBSET D /\ t # {} /\ n + 1 \in t /\ \A x \in t : x <= n + 1
    BY <1>1, <1>10
  <2>2. Max(t) = n + 1
    <3>1. Max(t) \in t /\ \A x \in t : x <= Max(t)
      BY <1>1, <2>1, MaxIsIn
    <3>2. QED
      BY <2>1, <3>1
  <2>3. t \ {n + 1} = 1 .. n
    OBVIOUS
  <2> HIDE DEF t
  <2>4. h[t] = WithManaged(h[t \ {Max(t)}], s[Max(t)])
    BY <1>1, <1>9, <2>1
  <2>5. QED
    BY <2>2, <2>3, <2>4 DEF t
<1>11. h[{}] = <<>>
  BY <1>9
<1>12. QED
  BY <1>10, <1>11 DEF h

\* The managed elements, each of them once if each was there once, and in order
\* if they were.
LEMMA ManagedAreKept ==
  ASSUME NEW s \in Seq(Resources)
  PROVE  LET kept == FoldLeft(WithManaged, <<>>, s)
         IN  /\ kept \in Seq(Resources)
             /\ Range(kept) = {r \in Range(s) : IsManaged(r)}
             /\ IsInjective(s) => IsInjective(kept)
             /\ InOrder(tree, s) => InOrder(tree, kept)
<1> DEFINE h == Kept(s)
           Good(k, n) == /\ k \in Seq(Resources)
                         /\ Range(k) = {r \in {s[i] : i \in 1 .. n} : IsManaged(r)}
                         /\ IsInjective(s) => IsInjective(k)
                         /\ InOrder(tree, s) => InOrder(tree, k)
           N == {n \in Nat : n <= Len(s) => Good(h[1 .. n], n)}
<1>1. /\ DOMAIN s = 1 .. Len(s) /\ Len(s) \in Nat
      /\ \A i \in 1 .. Len(s) : s[i] \in Resources
  OBVIOUS
<1>2. 0 \in N
  <2>1. 1 .. 0 = {} /\ h[{}] = <<>>
    BY KeptUnfolds
  <2>2. h[1 .. 0] = <<>>
    BY <2>1
  <2>3. Good(<<>>, 0)
    BY DEF Range, IsInjective, InOrder
  <2> HIDE DEF Good, h
  <2>4. QED
    BY <2>2, <2>3
<1>3. ASSUME NEW n \in N PROVE n + 1 \in N
  <2>1. n \in Nat
    OBVIOUS
  <2> DEFINE k == h[1 .. n]
             r == s[n + 1]
  <2>2. SUFFICES ASSUME n + 1 <= Len(s) PROVE Good(h[1 .. n + 1], n + 1)
    BY <2>1
  <2>3. Good(k, n)
    BY <1>1, <2>1, <2>2
  <2>4. h[1 .. n + 1] = WithManaged(k, r)
    BY <2>1, <2>2, KeptUnfolds
  <2>5. r \in Resources /\ {s[i] : i \in 1 .. n + 1} = {s[i] : i \in 1 .. n} \cup {r}
    BY <1>1, <2>1, <2>2
  <2> HIDE DEF k, h
  <2>6. Good(WithManaged(k, r), n + 1)
    <3>1. CASE ~IsManaged(r)
      BY <2>3, <2>5, <3>1 DEF WithManaged
    <3>2. CASE IsManaged(r)
      <4>1. WithManaged(k, r) = k \o <<r>>
        BY <2>3, <2>5, <3>2 DEF WithManaged
      <4>2. <<r>> \in Seq(Resources) /\ Range(<<r>>) = {r} /\ IsInjective(<<r>>)
        BY <2>5 DEF Range, IsInjective
      <4>3. k \o <<r>> \in Seq(Resources) /\ Range(k \o <<r>>) = Range(k) \cup {r}
        <5> DEFINE e == <<r>>
        <5>1. k \in Seq(Resources) /\ e \in Seq(Resources) /\ Range(e) = {r}
          BY <2>3, <4>2
        <5> HIDE DEF e
        <5>2. k \o e \in Seq(Resources) /\ Range(k \o e) = Range(k) \cup {r}
          BY <5>1, ConcatenationRange
        <5>3. QED
          BY <5>2 DEF e
      <4>4. IsInjective(s) => IsInjective(k \o <<r>>)
        <5> SUFFICES ASSUME IsInjective(s) PROVE IsInjective(k \o <<r>>)
          OBVIOUS
        <5>1. r \notin {s[i] : i \in 1 .. n}
          BY <1>1, <2>1, <2>2 DEF IsInjective
        <5>2. Range(k) \cap Range(<<r>>) = {}
          BY <2>3, <4>2, <5>1
        <5>3. QED
          BY <2>3, <4>2, <5>2, ConcatenationInjective
      <4>5. {q \in {s[i] : i \in 1 .. n + 1} : IsManaged(q)} = Range(k) \cup {r}
        BY <2>3, <2>5, <3>2
      <4>6. InOrder(tree, s) => InOrder(tree, k \o <<r>>)
        <5> SUFFICES ASSUME InOrder(tree, s) PROVE InOrder(tree, k \o <<r>>)
          OBVIOUS
        <5>1. InOrder(tree, k) /\ \A q \in Range(k) : ComesBefore(tree, q, r)
          BY <1>1, <2>1, <2>2, <2>3 DEF InOrder
        <5>2. \A i \in DOMAIN k : ComesBefore(tree, k[i], r)
          BY <5>1 DEF Range
        <5> DEFINE e == <<r>>
        <5>3. k \in Seq(Resources) /\ e \in Seq(Resources) /\ Len(e) = 1 /\ e[1] = r
          BY <2>3, <4>2
        <5> HIDE DEF e
        <5>4. \A i \in DOMAIN (k \o e) :
                 \/ i \in DOMAIN k /\ i <= Len(k) /\ (k \o e)[i] = k[i]
                 \/ i = Len(k) + 1 /\ (k \o e)[i] = r
          BY <5>3, ConcatenationPlaces
        <5>5. DOMAIN (k \o e) \subseteq Int /\ Len(k) \in Nat
          BY <5>3, ConcatenationPlaces
        <5>6. InOrder(tree, k \o e)
          <6> SUFFICES ASSUME NEW i \in DOMAIN (k \o e), NEW j \in DOMAIN (k \o e), i < j
                       PROVE  ComesBefore(tree, (k \o e)[i], (k \o e)[j])
            BY DEF InOrder
          <6>1. i \in DOMAIN k /\ (k \o e)[i] = k[i]
            BY <5>4, <5>5
          <6>2. QED
            BY <5>1, <5>2, <5>4, <6>1 DEF InOrder
        <5>7. QED
          BY <5>6 DEF e
      <4>7. QED
        BY <4>1, <4>3, <4>4, <4>5, <4>6
    <3>3. QED
      BY <3>1, <3>2
  <2>7. QED
    BY <2>4, <2>6
<1>4. N = Nat
  <2> HIDE DEF N
  <2>1. N \in SUBSET Nat
    BY DEF N
  <2>2. QED
    BY <1>2, <1>3, <2>1, ByInduction
<1>5. Good(h[1 .. Len(s)], Len(s))
  <2> HIDE DEF Good, h
  <2>1. Len(s) \in N
    BY <1>1, <1>4
  <2>2. QED
    BY <1>1, <2>1
<1>6. FoldLeft(WithManaged, <<>>, s) = h[1 .. Len(s)]
  BY <1>1, FoldIsKept
<1>7. Range(s) = {s[i] : i \in 1 .. Len(s)}
  BY <1>1 DEF Range
<1> HIDE DEF h
<1>8. QED
  BY <1>5, <1>6, <1>7

-----------------------------------------------------------------------------
(***************************************************************************)
(* The two together.  A walk begins only with an accepted state, and the   *)
(* loader is then at its end and writes nothing more.                      *)
(***************************************************************************)
WalkOfAccepted ==
    tree # Nil => outcome = "accepted" /\ kind = "state" /\ tree = loaded.body

ReturnedAreManaged ==
    resources # Nil =>
        /\ Walked
        /\ IsInjective(resources)
        /\ Range(resources) = {r \in Range(collected) : IsManaged(r)}
        /\ InOrder(tree, resources)

IngestionInv == LoadInv /\ WalkInv /\ OrderInv /\ WalkOfAccepted /\ ReturnedAreManaged

LEMMA LoadingEnds == LoadInv /\ outcome # "running" => ~(LoadStep \/ Edit)
  BY DEF LoadInv, EndsOnce, LoadStep, Edit, Replace, Rewrite, Stat, IsDir, IsDirRaises, Open, Read,
         Goto, Parse, Validate

\* A state that is accepted is one of those considered.
LEMMA AcceptedIsTree ==
  ASSUME LoadInv, outcome = "accepted", kind = "state"
  PROVE  /\ loaded.body \in Trees
         /\ \/ rewritten
            \/ \E thing \in seen : /\ thing.node = "file" /\ thing.text.form = "object"
                                   /\ thing.text = loaded
<1>1. /\ raw \in seen \/ rewritten
      /\ raw \in Things /\ raw.node = "file"
      /\ loaded = raw.text /\ Described(loaded)
  BY DEF LoadInv, HeldWasSeen, LoadTypeOK
<1>2. raw.text.form = "object" /\ raw.text.fits
  BY <1>1 DEF Described
<1>3. QED
  BY <1>1, <1>2, BodiesAssumption

LEMMA IngestionInitKeeps == Init => IngestionInv
<1> SUFFICES ASSUME Init PROVE IngestionInv
  OBVIOUS
<1>1. LoadInv /\ WalkInv
  BY InitLoads, InitWalks DEF Init
<1>2. OrderInv /\ WalkOfAccepted /\ ReturnedAreManaged
  BY DEF Init, WalkInit, OrderInv, WalkOfAccepted, ReturnedAreManaged
<1>3. QED
  BY <1>1, <1>2 DEF IngestionInv

LEMMA IngestionStepKeeps == IngestionInv /\ [Next]_vars => IngestionInv'
<1> SUFFICES ASSUME IngestionInv, [Next]_vars PROVE IngestionInv'
  OBVIOUS
<1>1. LoadInv /\ WalkInv /\ OrderInv /\ WalkOfAccepted /\ ReturnedAreManaged
  BY DEF IngestionInv
<1>2. ASSUME LoadStep \/ Edit, UNCHANGED walkVars PROVE IngestionInv'
  <2>1. LoadInv'
    BY <1>1, <1>2, StepLoads DEF LoadNext
  <2>2. WalkInv' /\ OrderInv'
    BY <1>1, <1>2, StepWalks, StepOrders
  <2>3. tree = Nil /\ resources = Nil
    BY <1>1, <1>2, LoadingEnds DEF WalkOfAccepted, ReturnedAreManaged, Walked
  <2>4. WalkOfAccepted' /\ ReturnedAreManaged'
    BY <1>2, <2>3 DEF walkVars, WalkOfAccepted, ReturnedAreManaged
  <2>5. QED
    BY <2>1, <2>2, <2>4 DEF IngestionInv
<1>3. ASSUME Flatten, UNCHANGED loadVars PROVE IngestionInv'
  <2>1. LoadInv'
    BY <1>1, <1>3, StepLoads
  <2>2. loaded.body \in Trees /\ Call(loaded.body) /\ outcome = "accepted" /\ kind = "state"
    BY <1>1, <1>3, AcceptedIsTree DEF Flatten
  <2>3. WalkInv' /\ OrderInv'
    BY <1>1, <2>2, CallKeeps, CallOrders
  <2>4. WalkOfAccepted'
    BY <1>3, <2>2 DEF WalkOfAccepted, Call, loadVars
  <2>5. resources' = Nil
    BY <1>1, <2>2 DEF ReturnedAreManaged, Walked, Call
  <2>6. QED
    BY <2>1, <2>3, <2>4, <2>5 DEF IngestionInv, ReturnedAreManaged
<1>4. ASSUME Visit, UNCHANGED loadVars PROVE IngestionInv'
  <2>1. LoadInv' /\ WalkInv' /\ OrderInv'
    BY <1>1, <1>4, StepLoads, VisitKeeps, VisitOrders
  <2>2. resources' = Nil
    BY <1>1, <1>4 DEF ReturnedAreManaged, Walked, Visit
  <2>3. WalkOfAccepted'
    BY <1>1, <1>4 DEF WalkOfAccepted, Visit, loadVars
  <2>4. QED
    BY <2>1, <2>2, <2>3 DEF IngestionInv, ReturnedAreManaged
<1>5. ASSUME Return, UNCHANGED loadVars PROVE IngestionInv'
  <2>1. LoadInv' /\ WalkInv' /\ OrderInv'
    BY <1>1, <1>5, StepLoads, StepWalks, StepOrders DEF WalkNext, WalkStep
  <2>2. collected \in Seq(Resources) /\ IsInjective(collected) /\ InOrder(tree, collected)
    BY <1>1, <1>5 DEF WalkInv, WalkTypeOK, CollectedIsVisited, OrderInv, Return
  <2>3. /\ IsInjective(resources')
        /\ Range(resources') = {r \in Range(collected) : IsManaged(r)}
        /\ InOrder(tree, resources')
    BY <1>5, <2>2, ManagedAreKept DEF Return
  <2>4. ReturnedAreManaged'
    BY <1>5, <2>3 DEF ReturnedAreManaged, Return, Walked, IsManaged
  <2>5. WalkOfAccepted'
    BY <1>1, <1>5 DEF WalkOfAccepted, Return, loadVars
  <2>6. QED
    BY <2>1, <2>4, <2>5 DEF IngestionInv
<1>6. ASSUME UNCHANGED vars PROVE IngestionInv'
  <2>1. UNCHANGED loadVars /\ UNCHANGED walkVars
    BY <1>6 DEF vars
  <2>2. LoadInv' /\ WalkInv' /\ OrderInv'
    BY <1>1, <2>1, StepLoads, StepWalks, StepOrders
  <2>3. WalkOfAccepted' /\ ReturnedAreManaged'
    BY <1>1, <2>1
    DEF loadVars, walkVars, WalkOfAccepted, ReturnedAreManaged, Walked, IsManaged
  <2>4. QED
    BY <2>2, <2>3 DEF IngestionInv
<1>7. QED
  BY <1>2, <1>3, <1>4, <1>5, <1>6 DEF Next, Step, WalkStep

LEMMA IngestionInvHolds == Spec => []IngestionInv
  BY IngestionInitKeeps, IngestionStepKeeps, PTL DEF Spec

\* Whoever replaces the file while it is loaded, the resources drift detection
\* compares are the managed ones, all of them and each once, of one state that
\* was in the file as a whole at one moment, unless it was written into while it
\* was read (R9).
THEOREM StateIsAlwaysOfOneMoment == Spec => []StateIsOfOneMoment
<1>1. IngestionInv => StateIsOfOneMoment
  <2> SUFFICES ASSUME IngestionInv, resources # Nil
               PROVE  /\ IsInjective(resources)
                      /\ \/ rewritten
                         \/ \E thing \in seen :
                               thing.node = "file" /\ thing.text.form = "object"
                                 /\ Range(resources) = ManagedOf(thing.text.body)
    BY DEF StateIsOfOneMoment
  <2>1. Walked /\ IsInjective(resources)
        /\ Range(resources) = {r \in Range(collected) : IsManaged(r)}
    BY DEF IngestionInv, ReturnedAreManaged
  <2>2. Range(collected) = AllResources(tree)
    BY <2>1, WalkedAreAll DEF IngestionInv, EveryResourceOnce
  <2>3. outcome = "accepted" /\ kind = "state" /\ tree = loaded.body
    BY <2>1 DEF IngestionInv, WalkOfAccepted, Walked
  <2>4. ASSUME ~rewritten
        PROVE  \E thing \in seen : /\ thing.node = "file" /\ thing.text.form = "object"
                                   /\ Range(resources) = ManagedOf(thing.text.body)
    <3>1. PICK thing \in seen :
              thing.node = "file" /\ thing.text.form = "object" /\ thing.text = loaded
      BY <2>3, <2>4, AcceptedIsTree DEF IngestionInv
    <3>2. Range(resources) = ManagedOf(thing.text.body)
      BY <2>1, <2>2, <2>3, <3>1 DEF ManagedOf, IsManaged
    <3>3. QED
      BY <3>1, <3>2
  <2>5. QED
    BY <2>1, <2>4
<1>2. QED
  BY <1>1, IngestionInvHolds, PTL

\* What is returned are the managed resources depth first, siblings reversed,
\* however the state nests its modules.
THEOREM WalkIsAlwaysDepthFirst == Spec => []WalkIsDepthFirst
<1>1. IngestionInv => WalkIsDepthFirst
  <2> SUFFICES ASSUME IngestionInv, resources # Nil
               PROVE  Range(resources) = ManagedOf(tree) /\ InOrder(tree, resources)
    BY DEF WalkIsDepthFirst
  <2>1. /\ Walked /\ InOrder(tree, resources)
        /\ Range(resources) = {r \in Range(collected) : IsManaged(r)}
    BY DEF IngestionInv, ReturnedAreManaged
  <2>2. Range(collected) = AllResources(tree)
    BY <2>1, WalkedAreAll DEF IngestionInv, EveryResourceOnce
  <2>3. QED
    BY <2>1, <2>2 DEF ManagedOf, IsManaged
<1>2. QED
  BY <1>1, IngestionInvHolds, PTL

\* What holds of the loader and of the walk by themselves holds of the two.
THEOREM PartsHoldTogether ==
  Spec => [](LoadTypeOK /\ AcceptedWasThere /\ RefusalIsEarned /\ CapIsEnforced
               /\ EveryResourceOnce)
<1>1. IngestionInv => /\ LoadTypeOK /\ AcceptedWasThere /\ RefusalIsEarned /\ CapIsEnforced
                      /\ EveryResourceOnce
  BY LoadInvSuffices, WalkedAreAll DEF IngestionInv
<1>2. QED
  BY <1>1, IngestionInvHolds, PTL

-----------------------------------------------------------------------------
(***************************************************************************)
(* The steps left, of loading and of walking; a document holds finitely    *)
(* many modules.                                                           *)
(***************************************************************************)
LoadStepsLeft ==
    [stat |-> 6, is_dir |-> 5, read |-> 4, reading |-> 3, parse |-> 2, validate |-> 1, end |-> 0]

WalkStepsLeft ==
    IF tree = Nil THEN Cardinality(Modules) + 2
    ELSE Cardinality(Modules \ visited) + (IF resources = Nil THEN 1 ELSE 0)

StepsLeft == LoadStepsLeft[at] + WalkStepsLeft

LEMMA LoadAdvances ==
  ASSUME LoadInv, LoadStep
  PROVE  LoadStepsLeft[at'] \in Nat /\ LoadStepsLeft[at'] < LoadStepsLeft[at]
  BY DEF LoadStep, Stat, IsDir, IsDirRaises, Open, Read, Parse, Validate, Goto, End, Refused, Escapes,
         Accepted, LoadStepsLeft

LEMMA WalkIsCounted ==
  ASSUME IsFiniteSet(Modules)
  PROVE  WalkStepsLeft \in 0 .. Cardinality(Modules) + 2 /\ Cardinality(Modules) \in Nat
<1>1. IsFiniteSet(Modules \ visited) /\ Cardinality(Modules \ visited) <= Cardinality(Modules)
  <2>1. Modules \ visited \in SUBSET Modules
    OBVIOUS
  <2>2. QED
    BY <2>1, FS_Subset
<1>2. Cardinality(Modules \ visited) \in Nat /\ Cardinality(Modules) \in Nat
  BY <1>1, FS_CardinalityType
<1>3. QED
  BY <1>1, <1>2 DEF WalkStepsLeft

LEMMA WalkAdvances ==
  ASSUME IngestionInv, IsFiniteSet(Modules), Flatten \/ WalkStep
  PROVE  \/ WalkStepsLeft' \in Nat /\ WalkStepsLeft' < WalkStepsLeft
         \/ UNCHANGED walkVars
<1>1. WalkInv /\ ReturnedAreManaged
  BY DEF IngestionInv
<1>2. IsFiniteSet(Modules \ visited) /\ Cardinality(Modules \ visited) \in Nat
      /\ Cardinality(Modules) \in Nat
  BY FS_Difference, FS_CardinalityType
<1>3. CASE Flatten
  <2>1. tree = Nil /\ tree' \in Trees /\ visited' = {} /\ resources' = Nil
    <3>1. loaded.body \in Trees
      BY <1>3, AcceptedIsTree DEF Flatten, IngestionInv
    <3>2. QED
      BY <1>1, <1>3, <3>1
      DEF Flatten, Call, WalkInv, NothingYet, ReturnedAreManaged, Walked
  <2>2. tree' # Nil
    BY <2>1, TreesAre
  <2>3. Modules \ {} = Modules
    OBVIOUS
  <2>4. WalkStepsLeft' = Cardinality(Modules) + 1 /\ WalkStepsLeft = Cardinality(Modules) + 2
    BY <2>1, <2>2, <2>3 DEF WalkStepsLeft
  <2>5. QED
    BY <1>2, <2>4
<1>4. CASE Visit
  <2>1. PICK m \in Modules : /\ tree' = tree /\ tree \in Trees /\ m \notin visited
                             /\ visited' = visited \cup {m}
    BY <1>1, <1>4, VisitMoves
  <2>2. tree # Nil /\ resources' = resources
    BY <1>4, <2>1, TreesAre DEF Visit
  <2>3. /\ Modules \ visited' = (Modules \ visited) \ {m} /\ m \in Modules \ visited
    BY <2>1
  <2>4. Cardinality(Modules \ visited') = Cardinality(Modules \ visited) - 1
        /\ Cardinality(Modules \ visited') \in Nat
    BY <1>2, <2>3, FS_RemoveElement, FS_CardinalityType
  <2>5. QED
    BY <1>2, <2>1, <2>2, <2>4 DEF WalkStepsLeft
<1>5. CASE Return
  <2>1. /\ tree # Nil /\ resources = Nil /\ UNCHANGED <<tree, stack, visited, collected>>
    BY <1>5 DEF Return
  <2>2. CASE resources' = Nil
    BY <2>1, <2>2 DEF walkVars
  <2>3. CASE resources' # Nil
    BY <1>2, <2>1, <2>3 DEF WalkStepsLeft
  <2>4. QED
    BY <2>2, <2>3
<1>6. QED
  BY <1>3, <1>4, <1>5 DEF WalkStep

\* Loading and walking never go back: each step leaves fewer to come, of at most
\* eight and one for each module, and whoever changes the file meanwhile does not
\* make it more, however often.
THEOREM IngestionAlwaysAdvances ==
  ASSUME IsFiniteSet(Modules)
  PROVE  Spec => /\ [](StepsLeft \in 0 .. Cardinality(Modules) + 8)
                 /\ [][\/ StepsLeft' < StepsLeft
                       \/ Edit /\ StepsLeft' = StepsLeft]_vars
<1>1. ASSUME IngestionInv, [Next]_vars
      PROVE  [\/ StepsLeft' < StepsLeft
              \/ Edit /\ StepsLeft' = StepsLeft]_vars
  <2>1. /\ at \in Places /\ LoadStepsLeft[at] \in Nat /\ LoadInv
    BY <1>1 DEF IngestionInv, LoadInv, LoadTypeOK, Places, LoadStepsLeft
  <2>2. WalkStepsLeft \in Nat
    BY WalkIsCounted
  <2>3. ASSUME UNCHANGED walkVars PROVE WalkStepsLeft' = WalkStepsLeft
    BY <2>3 DEF walkVars, WalkStepsLeft
  <2>4. CASE LoadStep /\ UNCHANGED walkVars
    <3>1. LoadStepsLeft[at'] \in Nat /\ LoadStepsLeft[at'] < LoadStepsLeft[at]
      BY <2>1, <2>4, LoadAdvances
    <3>2. QED
      BY <2>1, <2>2, <2>3, <2>4, <3>1 DEF StepsLeft
  <2>5. CASE (Flatten \/ WalkStep) /\ UNCHANGED loadVars
    <3>1. at' = at
      BY <2>5 DEF loadVars
    <3>2. CASE WalkStepsLeft' \in Nat /\ WalkStepsLeft' < WalkStepsLeft
      BY <2>1, <2>2, <3>1, <3>2 DEF StepsLeft
    <3>3. CASE UNCHANGED walkVars
      BY <2>5, <3>3 DEF vars
    <3>4. QED
      BY <1>1, <2>5, <3>2, <3>3, WalkAdvances
  <2>6. CASE Edit /\ UNCHANGED walkVars
    <3>1. at' = at
      BY <2>6 DEF Edit, Replace, Rewrite
    <3>2. QED
      BY <2>3, <2>6, <3>1 DEF StepsLeft
  <2>7. QED
    BY <1>1, <2>4, <2>5, <2>6 DEF Next, Step
<1>2. ASSUME IngestionInv PROVE StepsLeft \in 0 .. Cardinality(Modules) + 8
  <2>1. LoadStepsLeft[at] \in 0 .. 6
    BY <1>2 DEF IngestionInv, LoadInv, LoadTypeOK, Places, LoadStepsLeft
  <2>2. QED
    BY <2>1, WalkIsCounted DEF StepsLeft
<1>3. QED
  BY <1>1, <1>2, IngestionInvHolds, PTL DEF Spec
=============================================================================
