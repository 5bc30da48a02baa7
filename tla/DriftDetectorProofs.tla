------------------------ MODULE DriftDetectorProofs ------------------------
(***************************************************************************)
(* Proofs about DriftDetector, for every state, every set of AWS objects   *)
(* and any number of changes to them.                                      *)
(***************************************************************************)
EXTENDS DriftDetector, Functions, TLAPS

\* The two attributes of a supported type are all of them.
LEMMA TwoAttributes ==
  \A type \in Supported :
     /\ AttributesOf(type) = {Compared[type][1], Compared[type][2]}
     /\ Compared[type][1] # Compared[type][2]
     /\ AttributesOf(type) \subseteq Attributes
  BY DEF Supported, Compared, AttributesOf, Attributes

LEMMA BucketAttributes ==
  /\ "aws_s3_bucket" \in Supported
  /\ Compared["aws_s3_bucket"] = <<"tags", "versioning">>
  /\ AttributesOf("aws_s3_bucket") = {"tags", "versioning"}
  BY DEF Supported, Compared, AttributesOf

LEMMA LiveObjectsAre ==
  ASSUME NEW type \in Supported, NEW object \in Live(type)
  PROVE  /\ object \in LiveObjects
         /\ object.value \in [AttributesOf(type) -> Values \cup {Blank}]
  BY DEF Live, Gone, LiveObjects

\* The resource the loop is about to compare, and the object AWS has for it.
LEMMA ResourcesAre ==
  ASSUME TypeOK, NEW i \in DOMAIN state, state[i].type \in Supported, state[i].id # Null
  PROVE  /\ i \in 1 .. Len(state) /\ Len(state) \in Nat
         /\ state[i].id \in Ids
         /\ TypeOf[state[i].id] = state[i].type
         /\ Object(i) \in Live(state[i].type)
         /\ Object(i) \in LiveObjects
         /\ Object(i).value \in [AttributesOf(state[i].type) -> Values \cup {Blank}]
<1>1. state \in Seq(Resources)
  BY StatesAssumption DEF TypeOK
<1>2. state[i] \in Resources /\ i \in 1 .. Len(state) /\ Len(state) \in Nat
  BY <1>1
<1>3. state[i].id \in Ids /\ TypeOf[state[i].id] = state[i].type
  BY <1>2 DEF Resources
<1>4. Object(i) \in Live(state[i].type)
  BY <1>3 DEF TypeOK, Object
<1>5. QED
  BY <1>2, <1>3, <1>4, LiveObjectsAre

\* What detect() can report about one resource.
Drifts == [resource : DOMAIN state, kind : {"changed", "missing"},
           attribute : Attributes \cup {Null}]

\* What a comparison files: of every attribute, a drift if and only if the
\* values differ.
LEMMA ComparisonsFile ==
  ASSUME TypeOK, NEW i \in DOMAIN state, state[i].type \in Supported, NEW live
  PROVE  /\ Compare(i, live) \in Seq(Drifts)
         /\ Range(Compare(i, live)) =
               {Changed(i, attribute) : attribute \in
                  {a \in AttributesOf(state[i].type) : Differs(state[i], live, a)}}
<1> DEFINE a == Compared[state[i].type][1]
           b == Compared[state[i].type][2]
           Found == {Changed(i, attribute) : attribute \in
               {c \in AttributesOf(state[i].type) : Differs(state[i], live, c)}}
           FiledA == IF Differs(state[i], live, a) THEN <<Changed(i, a)>> ELSE <<>>
           FiledB == IF Differs(state[i], live, b) THEN <<Changed(i, b)>> ELSE <<>>
<1>1. AttributesOf(state[i].type) = {a, b} /\ {a, b} \subseteq Attributes
  BY TwoAttributes
<1>2. Compare(i, live) = FiledA \o FiledB
  BY DEF Compare
<1>3. FiledA \in Seq(Found) /\ FiledB \in Seq(Found)
  <2>1. Differs(state[i], live, a) => Changed(i, a) \in Found
    BY <1>1
  <2>2. Differs(state[i], live, b) => Changed(i, b) \in Found
    BY <1>1
  <2> HIDE DEF Found
  <2>3. QED
    BY <2>1, <2>2
<1>4. Found \subseteq Drifts
  BY <1>1 DEF Changed, Drifts
<1>5. Compare(i, live) \in Seq(Found)
  BY <1>2, <1>3
<1>6. Compare(i, live) \in Seq(Drifts)
  BY <1>4, <1>5
<1>7. Differs(state[i], live, a) =>
         1 \in DOMAIN Compare(i, live) /\ Compare(i, live)[1] = Changed(i, a)
  BY <1>2
<1>8. Differs(state[i], live, b) =>
         \E n \in DOMAIN Compare(i, live) : Compare(i, live)[n] = Changed(i, b)
  <2>1. CASE Differs(state[i], live, a) /\ Differs(state[i], live, b)
    <3>1. Compare(i, live) = <<Changed(i, a)>> \o <<Changed(i, b)>>
      BY <1>2, <2>1
    <3>2. 2 \in DOMAIN Compare(i, live) /\ Compare(i, live)[2] = Changed(i, b)
      BY <3>1
    <3>3. QED
      BY <3>2
  <2>2. CASE ~Differs(state[i], live, a) /\ Differs(state[i], live, b)
    <3>1. Compare(i, live) = <<>> \o <<Changed(i, b)>>
      BY <1>2, <2>2
    <3>2. 1 \in DOMAIN Compare(i, live) /\ Compare(i, live)[1] = Changed(i, b)
      BY <3>1
    <3>3. QED
      BY <3>2
  <2>3. QED
    BY <2>1, <2>2
<1>9. Range(Compare(i, live)) = Found
  <2>1. Range(Compare(i, live)) \subseteq Found
    <3> HIDE DEF Found
    <3>1. QED
      BY <1>5 DEF Range
  <2>2. \A attribute \in {a, b} : Differs(state[i], live, attribute) =>
            Changed(i, attribute) \in Range(Compare(i, live))
    BY <1>7, <1>8 DEF Range
  <2>3. QED
    BY <1>1, <2>1, <2>2
<1>10. QED
  BY <1>6, <1>9

-----------------------------------------------------------------------------
LEMMA TypeStep == TypeOK /\ [Next]_vars => TypeOK'
<1> SUFFICES ASSUME TypeOK, [Next]_vars PROVE TypeOK'
  OBVIOUS
<1>1. /\ Len(state) \in Nat /\ here \in Nat /\ DOMAIN state = 1 .. Len(state)
      /\ drifts \in Seq(Drifts)
  BY StatesAssumption DEF TypeOK, Drifts
<1>2. ASSUME NEW i \in DOMAIN state, SkipUnsupported(i) PROVE TypeOK'
  BY <1>1, <1>2 DEF SkipUnsupported, TypeOK
<1>3. ASSUME NEW i \in DOMAIN state, NoUsableId(i) PROVE TypeOK'
  BY <1>1, <1>3 DEF NoUsableId, Visiting, TypeOK
<1>4. ASSUME NEW i \in DOMAIN state, CallFails(i) PROVE TypeOK'
  BY <1>1, <1>4 DEF CallFails, Visiting, TypeOK
<1>5. ASSUME NEW i \in DOMAIN state, ReadNothing(i) PROVE TypeOK'
  <2>1. Missing(i) \in Drifts
    BY DEF Missing, Drifts
  <2>2. drifts' \in Seq(Drifts)
    BY <1>1, <1>5, <2>1 DEF ReadNothing
  <2>3. Object(i) \in LiveObjects
    BY <1>5, ResourcesAre DEF ReadNothing, Visiting
  <2>4. QED
    BY <1>1, <1>5, <2>2, <2>3 DEF ReadNothing, Visiting, Sight, TypeOK, Drifts
<1>6. ASSUME NEW i \in DOMAIN state, ReadWhole(i) PROVE TypeOK'
  <2>1. state[i].type \in Supported /\ state[i].id # Null
    BY <1>6 DEF ReadWhole, Visiting, Supported, Compared
  <2>2. drifts' \in Seq(Drifts)
    <3>1. Compare(i, Object(i).value) \in Seq(Drifts)
      BY <2>1, ComparisonsFile
    <3>2. drifts' = drifts \o Compare(i, Object(i).value)
      BY <1>6 DEF ReadWhole
    <3>3. QED
      BY <1>1, <3>1, <3>2
  <2>3. Object(i) \in LiveObjects
    BY <2>1, ResourcesAre
  <2>4. QED
    BY <1>1, <1>6, <2>2, <2>3 DEF ReadWhole, Visiting, Sight, TypeOK, Drifts
<1>7. ASSUME NEW i \in DOMAIN state, ReadVersioning(i) PROVE TypeOK'
  <2>1. state[i].type = "aws_s3_bucket" /\ state[i].id # Null
    BY <1>7 DEF ReadVersioning, Visiting
  <2>2. Object(i) \in LiveObjects /\ Object(i).value.versioning \in Values \cup {Blank}
    BY <2>1, BucketAttributes, ResourcesAre
  <2>3. QED
    BY <1>7, <2>2 DEF ReadVersioning, Sight, TypeOK
<1>8. ASSUME NEW i \in DOMAIN state, ReadTagging(i) PROVE TypeOK'
  <2>1. state[i].type \in Supported /\ state[i].id # Null
    BY <1>8, BucketAttributes DEF ReadTagging, Visiting
  <2>2. drifts' \in Seq(Drifts)
    <3>1. Compare(i, [Object(i).value EXCEPT !.versioning = held]) \in Seq(Drifts)
      BY <2>1, ComparisonsFile
    <3>2. drifts' = drifts \o Compare(i, [Object(i).value EXCEPT !.versioning = held])
      BY <1>8 DEF ReadTagging
    <3>3. QED
      BY <1>1, <3>1, <3>2
  <2>3. Object(i) \in LiveObjects
    BY <2>1, ResourcesAre
  <2>4. QED
    BY <1>1, <1>8, <2>2, <2>3 DEF ReadTagging, Visiting, Sight, TypeOK, Drifts
<1>9. ASSUME NEW id \in Ids, Edit(id) PROVE TypeOK'
  <2>1. PICK new \in Live(TypeOf[id]) :
           /\ aws' = [aws EXCEPT ![id] = new]
           /\ seen' = IF here \in DOMAIN state /\ held # Null /\ state[here].id = id
                      THEN [seen EXCEPT ![here] = @ \cup {new}] ELSE seen
    BY <1>9 DEF Edit
  <2>2. new \in LiveObjects
    BY TypesAssumption, LiveObjectsAre
  <2>3. edits' \in 0 .. MaxEdits
    BY <1>9, EditsAssumption DEF Edit, TypeOK
  <2>4. QED
    BY <1>9, <2>1, <2>2, <2>3 DEF Edit, TypeOK
<1>10. CASE UNCHANGED vars
  BY <1>10 DEF vars, TypeOK
<1>11. QED
  BY <1>2, <1>3, <1>4, <1>5, <1>6, <1>7, <1>8, <1>9, <1>10 DEF Next, Detect

LEMMA TypeInit == Init => TypeOK
  BY StatesAssumption, EditsAssumption DEF Init, TypeOK

\* The loop's variables keep their types whatever AWS becomes meanwhile: a drift
\* names a resource of the state and one of the attributes compared, or none.
THEOREM TypeCorrect == Spec => []TypeOK
  BY TypeInit, TypeStep, PTL DEF Spec

-----------------------------------------------------------------------------
(***************************************************************************)
(* Why the report can be trusted.  What is known of every resource the     *)
(* loop has compared is stronger than any one property: there is a moment, *)
(* and for a bucket there are two, at which AWS showed an object that      *)
(* explains the drifts filed about the resource, all of them and no other. *)
(* For this to survive a bucket's second call, the versioning held from    *)
(* its first must be that of an object seen meanwhile.                     *)
(***************************************************************************)
\* The drifts that two sights of an object, the first used for its versioning
\* only, would yield.
Explained(i, early, late) ==
  {Changed(i, attribute) : attribute \in
     {a \in AttributesOf(state[i].type) :
        StateValue(state[i], a) #
           (IF a = "versioning" THEN early.value[a] ELSE late.value[a])}}

Earned(i) ==
  \/ \E live \in seen[i] : ~Visible(live) /\ DriftsOf(i) = {Missing(i)}
  \/ \E early, late \in seen[i] :
        /\ Visible(early) /\ Visible(late)
        /\ state[i].type # "aws_s3_bucket" => early = late
        /\ DriftsOf(i) = Explained(i, early, late)

HeldWasSeen ==
  held # Null =>
     /\ here \in DOMAIN state
     /\ state[here].type = "aws_s3_bucket"
     /\ state[here].id # Null
     /\ \E live \in seen[here] : Visible(live) /\ live.value.versioning = held

DriftInv ==
  /\ TypeOK
  /\ OneFateEach
  /\ HeldWasSeen
  /\ \A i \in Comparisons : Earned(i)

LEMMA RangeOfConcatenation ==
  ASSUME NEW S, NEW s \in Seq(S), NEW t \in Seq(S)
  PROVE  Range(s \o t) = Range(s) \cup Range(t)
<1>1. \A n \in DOMAIN s : n \in DOMAIN (s \o t) /\ (s \o t)[n] = s[n]
  OBVIOUS
<1>2. \A n \in DOMAIN t : Len(s) + n \in DOMAIN (s \o t) /\ (s \o t)[Len(s) + n] = t[n]
  OBVIOUS
<1>3. \A n \in DOMAIN (s \o t) :
         \/ n \in DOMAIN s /\ (s \o t)[n] = s[n]
         \/ n - Len(s) \in DOMAIN t /\ (s \o t)[n] = t[n - Len(s)]
  OBVIOUS
<1> DEFINE u == s \o t
<1>4. (\A n \in DOMAIN s : n \in DOMAIN u /\ u[n] = s[n]) => Range(s) \subseteq Range(u)
  <2> HIDE DEF u
  <2>1. QED
    BY DEF Range
<1>5. (\A n \in DOMAIN t : Len(s) + n \in DOMAIN u /\ u[Len(s) + n] = t[n])
         => Range(t) \subseteq Range(u)
  <2> HIDE DEF u
  <2>1. QED
    BY DEF Range
<1>6. (\A n \in DOMAIN u : \/ n \in DOMAIN s /\ u[n] = s[n]
                           \/ n - Len(s) \in DOMAIN t /\ u[n] = t[n - Len(s)])
         => Range(u) \subseteq Range(s) \cup Range(t)
  <2> HIDE DEF u
  <2>1. QED
    BY DEF Range
<1>7. QED
  BY <1>1, <1>2, <1>3, <1>4, <1>5, <1>6

LEMMA DriftsOfInRange == \A i : DriftsOf(i) = {d \in Range(drifts) : d.resource = i}
  BY DEF DriftsOf, Range

LEMMA PassingCounts ==
  ASSUME TypeOK, NEW i \in DOMAIN state, here = i, here' = here + 1, state' = state
  PROVE  Passed' = Passed \cup {i} /\ i \notin Passed
  BY StatesAssumption DEF TypeOK, Passed

\* The loop passes resource i, filing some drifts of it: what it has earned
\* about the others stays as it is.
LEMMA OthersStayEarned ==
  ASSUME DriftInv, NEW i \in DOMAIN state, here = i, state' = state,
         NEW new \in Seq(Drifts), drifts' = drifts \o new,
         \A d \in Range(new) : d.resource = i,
         \A j \in DOMAIN state \ {i} : seen'[j] = seen[j]
  PROVE  /\ DriftsOf(i)' = Range(new)
         /\ Range(drifts') = Range(drifts) \cup Range(new)
         /\ \A j \in Comparisons : Earned(j)'
<1>1. drifts \in Seq(Drifts)
  BY DEF DriftInv, TypeOK, Drifts
<1>2. Range(drifts') = Range(drifts) \cup Range(new)
  BY <1>1, RangeOfConcatenation
<1>3. i \notin Comparisons /\ \A d \in Range(drifts) : d.resource \in Comparisons
  BY StatesAssumption DEF DriftInv, TypeOK, OneFateEach, Comparisons, Passed, Range
<1>4. \A j : DriftsOf(j)' = {d \in Range(drifts') : d.resource = j}
  BY DEF DriftsOf, Range
<1>5. DriftsOf(i)' = Range(new)
  BY <1>2, <1>3, <1>4
<1>6. ASSUME NEW j \in Comparisons PROVE Earned(j)'
  <2>1. j # i /\ j \in DOMAIN state
    BY <1>3 DEF Comparisons, Passed
  <2>2. DriftsOf(j)' = DriftsOf(j)
    BY <2>1, <1>2, <1>4, DriftsOfInRange
  <2>3. Earned(j)
    BY DEF DriftInv
  <2>4. QED
    BY <2>1, <2>2, <2>3 DEF Earned, Explained, StateValue, Changed, Missing
<1>7. QED
  BY <1>2, <1>5, <1>6

\* Nothing is filed and nothing seen of the resources already passed.
LEMMA NothingFiled ==
  ASSUME DriftInv, UNCHANGED <<state, drifts>>,
         \A j \in Comparisons : seen'[j] = seen[j]
  PROVE  \A j \in Comparisons : Earned(j)'
<1>1. ASSUME NEW j \in Comparisons PROVE Earned(j)'
  <2>1. DriftsOf(j)' = DriftsOf(j)
    BY DEF DriftsOf
  <2>2. Earned(j) /\ seen'[j] = seen[j]
    BY DEF DriftInv
  <2>3. QED
    BY <2>1, <2>2 DEF Earned, Explained, StateValue, Changed, Missing
<1>2. QED
  BY <1>1

\* A comparison of resource i with what two sights of its object showed.
LEMMA ComparingEarns ==
  ASSUME DriftInv, NEW i \in DOMAIN state, here = i, here' = here + 1,
         state[i].type \in Supported, state[i].id # Null,
         NEW value, drifts' = drifts \o Compare(i, value),
         NEW early \in seen'[i], NEW late \in seen'[i],
         Visible(early), Visible(late),
         state[i].type # "aws_s3_bucket" => early = late,
         \A a \in AttributesOf(state[i].type) :
            value[a] = IF a = "versioning" THEN early.value[a] ELSE late.value[a],
         \A j \in DOMAIN state \ {i} : seen'[j] = seen[j],
         UNCHANGED <<state, skipped, errors>>
  PROVE  OneFateEach' /\ \A j \in Comparisons' : Earned(j)'
<1> DEFINE new == Compare(i, value)
<1>1. TypeOK
  BY DEF DriftInv
<1>2. new \in Seq(Drifts) /\ Range(new) = Explained(i, early, late)
  <2>1. \A a \in AttributesOf(state[i].type) :
           Differs(state[i], value, a) <=>
              StateValue(state[i], a) #
                 (IF a = "versioning" THEN early.value[a] ELSE late.value[a])
    BY DEF Differs
  <2>2. /\ new \in Seq(Drifts)
        /\ Range(new) = {Changed(i, attribute) : attribute \in
              {a \in AttributesOf(state[i].type) : Differs(state[i], value, a)}}
    BY <1>1, ComparisonsFile
  <2>3. QED
    BY <2>1, <2>2 DEF Explained
<1>3. \A d \in Range(new) : d.resource = i
  BY <1>2 DEF Explained, Changed
<1>4. drifts' = drifts \o new
  OBVIOUS
<1> HIDE DEF new
<1>5. /\ DriftsOf(i)' = Range(new)
      /\ Range(drifts') = Range(drifts) \cup Range(new)
      /\ \A j \in Comparisons : Earned(j)'
  BY <1>2, <1>3, <1>4, OthersStayEarned
<1>6. Passed' = Passed \cup {i} /\ i \notin Passed
  BY <1>1, PassingCounts
<1>7. Comparisons' = Comparisons \cup {i}
  BY <1>6 DEF DriftInv, OneFateEach, Comparisons
<1>8. OneFateEach'
  <2>1. \A d \in Range(drifts) : d.resource \in Comparisons
    BY DEF Range, DriftInv, OneFateEach
  <2>2. \A d \in Range(drifts') : d.resource \in Comparisons'
    BY <1>3, <1>5, <1>7, <2>1
  <2>3. \A n \in DOMAIN drifts' : drifts'[n].resource \in Comparisons'
    BY <2>2 DEF Range
  <2>4. QED
    BY <1>6, <2>3 DEF DriftInv, OneFateEach
<1>9. Earned(i)'
  <2>1. Explained(i, early, late)' = Explained(i, early, late)
    BY DEF Explained, StateValue, Changed
  <2>2. DriftsOf(i)' = Explained(i, early, late)'
    BY <1>2, <1>5, <2>1
  <2>3. QED
    BY <2>2 DEF Earned, Visible
<1>10. QED
  BY <1>5, <1>7, <1>8, <1>9

-----------------------------------------------------------------------------
LEMMA InvStep == DriftInv /\ [Next]_vars => DriftInv'
<1> SUFFICES ASSUME DriftInv, [Next]_vars PROVE DriftInv'
  OBVIOUS
<1>1. TypeOK' /\ TypeOK
  BY TypeStep DEF DriftInv
<1>2. /\ Len(state) \in Nat /\ here \in Nat /\ DOMAIN state = 1 .. Len(state)
      /\ drifts \in Seq(Drifts)
  BY StatesAssumption, <1>1 DEF TypeOK, Drifts
<1>3. ASSUME NEW i \in DOMAIN state, SkipUnsupported(i) PROVE DriftInv'
  <2>1. Passed' = Passed \cup {i} /\ i \notin Passed
    BY <1>1, <1>3, PassingCounts DEF SkipUnsupported
  <2>2. OneFateEach' /\ Comparisons' = Comparisons
    BY <1>3, <2>1 DEF SkipUnsupported, DriftInv, OneFateEach, Comparisons
  <2>3. HeldWasSeen'
    BY <1>3, BucketAttributes DEF SkipUnsupported, DriftInv, HeldWasSeen
  <2>4. \A j \in Comparisons : Earned(j)'
    BY <1>3, NothingFiled DEF SkipUnsupported
  <2>5. QED
    BY <1>1, <2>2, <2>3, <2>4 DEF DriftInv
<1>4. ASSUME NEW i \in DOMAIN state, NoUsableId(i) PROVE DriftInv'
  <2>1. Passed' = Passed \cup {i} /\ i \notin Passed
    BY <1>1, <1>4, PassingCounts DEF NoUsableId, Visiting
  <2>2. OneFateEach' /\ Comparisons' = Comparisons
    BY <1>4, <2>1 DEF NoUsableId, Visiting, DriftInv, OneFateEach, Comparisons
  <2>3. HeldWasSeen'
    BY <1>4 DEF NoUsableId, Visiting, DriftInv, HeldWasSeen
  <2>4. \A j \in Comparisons : Earned(j)'
    BY <1>4, NothingFiled DEF NoUsableId
  <2>5. QED
    BY <1>1, <2>2, <2>3, <2>4 DEF DriftInv
<1>5. ASSUME NEW i \in DOMAIN state, CallFails(i) PROVE DriftInv'
  <2>1. Passed' = Passed \cup {i} /\ i \notin Passed
    BY <1>1, <1>5, PassingCounts DEF CallFails, Visiting
  <2>2. OneFateEach' /\ Comparisons' = Comparisons
    BY <1>5, <2>1 DEF CallFails, Visiting, DriftInv, OneFateEach, Comparisons
  <2>3. HeldWasSeen'
    BY <1>5 DEF CallFails, HeldWasSeen
  <2>4. \A j \in Comparisons : Earned(j)'
    BY <1>5, NothingFiled DEF CallFails
  <2>5. QED
    BY <1>1, <2>2, <2>3, <2>4 DEF DriftInv
<1>6. ASSUME NEW i \in DOMAIN state, ReadNothing(i) PROVE DriftInv'
  <2> DEFINE new == <<Missing(i)>>
  <2>1. new \in Seq(Drifts) /\ Range(new) = {Missing(i)} /\ Missing(i).resource = i
    BY DEF Missing, Drifts, Range
  <2>2. drifts' = drifts \o new
    BY <1>2, <1>6 DEF ReadNothing
  <2> HIDE DEF new
  <2>3. \A j \in DOMAIN state \ {i} : seen'[j] = seen[j]
    BY <1>1, <1>6 DEF ReadNothing, Sight, TypeOK
  <2>4. /\ DriftsOf(i)' = {Missing(i)}
        /\ Range(drifts') = Range(drifts) \cup {Missing(i)}
        /\ \A j \in Comparisons : Earned(j)'
    BY <1>6, <2>1, <2>2, <2>3, OthersStayEarned DEF ReadNothing, Visiting
  <2>5. Passed' = Passed \cup {i} /\ i \notin Passed
    BY <1>1, <1>6, PassingCounts DEF ReadNothing, Visiting
  <2>6. Comparisons' = Comparisons \cup {i}
    BY <1>6, <2>5 DEF ReadNothing, Visiting, DriftInv, OneFateEach, Comparisons
  <2>7. OneFateEach'
    <3>1. \A n \in DOMAIN drifts' : drifts'[n].resource \in Comparisons'
      BY <2>1, <2>4, <2>6 DEF Range, DriftInv, OneFateEach
    <3>2. QED
      BY <1>6, <2>5, <3>1 DEF ReadNothing, Visiting, DriftInv, OneFateEach
  <2>8. HeldWasSeen'
    BY <1>6 DEF ReadNothing, HeldWasSeen
  <2>9. Earned(i)'
    <3>1. Object(i) \in seen'[i]
      BY <1>1, <1>6 DEF ReadNothing, Sight, TypeOK
    <3>2. ~Visible(Object(i)) /\ Missing(i)' = Missing(i)
      BY <1>6 DEF ReadNothing, Missing
    <3>3. \E live \in seen'[i] : ~Visible(live) /\ DriftsOf(i)' = {Missing(i)'}
      BY <2>4, <3>1, <3>2
    <3>4. QED
      BY <3>3 DEF Earned, Visible
  <2>10. QED
    BY <1>1, <2>4, <2>6, <2>7, <2>8, <2>9 DEF DriftInv

<1>7. ASSUME NEW i \in DOMAIN state, ReadWhole(i) PROVE DriftInv'
  <2>1. state[i].type \in Supported /\ state[i].type # "aws_s3_bucket" /\ state[i].id # Null
    BY <1>7 DEF ReadWhole, Visiting, Supported, Compared
  <2>2. Object(i) \in seen'[i] /\ \A j \in DOMAIN state \ {i} : seen'[j] = seen[j]
    BY <1>1, <1>7 DEF ReadWhole, Sight, TypeOK
  <2>3. /\ drifts' = drifts \o Compare(i, Object(i).value)
        /\ here = i /\ here' = here + 1 /\ Visible(Object(i))
        /\ UNCHANGED <<state, held, skipped, errors>>
    BY <1>7 DEF ReadWhole, Visiting
  <2>4. OneFateEach' /\ \A j \in Comparisons' : Earned(j)'
    BY <2>1, <2>2, <2>3, ComparingEarns
  <2>5. HeldWasSeen'
    BY <2>1, <2>3 DEF DriftInv, HeldWasSeen
  <2>6. QED
    BY <1>1, <2>4, <2>5 DEF DriftInv
<1>8. ASSUME NEW i \in DOMAIN state, ReadVersioning(i) PROVE DriftInv'
  <2>1. /\ here = i /\ state[i].type = "aws_s3_bucket" /\ state[i].id # Null
        /\ Visible(Object(i)) /\ held' = Object(i).value.versioning
        /\ UNCHANGED <<state, here, drifts, skipped, errors>>
    BY <1>8 DEF ReadVersioning, Visiting
  <2>2. Object(i) \in seen'[i] /\ \A j \in DOMAIN state \ {i} : seen'[j] = seen[j]
    BY <1>1, <1>8 DEF ReadVersioning, Sight, TypeOK
  <2>3. Passed' = Passed /\ Comparisons' = Comparisons /\ i \notin Comparisons
    BY <1>2, <2>1 DEF Passed, Comparisons
  <2>4. OneFateEach'
    BY <2>1, <2>3 DEF DriftInv, OneFateEach
  <2>5. HeldWasSeen'
    BY <2>1, <2>2 DEF HeldWasSeen, Visible
  <2>6. \A j \in Comparisons : Earned(j)'
    BY <2>1, <2>2, <2>3, NothingFiled DEF Comparisons, Passed
  <2>7. QED
    BY <1>1, <2>3, <2>4, <2>5, <2>6 DEF DriftInv
<1>9. ASSUME NEW i \in DOMAIN state, ReadTagging(i) PROVE DriftInv'
  <2> DEFINE value == [Object(i).value EXCEPT !.versioning = held]
  <2>1. /\ here = i /\ here' = here + 1 /\ held # Null /\ held' = Null
        /\ state[i].type = "aws_s3_bucket" /\ state[i].id # Null
        /\ Visible(Object(i))
        /\ drifts' = drifts \o Compare(i, value)
        /\ UNCHANGED <<state, skipped, errors>>
    BY <1>9 DEF ReadTagging, Visiting
  <2>2. /\ seen[i] \subseteq seen'[i] /\ Object(i) \in seen'[i]
        /\ \A j \in DOMAIN state \ {i} : seen'[j] = seen[j]
    BY <1>1, <1>9 DEF ReadTagging, Sight, TypeOK
  <2>3. PICK early \in seen'[i] : Visible(early) /\ early.value.versioning = held
    BY <2>1, <2>2 DEF DriftInv, HeldWasSeen
  <2>4. AttributesOf(state[i].type) = {"tags", "versioning"} /\ state[i].type \in Supported
    BY <2>1, BucketAttributes
  <2>5. Object(i).value \in [{"tags", "versioning"} -> Values \cup {Blank}]
    BY <1>1, <2>1, <2>4, ResourcesAre
  <2>6. /\ value["versioning"] = early.value["versioning"]
        /\ value["tags"] = Object(i).value["tags"]
    BY <2>3, <2>5
  <2> HIDE DEF value
  <2>7. \A a \in AttributesOf(state[i].type) :
           value[a] = IF a = "versioning" THEN early.value[a] ELSE Object(i).value[a]
    BY <2>4, <2>6
  <2>8. OneFateEach' /\ \A j \in Comparisons' : Earned(j)'
    BY <2>1, <2>2, <2>3, <2>4, <2>7, ComparingEarns
  <2>9. HeldWasSeen'
    BY <2>1 DEF HeldWasSeen
  <2>10. QED
    BY <1>1, <2>8, <2>9 DEF DriftInv
<1>10. ASSUME NEW id \in Ids, Edit(id) PROVE DriftInv'
  <2>1. /\ UNCHANGED <<state, here, held, drifts, skipped, errors>>
        /\ \A j \in DOMAIN state \ {here} : seen'[j] = seen[j]
        /\ \A j \in DOMAIN state : seen[j] \subseteq seen'[j]
    BY <1>1, <1>10 DEF Edit, TypeOK
  <2>2. Passed' = Passed /\ Comparisons' = Comparisons
    BY <2>1 DEF Passed, Comparisons
  <2>3. OneFateEach'
    BY <2>1, <2>2 DEF DriftInv, OneFateEach
  <2>4. HeldWasSeen'
    BY <2>1 DEF DriftInv, HeldWasSeen, Visible
  <2>5. \A j \in Comparisons : seen'[j] = seen[j]
    BY <1>2, <2>1 DEF Comparisons, Passed
  <2>6. \A j \in Comparisons : Earned(j)'
    BY <2>1, <2>5, NothingFiled
  <2>7. QED
    BY <1>1, <2>2, <2>3, <2>4, <2>6 DEF DriftInv
<1>11. CASE UNCHANGED vars
  <2>1. UNCHANGED <<state, here, held, drifts, skipped, errors, seen>>
    BY <1>11 DEF vars
  <2>2. Passed' = Passed /\ Comparisons' = Comparisons
    BY <2>1 DEF Passed, Comparisons
  <2>3. OneFateEach' /\ HeldWasSeen'
    BY <2>1, <2>2 DEF DriftInv, OneFateEach, HeldWasSeen, Visible
  <2>4. \A j \in Comparisons : Earned(j)'
    BY <2>1, NothingFiled
  <2>5. QED
    BY <1>1, <2>2, <2>3, <2>4 DEF DriftInv
<1>12. QED
  BY <1>3, <1>4, <1>5, <1>6, <1>7, <1>8, <1>9, <1>10, <1>11 DEF Next, Detect

LEMMA InvInit == Init => DriftInv
<1> SUFFICES ASSUME Init PROVE DriftInv
  OBVIOUS
<1>1. DOMAIN state = 1 .. Len(state) /\ here = 1
  BY StatesAssumption DEF Init
<1>2. Passed = {}
  BY <1>1 DEF Passed
<1>3. QED
  BY <1>2, TypeInit DEF Init, DriftInv, OneFateEach, HeldWasSeen, Comparisons

LEMMA Invariance == Spec => []DriftInv
  BY InvInit, InvStep, PTL DEF Spec

\* Whatever fails and whenever AWS changes, each resource passed is skipped,
\* unreadable or compared, and only those compared have drifts (R10, R12).
THEOREM OneFateAlways == Spec => []OneFateEach
<1>1. DriftInv => OneFateEach
  BY DEF DriftInv
<1>2. QED
  BY <1>1, Invariance, PTL

\* However often AWS changes during the run, no drift is filed that was not
\* true of AWS at a moment of its resource's comparison.
THEOREM DriftIsAlwaysReal == Spec => []DriftIsReal
<1>1. DriftInv => DriftIsReal
  <2> SUFFICES ASSUME DriftInv, NEW n \in DOMAIN drifts
               PROVE  \E live \in seen[drifts[n].resource] :
                         IF drifts[n].kind = "missing" THEN ~Visible(live)
                         ELSE /\ Visible(live)
                              /\ Differs(state[drifts[n].resource], live.value,
                                         drifts[n].attribute)
    BY DEF DriftIsReal
  <2> DEFINE i == drifts[n].resource
  <2>1. i \in Comparisons /\ drifts[n] \in DriftsOf(i) /\ Earned(i)
    BY DEF DriftInv, OneFateEach, DriftsOf
  <2>2. CASE \E live \in seen[i] : ~Visible(live) /\ DriftsOf(i) = {Missing(i)}
    BY <2>1, <2>2 DEF Missing
  <2>3. ASSUME NEW early \in seen[i], NEW late \in seen[i],
               Visible(early), Visible(late), DriftsOf(i) = Explained(i, early, late)
        PROVE  \E live \in seen[i] :
                  /\ drifts[n].kind # "missing" /\ Visible(live)
                  /\ Differs(state[i], live.value, drifts[n].attribute)
    <3>1. PICK a \in AttributesOf(state[i].type) :
             /\ drifts[n] = Changed(i, a)
             /\ StateValue(state[i], a) #
                   (IF a = "versioning" THEN early.value[a] ELSE late.value[a])
      BY <2>1, <2>3 DEF Explained
    <3>2. drifts[n].kind # "missing" /\ drifts[n].attribute = a
      BY <3>1 DEF Changed
    <3>3. QED
      BY <2>3, <3>1, <3>2 DEF Differs
  <2>4. QED
    BY <2>1, <2>2, <2>3 DEF Earned
<1>2. QED
  BY <1>1, Invariance, PTL

LEMMA SilenceFollows == DriftInv => SilenceIsReal
<1> SUFFICES ASSUME DriftInv, NEW i \in Comparisons, Missing(i) \notin DriftsOf(i),
                    NEW a \in AttributesOf(state[i].type), Changed(i, a) \notin DriftsOf(i)
             PROVE  \E live \in seen[i] :
                       Visible(live) /\ ~Differs(state[i], live.value, a)
  BY DEF SilenceIsReal
<1>1. PICK early, late \in seen[i] :
         Visible(early) /\ Visible(late) /\ DriftsOf(i) = Explained(i, early, late)
  BY DEF DriftInv, Earned
<1>2. StateValue(state[i], a) =
         (IF a = "versioning" THEN early.value[a] ELSE late.value[a])
  BY <1>1 DEF Explained
<1>3. QED
  BY <1>1, <1>2 DEF Differs

\* Nor does the report keep silent about an attribute that never had its
\* state value while its resource was compared.
THEOREM SilenceIsAlwaysReal == Spec => []SilenceIsReal
  BY SilenceFollows, Invariance, PTL

\* Where one call answers for the whole object, its drifts are those of one
\* moment, all of them and no other.
THEOREM WholeReadsAreAlwaysSnapshots == Spec => []WholeReadsAreSnapshots
<1>1. DriftInv => WholeReadsAreSnapshots
  <2> SUFFICES ASSUME DriftInv, NEW i \in Comparisons, state[i].type # "aws_s3_bucket"
               PROVE  \E live \in seen[i] :
                         DriftsOf(i) =
                           IF Visible(live)
                           THEN {Changed(i, attribute) : attribute \in
                                   {a \in AttributesOf(state[i].type) :
                                      Differs(state[i], live.value, a)}}
                           ELSE {Missing(i)}
    BY DEF WholeReadsAreSnapshots
  <2>1. Earned(i)
    BY DEF DriftInv
  <2>2. CASE \E live \in seen[i] : ~Visible(live) /\ DriftsOf(i) = {Missing(i)}
    BY <2>2
  <2>3. ASSUME NEW live \in seen[i], Visible(live), DriftsOf(i) = Explained(i, live, live)
        PROVE  DriftsOf(i) = {Changed(i, attribute) : attribute \in
                                {a \in AttributesOf(state[i].type) :
                                   Differs(state[i], live.value, a)}}
    BY <2>3 DEF Explained, Differs
  <2>4. QED
    BY <2>1, <2>2, <2>3 DEF Earned
<1>2. QED
  BY <1>1, Invariance, PTL

-----------------------------------------------------------------------------
(***************************************************************************)
(* No drift is filed twice: what one comparison files has no twins, and    *)
(* what was filed before is about other resources.                         *)
(***************************************************************************)
NoTwins(s) ==
  \A m, n \in DOMAIN s :
     s[m].resource = s[n].resource /\ m # n =>
        s[m].attribute # s[n].attribute /\ s[m].kind = "changed"

LEMMA ComparisonsHaveNoTwins ==
  ASSUME NEW i \in DOMAIN state, state[i].type \in Supported, NEW live
  PROVE  NoTwins(Compare(i, live))
<1> DEFINE a == Compared[state[i].type][1]
           b == Compared[state[i].type][2]
           FiledA == IF Differs(state[i], live, a) THEN <<Changed(i, a)>> ELSE <<>>
           FiledB == IF Differs(state[i], live, b) THEN <<Changed(i, b)>> ELSE <<>>
<1>1. a # b
  BY TwoAttributes
<1>2. Compare(i, live) = FiledA \o FiledB
  BY DEF Compare
<1> HIDE DEF a, b
<1>3. /\ Changed(i, a).kind = "changed" /\ Changed(i, b).kind = "changed"
      /\ Changed(i, a).attribute = a /\ Changed(i, b).attribute = b
  BY DEF Changed
<1>4. CASE Differs(state[i], live, a) /\ Differs(state[i], live, b)
  <2>1. Compare(i, live) = <<Changed(i, a)>> \o <<Changed(i, b)>>
    BY <1>2, <1>4
  <2>2. /\ DOMAIN Compare(i, live) = {1, 2}
        /\ Compare(i, live)[1] = Changed(i, a) /\ Compare(i, live)[2] = Changed(i, b)
    BY <2>1
  <2>3. QED
    BY <1>1, <1>3, <2>2 DEF NoTwins
<1>5. CASE Differs(state[i], live, a) /\ ~Differs(state[i], live, b)
  <2>1. Compare(i, live) = <<Changed(i, a)>>
    BY <1>2, <1>5
  <2>2. QED
    BY <2>1 DEF NoTwins
<1>6. CASE ~Differs(state[i], live, a) /\ Differs(state[i], live, b)
  <2>1. Compare(i, live) = <<Changed(i, b)>>
    BY <1>2, <1>6
  <2>2. QED
    BY <2>1 DEF NoTwins
<1>7. CASE ~Differs(state[i], live, a) /\ ~Differs(state[i], live, b)
  <2>1. Compare(i, live) = <<>>
    BY <1>2, <1>7
  <2>2. QED
    BY <2>1 DEF NoTwins
<1>8. QED
  BY <1>4, <1>5, <1>6, <1>7

LEMMA FilingKeepsNoTwins ==
  ASSUME DriftInv, NoTwins(drifts), NEW i \in DOMAIN state, here = i,
         NEW new \in Seq(Drifts), drifts' = drifts \o new,
         \A d \in Range(new) : d.resource = i, NoTwins(new)
  PROVE  NoTwins(drifts')
<1>1. drifts \in Seq(Drifts)
  BY DEF DriftInv, TypeOK, Drifts
<1>2. \A n \in DOMAIN drifts : drifts[n].resource # i
  BY StatesAssumption DEF DriftInv, TypeOK, OneFateEach, Comparisons, Passed
<1>3. \A n \in DOMAIN drifts' :
         \/ n \in DOMAIN drifts /\ drifts'[n] = drifts[n]
         \/ n - Len(drifts) \in DOMAIN new /\ drifts'[n] = new[n - Len(drifts)]
  BY <1>1
<1>4. \A n \in DOMAIN new : new[n].resource = i
  BY DEF Range
<1>5. ASSUME NEW m \in DOMAIN drifts', NEW n \in DOMAIN drifts',
             drifts'[m].resource = drifts'[n].resource, m # n
      PROVE  drifts'[m].attribute # drifts'[n].attribute /\ drifts'[m].kind = "changed"
  <2>1. CASE m \in DOMAIN drifts /\ drifts'[m] = drifts[m]
    <3>1. n \in DOMAIN drifts /\ drifts'[n] = drifts[n]
      BY <1>2, <1>3, <1>4, <1>5, <2>1
    <3>2. QED
      BY <1>5, <2>1, <3>1 DEF NoTwins
  <2>2. CASE m - Len(drifts) \in DOMAIN new /\ drifts'[m] = new[m - Len(drifts)]
    <3>1. n - Len(drifts) \in DOMAIN new /\ drifts'[n] = new[n - Len(drifts)]
      BY <1>2, <1>3, <1>4, <1>5, <2>2
    <3>2. m - Len(drifts) # n - Len(drifts)
      <4>1. Len(drifts) \in Int /\ m \in Int /\ n \in Int
        BY <1>1
      <4>2. QED
        BY <1>5, <4>1
    <3>3. QED
      BY <1>5, <2>2, <3>1, <3>2 DEF NoTwins
  <2>3. QED
    BY <1>3, <2>1, <2>2
<1>6. QED
  BY <1>5 DEF NoTwins

LEMMA NoTwinsStep == DriftInv /\ NoTwins(drifts) /\ [Next]_vars => NoTwins(drifts')
<1> SUFFICES ASSUME DriftInv, NoTwins(drifts), [Next]_vars PROVE NoTwins(drifts')
  OBVIOUS
<1>1. TypeOK /\ drifts \in Seq(Drifts)
  BY DEF DriftInv, TypeOK, Drifts
<1>2. CASE drifts' = drifts
  BY <1>2
<1>3. ASSUME NEW i \in DOMAIN state, ReadNothing(i) PROVE NoTwins(drifts')
  <2>1. /\ <<Missing(i)>> \in Seq(Drifts) /\ Range(<<Missing(i)>>) = {Missing(i)}
        /\ Missing(i).resource = i
    BY DEF Missing, Drifts, Range
  <2>2. here = i /\ drifts' = drifts \o <<Missing(i)>> /\ NoTwins(<<Missing(i)>>)
    BY <1>1, <1>3 DEF ReadNothing, Visiting, NoTwins
  <2>3. QED
    BY <2>1, <2>2, FilingKeepsNoTwins
<1>4. ASSUME NEW i \in DOMAIN state, NEW value, here = i, state[i].type \in Supported,
             drifts' = drifts \o Compare(i, value)
      PROVE  NoTwins(drifts')
  <2>1. Compare(i, value) \in Seq(Drifts) /\ \A d \in Range(Compare(i, value)) : d.resource = i
    BY <1>1, <1>4, ComparisonsFile DEF Changed
  <2>2. QED
    BY <1>4, <2>1, ComparisonsHaveNoTwins, FilingKeepsNoTwins
<1>5. ASSUME NEW i \in DOMAIN state, ReadWhole(i) \/ ReadTagging(i) PROVE NoTwins(drifts')
  <2>1. here = i /\ state[i].type \in Supported
    BY <1>5 DEF ReadWhole, ReadTagging, Visiting, Supported, Compared
  <2>2. \E value : drifts' = drifts \o Compare(i, value)
    BY <1>5 DEF ReadWhole, ReadTagging
  <2>3. QED
    BY <1>4, <2>1, <2>2
<1>6. QED
  BY <1>2, <1>3, <1>5 DEF Next, Detect, SkipUnsupported, NoUsableId, CallFails, ReadVersioning,
                          Edit, vars

\* Whatever fails and however AWS changes, an entry of the state is reported at
\* most once for an attribute, and one that is missing for nothing else (R10).
THEOREM DriftIsNeverFiledTwice == Spec => []NoDriftTwice
<1>1. Init => NoTwins(drifts)
  BY DEF Init, NoTwins
<1>2. NoTwins(drifts) => NoDriftTwice
  BY DEF NoTwins, NoDriftTwice
<1>3. Spec => []NoTwins(drifts)
  <2>1. DriftInv /\ NoTwins(drifts) /\ [Next]_vars => NoTwins(drifts)'
    BY NoTwinsStep DEF NoTwins
  <2>2. QED
    BY <1>1, <2>1, Invariance, PTL DEF Spec
<1>4. QED
  BY <1>2, <1>3, PTL

-----------------------------------------------------------------------------
LEMMA CallsAreCounted == DriftInv => CallsLeft \in 0 .. 2 * Len(state)
<1> SUFFICES ASSUME DriftInv PROVE CallsLeft \in 0 .. 2 * Len(state)
  OBVIOUS
<1>1. /\ Len(state) \in Nat /\ DOMAIN state = 1 .. Len(state)
      /\ here \in 1 .. Len(state) + 1
  BY StatesAssumption DEF DriftInv, TypeOK
<1>2. held # Null => here <= Len(state)
  BY <1>1 DEF DriftInv, HeldWasSeen
<1>3. QED
  BY <1>1, <1>2 DEF CallsLeft

LEMMA DetectUsesACall ==
  DriftInv /\ Detect => CallsLeft' \in Int /\ CallsLeft' < CallsLeft
<1> SUFFICES ASSUME DriftInv, Detect PROVE CallsLeft' \in Int /\ CallsLeft' < CallsLeft
  OBVIOUS
<1>1. Len(state) \in Nat /\ here \in Nat
  BY StatesAssumption DEF DriftInv, TypeOK
<1>2. state' = state
  BY DEF Detect, SkipUnsupported, NoUsableId, CallFails, ReadNothing, ReadWhole, ReadVersioning,
         ReadTagging
<1>3. \/ here' = here + 1 /\ held' \in {held, Null}
      \/ here' = here /\ held = Null /\ held' # Null
  <2>1. PICK i \in DOMAIN state :
           \/ SkipUnsupported(i) \/ NoUsableId(i) \/ CallFails(i) \/ ReadNothing(i)
           \/ ReadWhole(i) \/ ReadVersioning(i) \/ ReadTagging(i)
    BY DEF Detect
  <2>2. CASE ReadVersioning(i)
    <3>1. /\ here' = here /\ held = Null /\ held' = Object(i).value.versioning
          /\ state[i].type = "aws_s3_bucket" /\ state[i].id # Null
      BY <2>2 DEF ReadVersioning, Visiting
    <3>2. Object(i).value.versioning \in Values \cup {Blank}
      BY <3>1, BucketAttributes, ResourcesAre DEF DriftInv
    <3>3. QED
      BY <3>1, <3>2, NamesAssumption
  <2>3. CASE ~ReadVersioning(i)
    BY <2>1, <2>3
    DEF SkipUnsupported, NoUsableId, CallFails, ReadNothing, ReadWhole, ReadTagging
  <2>4. QED
    BY <2>2, <2>3
<1>4. QED
  BY <1>1, <1>2, <1>3 DEF CallsLeft

LEMMA EditsUseNoCall == \A id \in Ids : Edit(id) => CallsLeft' = CallsLeft
  BY DEF Edit, CallsLeft

\* Detection takes at most two steps for each resource of the state and none is
\* taken back: whatever AWS answers, and however often it changes meanwhile, a
\* step of the loop leaves fewer to come.
THEOREM DetectionAlwaysAdvances ==
  Spec => /\ [](CallsLeft \in 0 .. 2 * Len(state))
          /\ [][\/ CallsLeft' < CallsLeft
                \/ (\E id \in Ids : Edit(id)) /\ CallsLeft' = CallsLeft]_vars
<1>1. DriftInv /\ [Next]_vars =>
        [\/ CallsLeft' < CallsLeft
         \/ (\E id \in Ids : Edit(id)) /\ CallsLeft' = CallsLeft]_vars
  BY DetectUsesACall, EditsUseNoCall DEF Next
<1>2. QED
  BY <1>1, CallsAreCounted, Invariance, PTL DEF Spec
=============================================================================
