--------------------------- MODULE DriftDetector ---------------------------
(***************************************************************************)
(* core/drift.py over adapters/boto3_reader.py: detect() compares every    *)
(* managed resource of a Terraform state with live AWS, one AWS call at a  *)
(* time, while other people go on changing AWS.  A call answers from the   *)
(* moment it is served; a bucket takes two calls, and AWS may change       *)
(* between them.  Any call may fail instead.                               *)
(***************************************************************************)
EXTENDS Naturals, Sequences, FiniteSets

CONSTANTS
    Null,      \* Python's None: no usable id, attribute not in the state
    Blank,     \* no tags, no rules, versioning not enabled
    Ids,       \* the AWS identifiers that occur, and
    TypeOf,    \* the type of the object each of them names
    Values,    \* attribute values told apart from each other and from Blank
    States,    \* the states considered, each a sequence of resources
    MaxEdits   \* bound on how often AWS changes during one run

VARIABLES
    state,     \* what iter_state_resources returned; never written here
    aws,       \* live AWS: id -> [status, value]
    edits,     \* how often it has changed
    here,      \* position of the resource the loop looks at
    held,      \* a bucket's versioning, read and not yet compared, or Null
    drifts,    \* sequence of [resource, kind, attribute]
    skipped,   \* positions of resources of an unsupported type
    errors,    \* positions of resources that could not be read
    seen       \* history, for the properties: position -> the live objects
               \* there were from the first to the last call about it

reportVars == <<here, held, drifts, skipped, errors, seen>>
vars == <<state, aws, edits, here, held, drifts, skipped, errors, seen>>

-----------------------------------------------------------------------------
\* The attributes compared, for each type in COMPARATORS (R9), in the order
\* their drifts are reported.
Compared == [aws_instance       |-> <<"instance_type", "tags">>,
             aws_security_group |-> <<"ingress", "egress">>,
             aws_s3_bucket      |-> <<"tags", "versioning">>]

Supported == DOMAIN Compared

AttributesOf(type) == {Compared[type][n] : n \in DOMAIN Compared[type]}

Attributes == UNION {AttributesOf(type) : type \in Supported}

Resources ==
    {r \in [type : STRING, id : Ids \cup {Null},
            value : UNION {[AttributesOf(type) -> Values \cup {Blank, Null}] :
                              type \in Supported}] :
        r.type \in Supported =>
            /\ DOMAIN r.value = AttributesOf(r.type)
            /\ r.id # Null => TypeOf[r.id] = r.type}

\* An instance stays visible to DescribeInstances for a while after it is
\* terminated; everything else is there or is not.  What is gone has no values.
Gone(type) == [status |-> "gone", value |-> [attribute \in AttributesOf(type) |-> Blank]]

Live(type) ==
    {Gone(type)} \cup
    [status : {"live"} \cup (IF type = "aws_instance" THEN {"terminated"} ELSE {}),
     value  : [AttributesOf(type) -> Values \cup {Blank}]]

LiveObjects == UNION {Live(type) : type \in Supported}

Visible(object) == object.status # "gone"

ASSUME NamesAssumption == Null \notin Values \cup Ids \cup {Blank} /\ Blank \notin Values
ASSUME TypesAssumption == TypeOf \in [Ids -> Supported]
ASSUME StatesAssumption == States \subseteq Seq(Resources)
ASSUME EditsAssumption == MaxEdits \in Nat

-----------------------------------------------------------------------------
\* What the code takes the state to say: missing tags, rules and versioning
\* read as none, off; a missing instance type stays None and equals nothing.
StateValue(resource, attribute) ==
    IF resource.value[attribute] = Null /\ attribute # "instance_type"
    THEN Blank ELSE resource.value[attribute]

Differs(resource, live, attribute) == StateValue(resource, attribute) # live[attribute]

Changed(i, attribute) == [resource |-> i, kind |-> "changed", attribute |-> attribute]

\* Mutant: a missing resource's drift names an attribute.
Missing_NamesId(i) == [resource |-> i, kind |-> "missing", attribute |-> "id"]

Missing(i) == [resource |-> i, kind |-> "missing", attribute |-> Null]

\* Mutant: the comparison stops at the first attribute.
Compare_FirstOnly(i, live) ==
    IF Differs(state[i], live, Compared[state[i].type][1])
    THEN <<Changed(i, Compared[state[i].type][1])>> ELSE <<>>

\* The drifts of one comparison: each of the two attributes is looked at, and
\* filed when it differs.
Compare(i, live) ==
    LET names == Compared[state[i].type]
        Filed(attribute) ==
            IF Differs(state[i], live, attribute) THEN <<Changed(i, attribute)>> ELSE <<>>
    IN  Filed(names[1]) \o Filed(names[2])

-----------------------------------------------------------------------------
TypeOK ==
    /\ state \in States
    /\ aws \in [Ids -> LiveObjects]
    /\ \A id \in Ids : aws[id] \in Live(TypeOf[id])
    /\ edits \in 0 .. MaxEdits
    /\ here \in 1 .. Len(state) + 1
    /\ held \in Values \cup {Blank, Null}
    /\ drifts \in Seq([resource : DOMAIN state, kind : {"changed", "missing"},
                       attribute : Attributes \cup {Null}])
    /\ skipped \subseteq DOMAIN state
    /\ errors \subseteq DOMAIN state
    /\ seen \in [DOMAIN state -> SUBSET LiveObjects]

Init ==
    /\ state \in States
    /\ aws \in [Ids -> LiveObjects]
    /\ \A id \in Ids : aws[id] \in Live(TypeOf[id])
    /\ edits = 0
    /\ here = 1
    /\ held = Null
    /\ drifts = <<>>
    /\ skipped = {}
    /\ errors = {}
    /\ seen = [i \in DOMAIN state |-> {}]

\* The loop looks at resource i, of one of the given types.
Visiting(i, types) == here = i /\ i \in DOMAIN state /\ state[i].type \in types

\* The object a call about resource i is answered from.
Object(i) == aws[state[i].id]

Sight(i) == seen' = [seen EXCEPT ![i] = @ \cup {Object(i)}]

SkipUnsupported(i) ==
    /\ here = i /\ i \in DOMAIN state
    /\ state[i].type \notin Supported
    /\ skipped' = skipped \cup {i}
    /\ here' = here + 1
    /\ UNCHANGED <<state, aws, edits, held, drifts, errors, seen>>

\* _resource_id raises; detect() files the LookupError like a failed read.
NoUsableId(i) ==
    /\ Visiting(i, Supported)
    /\ state[i].id = Null
    /\ errors' = errors \cup {i}
    /\ here' = here + 1
    /\ UNCHANGED <<state, aws, edits, held, drifts, skipped, seen>>

\* Mutants: a failing tagging call leaves the versioning it was about to use
\* for the next bucket; an unreadable resource is taken for a missing one; a
\* failed call is tried again.
CallFails_KeepsHeld(i) ==
    /\ Visiting(i, Supported)
    /\ state[i].id # Null
    /\ errors' = errors \cup {i}
    /\ here' = here + 1
    /\ UNCHANGED <<state, aws, edits, held, drifts, skipped, seen>>

CallFails_ReportsMissing(i) ==
    /\ Visiting(i, Supported)
    /\ state[i].id # Null
    /\ errors' = errors \cup {i}
    /\ drifts' = Append(drifts, Missing(i))
    /\ here' = here + 1
    /\ held' = Null
    /\ UNCHANGED <<state, aws, edits, skipped, seen>>

CallFails_Retries(i) ==
    /\ Visiting(i, Supported)
    /\ state[i].id # Null
    /\ errors' = errors \cup {i}
    /\ held' = Null
    /\ UNCHANGED <<state, aws, edits, here, drifts, skipped, seen>>

\* The call raises: throttled, refused, timed out, cut off (R12).
CallFails(i) ==
    /\ Visiting(i, Supported)
    /\ state[i].id # Null
    /\ errors' = errors \cup {i}
    /\ here' = here + 1
    /\ held' = Null
    /\ UNCHANGED <<state, aws, edits, drifts, skipped, seen>>

\* One call says the object is not there: get_* returns None.
ReadNothing(i) ==
    /\ Visiting(i, Supported)
    /\ state[i].id # Null
    /\ ~Visible(Object(i))
    /\ drifts' = Append(drifts, Missing(i))
    /\ here' = here + 1
    /\ held' = Null
    /\ Sight(i)
    /\ UNCHANGED <<state, aws, edits, skipped, errors>>

\* Instances and groups: one call answers for every attribute.
ReadWhole(i) ==
    /\ Visiting(i, {"aws_instance", "aws_security_group"})
    /\ state[i].id # Null
    /\ Visible(Object(i))
    /\ drifts' = drifts \o Compare(i, Object(i).value)
    /\ here' = here + 1
    /\ Sight(i)
    /\ UNCHANGED <<state, aws, edits, held, skipped, errors>>

\* Buckets: GetBucketVersioning, then GetBucketTagging.
ReadVersioning(i) ==
    /\ Visiting(i, {"aws_s3_bucket"})
    /\ state[i].id # Null
    /\ held = Null
    /\ Visible(Object(i))
    /\ held' = Object(i).value.versioning
    /\ Sight(i)
    /\ UNCHANGED <<state, aws, edits, here, drifts, skipped, errors>>

\* Mutant: the drifts of a bucket are filed although a drift of it exists.
ReadTagging_FilesTwice(i) ==
    /\ Visiting(i, {"aws_s3_bucket"})
    /\ state[i].id # Null
    /\ held # Null
    /\ Visible(Object(i))
    /\ LET found == Compare(i, [Object(i).value EXCEPT !.versioning = held])
       IN  drifts' = drifts \o found \o found
    /\ here' = here + 1
    /\ held' = Null
    /\ Sight(i)
    /\ UNCHANGED <<state, aws, edits, skipped, errors>>

\* A bucket without tags answers NoSuchTagSet, which reads as Blank.
ReadTagging(i) ==
    /\ Visiting(i, {"aws_s3_bucket"})
    /\ state[i].id # Null
    /\ held # Null
    /\ Visible(Object(i))
    /\ drifts' = drifts \o Compare(i, [Object(i).value EXCEPT !.versioning = held])
    /\ here' = here + 1
    /\ held' = Null
    /\ Sight(i)
    /\ UNCHANGED <<state, aws, edits, skipped, errors>>

Detect ==
    \E i \in DOMAIN state :
        \/ SkipUnsupported(i) \/ NoUsableId(i) \/ CallFails(i) \/ ReadNothing(i)
        \/ ReadWhole(i) \/ ReadVersioning(i) \/ ReadTagging(i)

-----------------------------------------------------------------------------
(***************************************************************************)
(* Somebody else changes AWS: an attribute is edited, or an object goes.   *)
(* Identifiers of instances and groups are not given out again; a bucket's *)
(* name can be.  While a bucket's comparison is under way, what it becomes *)
(* is part of what its report is judged by.                                *)
(***************************************************************************)
BecomesLegally(type, old, new) ==
    \/ old.status = "live" /\ new.status = "live" /\ old # new
    \/ old.status = "live" /\ new.status = "terminated" /\ new.value = old.value
    \/ old.status # "gone" /\ new.status = "gone"
    \/ type = "aws_s3_bucket" /\ old.status = "gone" /\ new.status = "live"

Edit(id) ==
    /\ edits < MaxEdits
    /\ edits' = edits + 1
    /\ \E new \in Live(TypeOf[id]) :
          /\ BecomesLegally(TypeOf[id], aws[id], new)
          /\ aws' = [aws EXCEPT ![id] = new]
          /\ seen' = IF here \in DOMAIN state /\ held # Null /\ state[here].id = id
                     THEN [seen EXCEPT ![here] = @ \cup {new}] ELSE seen
    /\ UNCHANGED <<state, here, held, drifts, skipped, errors>>

Next == Detect \/ \E id \in Ids : Edit(id)

\* The loop runs on; nobody has to change AWS.
Spec == Init /\ [][Next]_vars /\ WF_vars(Detect)
-----------------------------------------------------------------------------
\* How many steps the loop can have left: two for each resource, of which a
\* bucket half compared has taken one.
CallsLeft == 2 * (Len(state) + 1 - here) - (IF held = Null THEN 0 ELSE 1)

Passed == {i \in DOMAIN state : i < here}

\* The resources the report says something about by comparing them.
Comparisons == Passed \ (skipped \cup errors)

DriftsOf(i) == {drifts[n] : n \in {m \in DOMAIN drifts : drifts[m].resource = i}}

\* Each resource the loop has passed has one fate: it is counted as skipped
\* exactly when its type is unsupported (R10), reported as unreadable, or
\* compared.  One that could not be read contributes no drift of its own,
\* even when the failure came between the two calls about a bucket (R12).
OneFateEach ==
    /\ skipped = {i \in Passed : state[i].type \notin Supported}
    /\ errors \subseteq Passed \ skipped
    /\ {i \in Passed \ skipped : state[i].id = Null} \subseteq errors
    /\ \A n \in DOMAIN drifts : drifts[n].resource \in Comparisons

\* A reported drift was true of AWS at some moment from the first to the last
\* call about its resource: the object was not there, or the attribute had
\* another value than in the state.
DriftIsReal ==
    \A n \in DOMAIN drifts :
        LET d == drifts[n]
            i == d.resource
        IN  \E live \in seen[i] :
                IF d.kind = "missing" THEN ~Visible(live)
                ELSE Visible(live) /\ Differs(state[i], live.value, d.attribute)

\* Silence is evidence too: an attribute of a compared resource that no drift
\* is reported for did have its state value at some such moment, so nobody
\* reads "no drift" about a value AWS never had.
SilenceIsReal ==
    \A i \in Comparisons : Missing(i) \notin DriftsOf(i) =>
        \A attribute \in AttributesOf(state[i].type) :
            Changed(i, attribute) \notin DriftsOf(i) =>
                \E live \in seen[i] :
                    Visible(live) /\ ~Differs(state[i], live.value, attribute)

\* Where one call answers for the whole object, the drifts of a resource are
\* all true at the same moment, and all there are; no call mixes two moments.
WholeReadsAreSnapshots ==
    \A i \in Comparisons : state[i].type # "aws_s3_bucket" =>
        \E live \in seen[i] :
            DriftsOf(i) =
                IF Visible(live)
                THEN {Changed(i, attribute) : attribute \in
                        {a \in AttributesOf(state[i].type) : Differs(state[i], live.value, a)}}
                ELSE {Missing(i)}

\* No drift is reported twice, and a missing resource has no other drift.
NoDriftTwice ==
    \A m, n \in DOMAIN drifts :
        drifts[m].resource = drifts[n].resource /\ m # n =>
            /\ drifts[m].attribute # drifts[n].attribute
            /\ drifts[m].kind = "changed"

\* detect() comes to an end whatever AWS does meanwhile: it reads every
\* resource once and retries nothing.
DetectTerminates == <>(here = Len(state) + 1)

\* "A state resource of a supported type that does not exist in AWS is
\* reported as drift of kind missing" (R10): a resource that was gone at
\* every moment of its comparison has a missing drift.
GoneIsMissing ==
    \A i \in Comparisons :
        (\A live \in seen[i] : live.status # "live") => Missing(i) \in DriftsOf(i)
=============================================================================
