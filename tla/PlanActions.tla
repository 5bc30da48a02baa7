---------------------------- MODULE PlanActions ----------------------------
(***************************************************************************)
(* The operators of core/plan.py that read an ingested Terraform plan: how *)
(* a change is classified (R3) and which region the plan is priced in (R8).*)
(*                                                                         *)
(* A plan is a sequence of changes; a change is named by its position.     *)
(***************************************************************************)
EXTENDS Integers, Sequences, FiniteSets

CONSTANT Null        \* Python's None: no value, no attribute map, no region

\* What the stages can tell apart of one side of a change.  key is the price key
\* (instance type; engine and class; balancer type) and storage a volume or
\* storage type; size is in GB.  rules are the rules of a security group, or the
\* one rule a standalone rule resource stands for, in the given direction; a
\* port is Null unless the plan holds an integer.
Absent  == "absent"      \* the attribute is missing, null or ""
Unknown == "unknown"     \* the attribute holds something that is no string

IngressRules == [cidrs : SUBSET STRING, protocol : STRING,
                 from_port : Int \cup {Null}, to_port : Int \cup {Null}]

Attributes == [key : STRING, storage : STRING, size : Int, multi_az : BOOLEAN,
               direction : {"ingress", "egress"}, rules : SUBSET IngressRules]

\* A side is Null when the plan does not know the resource's attributes.
Changes == [type : STRING, actions : Seq(STRING),
            before : Attributes \cup {Null}, after : Attributes \cup {Null}]

ActionClass == {"create", "delete", "update", "replace"}

\* Positions in a plan whose change is out of scope (None of classify_actions).
Excluded == "excluded"

\* classify_actions raises PlanError: nothing outside this table is guessed at.
Unrecognized == "unrecognized"

ClassifyActions(actions) ==
    CASE actions \in {<<"no-op">>, <<"read">>} -> Excluded
      [] actions = <<"create">> -> "create"
      [] actions = <<"delete">> -> "delete"
      [] actions = <<"update">> -> "update"
      [] actions \in {<<"create", "delete">>, <<"delete", "create">>} -> "replace"
      [] OTHER -> Unrecognized

ClassOf(change) == ClassifyActions(change.actions)

\* The positions summarize_plan keeps, and the only ones any later stage sees.
Classified(plan) == {i \in DOMAIN plan : ClassOf(plan[i]) \in ActionClass}

\* summarize_plan raises on the first unrecognized change; what it counts only
\* goes into the report.
Summarizable(plan) == \A i \in DOMAIN plan : ClassOf(plan[i]) # Unrecognized

(***************************************************************************)
(* provider_config: a function from keys to [aws, region].  A key is the   *)
(* rank of the provider's name in the sorted order the code walks; region  *)
(* is Null when it is absent, not a constant, not a string or empty.       *)
(***************************************************************************)
ConstantAwsRegions(providers) ==
    {k \in DOMAIN providers : providers[k].aws /\ providers[k].region # Null}

ResolvePlanRegion(providers) ==
    LET keys == ConstantAwsRegions(providers)
    IN  IF keys = {} THEN Null
        ELSE providers[CHOOSE k \in keys : \A l \in keys : k <= l].region

=============================================================================
