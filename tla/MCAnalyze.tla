----------------------------- MODULE MCAnalyze -----------------------------
(***************************************************************************)
(* Instances of Analyze for TLC.  Each plan is there for one reason a gate *)
(* may have to object, or for a boundary of one; each policy for a way of  *)
(* being strict.                                                           *)
(***************************************************************************)
EXTENDS Analyze

Side(key, size, rules) ==
    [key |-> key, storage |-> Absent, size |-> size, multi_az |-> FALSE,
     direction |-> "ingress", rules |-> rules]

Change(type, actions, before, after) ==
    [type |-> type, actions |-> actions, before |-> before, after |-> after]

OpenRule(from, to) ==
    [cidrs |-> {"0.0.0.0/0", "10.0.0.0/8"}, protocol |-> "tcp", from_port |-> from, to_port |-> to]

Group(rules) == Side(Absent, -1, rules)

Cheap    == Change("aws_instance", <<"create">>, Null, Side("t3", -1, {}))
Dear     == Change("aws_ebs_volume", <<"create">>, Null, Side(Absent, 9, {}))
Huge     == Change("aws_ebs_volume", <<"create">>, Null, Side(Absent, 900, {}))
Resized  == Change("aws_ebs_volume", <<"update">>, Side(Absent, 9, {}), Side(Absent, 8, {}))
Replaced == Change("aws_db_instance", <<"delete", "create">>, Side("zz", 5, {}), Side("zz", 5, {}))
Dropped  == Change("aws_ebs_volume", <<"delete">>, Side(Absent, 9, {}), Null)
Opened   == Change("aws_security_group", <<"update">>, Null, Group({OpenRule(22, 23)}))
Web      == Change("aws_security_group_rule", <<"create">>, Null, Group({OpenRule(22, 22)}))
Reopened == Change("aws_vpc_security_group_ingress_rule", <<"create", "delete">>, Null,
                   Group({OpenRule(Null, Null)}))
Egress   == Change("aws_security_group_rule", <<"create">>, Null,
                   [Group({OpenRule(0, 99)}) EXCEPT !.direction = "egress"])
Kept     == Change("aws_security_group", <<"no-op">>, Null, Group({OpenRule(0, 99)}))
Closed   == Change("aws_security_group", <<"delete">>, Group({OpenRule(0, 99)}), Null)
Odd      == Change("aws_instance", <<"forget">>, Null, Null)

MCPlans == {<<>>, <<Cheap>>, <<Dear, Resized>>, <<Replaced>>, <<Dropped, Dear>>, <<Opened>>,
            <<Web, Cheap>>, <<Reopened>>, <<Egress, Kept>>, <<Closed>>, <<Cheap, Odd>>}
FewPlans == {<<Opened>>, <<Dropped>>, <<Huge>>, <<Odd>>}

MCRates ==
    [east |-> [aws_instance |-> [t3 |-> 5], aws_ebs_volume |-> [gp2 |-> 10]],
     west |-> [aws_ebs_volume |-> [gp2 |-> 20]]]

MCPolicy(limit, unknown, ports, deletions, protected, on_drift) ==
    [limit_usd |-> limit, treat_unpriced_as |-> unknown, allowed_ports |-> ports,
     deletions_action |-> deletions, protected_types |-> protected, drift_action |-> on_drift]

Lax     == MCPolicy(Unlimited, "ignore", {22, 23}, "ignore", {}, "ignore")
Middle  == MCPolicy(9, "warn", {22}, "warn", {"aws_db_instance"}, "warn")
Strict  == MCPolicy(1, "block", {}, "block", {}, "block")
MCPolicyFiles  == {Lax, Middle, Strict}
FewPolicyFiles == {Lax, Strict}

MCTypeOf == [id \in Ids |-> IF id = "logs" THEN "aws_s3_bucket" ELSE "aws_instance"]

Bucket == [type |-> "aws_s3_bucket", id |-> "logs",
           value |-> [tags |-> "v", versioning |-> Null]]
Other  == [Bucket EXCEPT !.type = "aws_lb"]

MCStates  == {<<>>, <<Other, Bucket>>}
FewStates == {<<>>, <<Bucket>>}

MCProviders ==
    {<<>>, <<[aws |-> FALSE, region |-> "mars"], [aws |-> TRUE, region |-> Null],
             [aws |-> TRUE, region |-> "east"], [aws |-> TRUE, region |-> "west"]>>}

MCOptions(region_flags, flags, drift, jsons, mds) ==
    [region_flag : region_flags, policy_flag : flags,
     state_given : drift, skip_drift : {FALSE},
     out_json : jsons, out_md : mds, fail_on_warn : BOOLEAN]

\* Every combination that bears on the verdict, reports to stdout.
GateOptions ==
    MCOptions({"east", "west"}, {TRUE}, BOOLEAN, {Null}, {Null})
        \cup MCOptions({Null}, {FALSE}, {FALSE}, {Null}, {Null})
        \cup {[o EXCEPT !.skip_drift = TRUE] :
                o \in MCOptions({"east"}, {TRUE}, {TRUE}, {Null}, {Null})}

\* Every combination that bears on how a run ends and what it leaves behind;
\* a default policy file, which may be edited, with fewer of the others.
EndOptions ==
    MCOptions({"east"}, {TRUE}, BOOLEAN, {Null, "a"}, {Null, "a", "b"})
        \cup MCOptions({"east"}, {FALSE}, {FALSE}, {Null, "a"}, {Null})
        \cup MCOptions({"mars", Null}, {TRUE}, {FALSE}, {"a"}, {Null})
=============================================================================
