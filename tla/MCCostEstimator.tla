-------------------------- MODULE MCCostEstimator --------------------------
(***************************************************************************)
(* Instances of CostEstimator for TLC.  Ten ticks to a cent and three      *)
(* hours to a month make lines that fall on, just under and just over half *)
(* a cent, on either side of zero.  With three digits in the context, a    *)
(* price of 1000 ticks or more loses digits of its own, and amounts go up  *)
(* to 999 cents: one volume overflows on its own line and others only in   *)
(* their sum.                                                              *)
(***************************************************************************)
EXTENDS CostEstimator

Attrs(key, storage, size, multi_az) ==
    [key |-> key, storage |-> storage, size |-> size, multi_az |-> multi_az,
     direction |-> "ingress", rules |-> {}]

Instance(key)   == Attrs(key, Absent, -1, FALSE)
Volume(st, gb)  == Attrs(Absent, st, gb, FALSE)

Change(type, actions, before, after) ==
    [type |-> type, actions |-> actions, before |-> before, after |-> after]

Create(type, attrs) == Change(type, <<"create">>, Null, attrs)
Delete(type, attrs) == Change(type, <<"delete">>, attrs, Null)

MCRates ==
    [east |-> [aws_instance |-> [t3 |-> 5, m5 |-> 8],
               aws_ebs_volume |-> [gp2 |-> 3, gp3 |-> 5],
               aws_nat_gateway |-> [hourly |-> 1],
               aws_lb |-> [application |-> 7, network |-> 2]]
                @@ ("aws_db_instance.instance" :> [postgres |-> 5])
                @@ ("aws_db_instance.storage" :> [gp2 |-> 1]),
     west |-> [aws_instance |-> [t3 |-> 6], aws_ebs_volume |-> [gp2 |-> 5]]]

MCChanges ==
    { Create("aws_instance", Instance("t3")), Create("aws_instance", Instance("zz")),
      Delete("aws_instance", Instance("t3")), Create("aws_instance", Instance(Absent)),
      Change("aws_instance", <<"update">>, Instance("m5"), Instance("t3")),
      Change("aws_instance", <<"delete", "create">>, Instance("t3"), Null),
      Create("aws_ebs_volume", Volume("gp3", 3)), Create("aws_ebs_volume", Volume(Absent, -4)),
      Create("aws_ebs_volume", Volume("gp3", 1303)), Create("aws_ebs_volume", Volume("gp3", 4000)),
      Change("aws_ebs_volume", <<"update">>, Volume("gp3", 2000), Volume("gp3", 2009)),
      Create("aws_ebs_volume", Volume(Unknown, 3)), Delete("aws_ebs_volume", Volume("gp2", 2)),
      Change("aws_ebs_volume", <<"create", "delete">>, Volume("gp2", 2), Volume("gp3", 1)),
      Create("aws_db_instance", Attrs("postgres", Absent, 5, TRUE)),
      Delete("aws_db_instance", Attrs("postgres", "gp2", 5, FALSE)),
      Create("aws_nat_gateway", Instance(Absent)), Delete("aws_lb", Instance("network")),
      Create("aws_lb", Instance(Absent)), Create("aws_s3_bucket", Instance(Absent)),
      Change("aws_instance", <<"no-op">>, Instance("t3"), Instance("t3")),
      Change("aws_instance", <<"read">>, Null, Instance("t3")) }

\* Every plan of at most three of these changes.
MCPlans == UNION {[1 .. n -> MCChanges] : n \in 0 .. 3}
=============================================================================
