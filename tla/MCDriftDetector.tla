-------------------------- MODULE MCDriftDetector --------------------------
(***************************************************************************)
(* Instances of DriftDetector for TLC: an instance, a group and a bucket   *)
(* in AWS, and states of at most two resources over them, the same one     *)
(* twice included.                                                         *)
(***************************************************************************)
EXTENDS DriftDetector, TLC

InstanceAndBucket == {"i-1", "logs"}
AllThree          == {"i-1", "sg-1", "logs"}

MCTypeOf == [id \in Ids |-> CASE id = "i-1"  -> "aws_instance"
                              [] id = "sg-1" -> "aws_security_group"
                              [] id = "logs" -> "aws_s3_bucket"]

Resource(type, id, first, second) ==
    [type |-> type, id |-> id,
     value |-> (Compared[type][1] :> first) @@ (Compared[type][2] :> second)]

MCResources ==
    {Resource("aws_instance", "i-1", "v", "v"), Resource("aws_instance", "i-1", Null, Null),
     Resource("aws_security_group", "sg-1", "v", Null),
     Resource("aws_s3_bucket", "logs", "v", "v"), Resource("aws_s3_bucket", "logs", Null, Blank),
     Resource("aws_s3_bucket", Null, Blank, Blank),
     [Resource("aws_instance", Null, "v", "v") EXCEPT !.type = "aws_lb"]}

\* Of two resources one is a bucket, whose comparison spans two calls, or both
\* are the same: others are read by one call each and share nothing.
MCStates ==
    LET some == {r \in MCResources : r.id \in Ids \cup {Null}}
    IN  UNION {[1 .. n -> some] : n \in 0 .. 1}
            \cup {<<first, second>> : first \in some, second \in {r \in some : r.id = "logs"}}
            \cup {<<first, second>> : first \in {r \in some : r.id = "logs"}, second \in some}
            \cup {<<r, r>> : r \in some}
=============================================================================
