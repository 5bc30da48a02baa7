------------------------ MODULE MCSecurityGroupRules ------------------------
(***************************************************************************)
(* A group whose grants tie in all fields but one: two ranges with one     *)
(* block, a block and a source group with one range, two families with one *)
(* port, and one family with a port and with none.                         *)
(***************************************************************************)
EXTENDS SecurityGroupRules

Grant(protocol, from, to, source) ==
    [protocol |-> protocol, from |-> from, to |-> to, source |-> source]

MCV4 == {"10.0.0.0/8"}
MCV6 == {"::/0"}
MCGroups == {"sg-2"}

\* The order of the strings, as Python compares them.
MCStrings == <<"-1", "10.0.0.0/8", "::/0", "icmp", "icmpv6", "ipv4", "ipv6", "tcp">>
MCRank == [string \in ToSet(MCStrings) |-> CHOOSE n \in DOMAIN MCStrings : MCStrings[n] = string]

\* Inwards two ranges of ports, outwards every type of ICMP, named -1 or nothing.
PortGrants ==
    [ingress |-> {Grant("tcp", 80, 80, "10.0.0.0/8"), Grant("tcp", 80, 81, "10.0.0.0/8"),
                  Grant("tcp", 80, 80, "sg-2")},
     egress  |-> {Grant("icmpv6", -1, -1, "10.0.0.0/8"), Grant("icmpv6", -1, -1, "::/0"),
                  Grant("icmpv6", Null, Null, "::/0")}]

\* What every new group grants outwards: all traffic.
AllTrafficGrants ==
    [ingress |-> {Grant("tcp", 80, 80, "10.0.0.0/8"), Grant("tcp", 80, 81, "10.0.0.0/8")},
     egress  |-> {Grant("-1", Null, Null, "10.0.0.0/8"), Grant("-1", Null, Null, "::/0")}]
=============================================================================
