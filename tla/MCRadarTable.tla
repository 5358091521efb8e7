---------------------------- MODULE MCRadarTable ----------------------------
(***************************************************************************)
(* Instances of RadarTable for TLC: up to three transmitters, one of which  *)
(* has a 0 as the first octet of its address and differs from another only *)
(* there.                                                                  *)
(***************************************************************************)
EXTENDS RadarTable

MCAddresses == {[first |-> 1, rest |-> 1],
                [first |-> 2, rest |-> 2],
                [first |-> 0, rest |-> 1]}
TwoAddresses == {[first |-> 1, rest |-> 1], [first |-> 2, rest |-> 2]}

\* An operator ID without a location; an operator ID and a location that hold
\* the empty string and latitude 0.0, with a Basic ID.
MCPacks == {[NoData EXCEPT !.oper = "real"],
            [other |-> TRUE, oper |-> "empty", loc |-> "empty"]}
=============================================================================
