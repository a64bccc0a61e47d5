---------------------------- MODULE MCHostArbiter ----------------------------
(* Three callers of two owners after two hosts, in different orders.       *)
EXTENDS HostArbiter

CONSTANTS t1, t2, t3, h1, h2, o1, o2

MCOwnerOf == [t \in Task |-> IF t = t3 THEN o2 ELSE o1]
MCCandidates == [t \in Task |-> CASE t = t1 -> <<h1, h2>>
                                  [] t = t2 -> <<h2>>
                                  [] OTHER  -> <<h2, h1>>]
=============================================================================
