------------------------------ MODULE HostMutex ------------------------------
(***************************************************************************)
(* What the operation lock of a host promises to its callers: those that   *)
(* may run a transaction on the host at one time all belong to a single    *)
(* process.  No file, no clock and no messages: a grant is one step.       *)
(***************************************************************************)
CONSTANTS Instance, Identity

VARIABLE holders   \* the instances that may use the host

Init == holders = {}

Grant(i) ==
  /\ \A k \in holders : Identity[k] = Identity[i]
  /\ holders' = holders \cup {i}

(* unlock() takes one holder away, the death of a process all of its own.  *)
Release(i) == i \in holders /\ holders' = holders \ {i}
Perish(i)  == holders' = {k \in holders : Identity[k] # Identity[i]}

Next == \E i \in Instance : Grant(i) \/ Release(i) \/ Perish(i)

Spec == Init /\ [][Next]_holders
=============================================================================
