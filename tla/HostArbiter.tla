----------------------------- MODULE HostArbiter -----------------------------
(***************************************************************************)
(* The in-process map of hosts to owners and its wait queue                *)
(* (crates/mtui-hosts/src/target/arbiter.rs).                              *)
(*                                                                         *)
(* A Task is one caller of acquire_any, an owner one loaded template of    *)
(* one registry.  The map is behind a mutex, so each scan of it is a step; *)
(* registering for a wake-up, the scan and the sleep are separate steps on *)
(* a multi-threaded runtime.                                               *)
(***************************************************************************)
EXTENDS Integers, Sequences

CONSTANTS
  Task, Host,
  Owner,        \* (registry id, RRID) pairs
  OwnerOf,      \* [Task -> Owner]
  Candidates,   \* [Task -> sequence of hosts, in the order to try]
  Nobody,       \* no entry in the map
  Waits         \* is [lock] wait positive?  If not, callers fail fast

VARIABLES
  owners,     \* the map
  pc,         \* where each call is: "register", "scan", "parked" or "idle"
  notified,   \* the Notified future of this iteration has been woken
  due         \* the deadline of this call has passed

vars == <<owners, pc, notified, due>>

ASSUME ArbiterAssumption ==
  /\ OwnerOf \in [Task -> Owner]
  /\ Candidates \in [Task -> Seq(Host)]
  /\ Nobody \notin Owner
  /\ Waits \in BOOLEAN

Open(t, h) == owners[h] \in {Nobody, OwnerOf[t]}

Wanted(t) == {Candidates[t][n] : n \in DOMAIN Candidates[t]}

Init ==
  /\ owners = [h \in Host |-> Nobody]
  /\ pc = [t \in Task |-> "idle"]
  /\ notified = [t \in Task |-> FALSE]
  /\ due = [t \in Task |-> FALSE]

(* try_acquire.                                                            *)
TryAcquire(o, h) ==
  /\ owners[h] \in {Nobody, o}
  /\ owners' = [owners EXCEPT ![h] = o]
  /\ UNCHANGED <<pc, notified, due>>

(* acquire_any: nothing to do for an empty candidate list.                 *)
Start(t) ==
  /\ pc[t] = "idle" /\ Candidates[t] # << >>
  /\ pc' = [pc EXCEPT ![t] = "register"]
  /\ due' = [due EXCEPT ![t] = ~ Waits]
  /\ UNCHANGED <<owners, notified>>

(* notify.notified(), before the scan.                                     *)
Register(t) ==
  /\ pc[t] = "register"
  /\ notified' = [notified EXCEPT ![t] = FALSE]
  /\ pc' = [pc EXCEPT ![t] = "scan"]
  /\ UNCHANGED <<owners, due>>

(* Mutant: a candidate is taken whoever holds it.                          *)
ScanTaking(t) ==
  /\ pc[t] = "scan"
  /\ owners' = [owners EXCEPT ![Candidates[t][1]] = OwnerOf[t]]
  /\ pc' = [pc EXCEPT ![t] = "idle"]
  /\ UNCHANGED <<notified, due>>

(* try_claim_first: the first candidate that is free or already ours.      *)
ScanClaims(t) ==
  /\ pc[t] = "scan"
  /\ \E n \in DOMAIN Candidates[t] :
       /\ Open(t, Candidates[t][n])
       /\ \A k \in 1 .. n - 1 : ~ Open(t, Candidates[t][k])
       /\ owners' = [owners EXCEPT ![Candidates[t][n]] = OwnerOf[t]]
  /\ pc' = [pc EXCEPT ![t] = "idle"]
  /\ UNCHANGED <<notified, due>>

(* Mutant: the deadline is only looked at when a poll ran its full time.   *)
ScanHopes(t) ==
  /\ pc[t] = "scan"
  /\ \A h \in Wanted(t) : ~ Open(t, h)
  /\ pc' = [pc EXCEPT ![t] = IF due[t] /\ ~ notified[t] THEN "idle" ELSE "parked"]
  /\ UNCHANGED <<owners, notified, due>>

(* Every candidate is held: fail fast, give up at the deadline, or sleep.  *)
ScanFails(t) ==
  /\ pc[t] = "scan"
  /\ \A h \in Wanted(t) : ~ Open(t, h)
  /\ pc' = [pc EXCEPT ![t] = IF due[t] THEN "idle" ELSE "parked"]
  /\ UNCHANGED <<owners, notified, due>>

(* The select!: a release, or the poll interval.                           *)
Wake(t) ==
  /\ pc[t] = "parked" /\ notified[t]
  /\ pc' = [pc EXCEPT ![t] = "register"]
  /\ UNCHANGED <<owners, notified, due>>

PollAgain(t) ==
  /\ pc[t] = "parked"
  /\ pc' = [pc EXCEPT ![t] = "register"]
  /\ UNCHANGED <<owners, notified, due>>

(* The monotonic clock passes the deadline, wherever the call is.          *)
Elapse(t) ==
  /\ pc[t] # "idle" /\ ~ due[t]
  /\ due' = [due EXCEPT ![t] = TRUE]
  /\ UNCHANGED <<owners, pc, notified>>

(* The caller goes away inside acquire_any (an aborted job).               *)
Drop(t) ==
  /\ pc[t] # "idle"
  /\ pc' = [pc EXCEPT ![t] = "idle"]
  /\ UNCHANGED <<owners, notified, due>>

(* Mutant: notify_one, the release wakes a single sleeping caller.         *)
NotifyOne ==
  LET asleep == {t \in Task : pc[t] = "parked" /\ ~ notified[t]}
  IN IF asleep = {}
     THEN notified' = notified
     ELSE \E t \in asleep : notified' = [notified EXCEPT ![t] = TRUE]

(* notify_waiters wakes every future that exists, polled or not.           *)
NotifyWaiters ==
  notified' = [t \in Task |-> notified[t] \/ pc[t] \in {"scan", "parked"}]

Release(o, h) ==
  /\ owners[h] = o
  /\ owners' = [owners EXCEPT ![h] = Nobody]
  /\ NotifyWaiters
  /\ UNCHANGED <<pc, due>>

ReleaseOwner(o) ==
  /\ \E h \in Host : owners[h] = o
  /\ owners' = [h \in Host |-> IF owners[h] = o THEN Nobody ELSE owners[h]]
  /\ NotifyWaiters
  /\ UNCHANGED <<pc, due>>

Advance(t) == \/ Register(t) \/ ScanClaims(t) \/ ScanFails(t) \/ Wake(t)
              \/ PollAgain(t)

Next ==
  \/ \E t \in Task : Start(t) \/ Advance(t) \/ Elapse(t) \/ Drop(t)
  \/ \E o \in Owner, h \in Host : TryAcquire(o, h) \/ Release(o, h)
  \/ \E o \in Owner : ReleaseOwner(o)

Spec == Init /\ [][Next]_vars

(* The runtime polls a call that can go on, and time passes.               *)
FairSpec == Spec /\ \A t \in Task : WF_vars(Advance(t)) /\ WF_vars(Elapse(t))

----------------------------------------------------------------------------
TypeOK ==
  /\ owners \in [Host -> Owner \cup {Nobody}]
  /\ pc \in [Task -> {"idle", "register", "scan", "parked"}]
  /\ notified \in [Task -> BOOLEAN]
  /\ due \in [Task -> BOOLEAN]

(* No lost wake-up: a caller is not asleep while one of its candidates is  *)
(* open to it, unless the release has already woken it.                    *)
NoLostWakeup ==
  \A t \in Task : pc[t] = "parked" /\ ~ notified[t]
                    => \A h \in Wanted(t) : ~ Open(t, h)

(* A host passes from one owner to another only by a release.              *)
NeverStolen ==
  [][\A h \in Host : owners[h] # Nobody
       => owners'[h] \in {owners[h], Nobody}]_vars

(* A caller that stays is answered within its budget, whoever else comes   *)
(* and goes: a flood of releases must not keep it in the loop for ever.    *)
CallsAnswered == \A t \in Task : []<>(pc[t] = "idle")
=============================================================================
