------------------------------ MODULE HostsGroup ------------------------------
(***************************************************************************)
(* The group of reference hosts one command works on, and the three fan-   *)
(* outs every workflow is built from: take the operation lock on all hosts *)
(* or on none, give it back, and reboot the transactional hosts in four    *)
(* phases with a verdict per host (target/hostgroup.rs, target/mod.rs).    *)
(*                                                                         *)
(* A fan-out waits for every host, and what it does at one host does not   *)
(* depend on another, so one phase is one step that picks an outcome for   *)
(* every host.  Between two phases the environment moves: a host leaves    *)
(* and rejoins the network, another tester takes and drops a host's lock.  *)
(***************************************************************************)
EXTENDS Naturals, FiniteSets

CONSTANTS
    Hosts,          \* the reference hosts of the group
    Transactional,  \* those with a read-only root: changes are staged, a reboot activates them
    Pkgs,           \* the packages of the update under test
    MaxFaults,      \* bound: mishaps at the hosts
    MaxForeign      \* bound: locks another tester may take

ASSUME GroupAssumption ==
    /\ Hosts # {} /\ IsFiniteSet(Hosts)
    /\ Transactional \subseteq Hosts
    /\ Pkgs # {}
    /\ MaxFaults \in Nat /\ MaxForeign \in Nat

VARIABLES
    alive,    \* alive[h]: h answers on the network
    lock,     \* lock[h]: the operation lock file on h
    root,     \* root[h]: the packages that h runs in the version of the update
    snap,     \* snap[h]: the snapshot staged for the next boot of h
    asked,    \* the hosts of the reboot map
    oldId,    \* hosts whose boot id was read before the reboot
    booted,   \* hosts that went through a boot since then
    sent,     \* hosts that took the reboot command
    cause,    \* cause[h]: RebootFailureCause of h, or "none"
    blind,    \* hosts whose boot id could not be compared
    stuck,    \* hosts whose lock or unlock failed, which the command reported
    faults, foreigners

hostVars  == <<alive, lock, root, snap>>
bootVars  == <<asked, oldId, booted, sent, cause, blind>>
envVars   == <<faults, foreigners>>
groupVars == <<hostVars, bootVars, stuck, envVars>>

\* "own" is this process's line without a comment, "kept" its line with one
\* (an assignment, an operator's lock -c), "foreign" another process's line;
\* "blank" is an empty file, which reads as unlocked and lets nobody create.
Locks == {"free", "own", "kept", "foreign", "blank"}
Mine  == {"own", "kept"}

NoSnap     == [pkgs |-> {}, ok |-> TRUE, some |-> FALSE]
Snap(p, g) == [pkgs |-> p, ok |-> g, some |-> TRUE]

Causes == {"none", "unreachable", "undispatched", "inert"}

GroupTypeOK ==
    /\ alive \in [Hosts -> BOOLEAN]
    /\ lock \in [Hosts -> Locks]
    /\ root \in [Hosts -> SUBSET Pkgs]
    /\ snap \in [Hosts -> [pkgs : SUBSET Pkgs, ok : BOOLEAN, some : BOOLEAN]]
    /\ asked \subseteq Hosts /\ oldId \subseteq Hosts /\ booted \subseteq Hosts
    /\ sent \subseteq Hosts /\ blind \subseteq Hosts /\ stuck \subseteq Hosts
    /\ cause \in [Hosts -> Causes]
    /\ faults \in 0 .. MaxFaults /\ foreigners \in 0 .. MaxForeign

\* The hosts come as earlier sessions left them: with the update, or without
\* it and then with the snapshot of a failed attempt staged or not.
GroupInit ==
    /\ alive = [h \in Hosts |-> TRUE]
    /\ lock = [h \in Hosts |-> "free"]
    /\ \E pkgs \in {{}, Pkgs} :
          /\ root = [h \in Hosts |-> pkgs]
          /\ snap \in [Hosts -> {NoSnap, Snap(Pkgs, FALSE)}]
          /\ \A h \in Hosts : h \notin Transactional \/ pkgs = Pkgs => snap[h] = NoSnap
    /\ asked = {} /\ oldId = {} /\ booted = {} /\ sent = {} /\ blind = {} /\ stuck = {}
    /\ cause = [h \in Hosts |-> "none"]
    /\ faults = 0 /\ foreigners = 0

Alive == {h \in Hosts : alive[h]}

\* Every host at which a phase goes wrong uses up a mishap.
Mishaps(hs) ==
    /\ faults' = faults + Cardinality(hs)
    /\ faults' <= MaxFaults

-----------------------------------------------------------------------------
(***************************************************************************)
(* The operation lock.                                                     *)
(***************************************************************************)
\* Hosts on which lock() succeeds: reachable, and free or already ours.
Lockable == {h \in Alive : lock[h] \notin {"foreign", "blank"}}

\* lock_where: every host of hs is tried, a contended or failing one skipped;
\* got are those whose lock() succeeded.  One that fails may have got as far
\* as the open that empties the file, or as the line it wrote into it.
LockWhere(hs, line, got) ==
    LET broke == (hs \cap Lockable) \ got IN
    /\ got \subseteq hs \cap Lockable
    /\ Mishaps(broke)
    /\ lock' \in [Hosts -> Locks]
    /\ \A h \in Hosts :
          lock'[h] \in IF h \in got THEN {line}
                      ELSE IF h \in broke THEN {lock[h], line, "blank"} ELSE {lock[h]}

\* unlock_where: removes every line of this process, whatever its comment;
\* a foreign line is left, and a host that cannot be asked keeps its line.
UnlockWhere(hs) ==
    lock' = [h \in Hosts |-> IF h \in hs \cap Alive /\ lock[h] \in Mine THEN "free" ELSE lock[h]]

-----------------------------------------------------------------------------
(***************************************************************************)
(* The reboot of the hosts in `asked`: boot ids, dispatch, reconnect,      *)
(* verify.  The first three record the failure that outranks the next.     *)
(***************************************************************************)
BootIds ==
    /\ oldId' \in SUBSET (asked \cap Alive)
    /\ Mishaps((asked \cap Alive) \ oldId')
    /\ booted' = {} /\ sent' = {} /\ blind' = {}
    /\ cause' = [h \in Hosts |-> "none"]
    /\ UNCHANGED <<hostVars, asked, stuck, foreigners>>

\* A host that takes the command either boots, and with it runs what is
\* staged and loses /var/lock, or ignores the command.  It may not come back.
Dispatch ==
    \E took \in SUBSET (asked \cap Alive) :
    \E boots \in SUBSET took :
    \E gone \in SUBSET boots :
        /\ Mishaps((asked \cap Alive) \ (boots \ gone))
        /\ sent' = took
        /\ booted' = boots
        /\ root' = [h \in Hosts |-> IF h \in boots /\ snap[h].some THEN snap[h].pkgs ELSE root[h]]
        /\ snap' = [h \in Hosts |-> IF h \in boots THEN NoSnap ELSE snap[h]]
        /\ lock' = [h \in Hosts |-> IF h \in boots THEN "free" ELSE lock[h]]
        /\ alive' = [h \in Hosts |-> alive[h] /\ h \notin gone]
        /\ cause' = [h \in Hosts |-> IF h \in asked \ took THEN "undispatched" ELSE "none"]
        /\ UNCHANGED <<asked, oldId, blind, stuck, foreigners>>

\* A host that took the command had its session torn down and is dialled
\* anew; the session of one that did not may still look open although the
\* host is gone.  Only a failed dial outranks the dispatch failure.
Reconnect ==
    \E looksOpen \in SUBSET (asked \ (sent \cup Alive)) :
        /\ cause' = [h \in Hosts |-> IF h \in asked \ (Alive \cup looksOpen)
                                     THEN "unreachable" ELSE cause[h]]
        /\ UNCHANGED <<hostVars, asked, oldId, booted, sent, blind, stuck, envVars>>

\* Mutant: a host that answers again counts as rebooted.
VerifyReconnected ==
    /\ blind' = asked \ oldId
    /\ UNCHANGED <<hostVars, asked, oldId, booted, sent, cause, stuck, envVars>>

\* Only two boot ids that were both read can contradict a reboot.
Verify ==
    \E newId \in SUBSET (asked \cap Alive) :
        /\ Mishaps((asked \cap Alive) \ newId)
        /\ blind' = asked \ (oldId \cap newId)
        /\ cause' = [h \in Hosts |->
              IF h \in asked \cap oldId \cap newId /\ h \notin booted /\ cause[h] = "none"
              THEN "inert" ELSE cause[h]]
        /\ UNCHANGED <<hostVars, asked, oldId, booted, sent, stuck, foreigners>>

\* The next body starts with a clean record of its reboots.
QuietBoot ==
    /\ asked' = {} /\ oldId' = {} /\ booted' = {} /\ sent' = {} /\ blind' = {}
    /\ cause' = [h \in Hosts |-> "none"]

RebootFailed == {h \in Hosts : cause[h] # "none"}

\* host_still_reachable
StillReachable(c) == c \in {"undispatched", "inert"}

-----------------------------------------------------------------------------
(***************************************************************************)
(* The environment.                                                        *)
(***************************************************************************)
HostLost(h) ==
    /\ alive[h] /\ Mishaps({h})
    /\ alive' = [alive EXCEPT ![h] = FALSE]
    /\ UNCHANGED <<lock, root, snap, bootVars, stuck, foreigners>>

HostBack(h) ==
    /\ ~alive[h]
    /\ alive' = [alive EXCEPT ![h] = TRUE]
    /\ UNCHANGED <<lock, root, snap, bootVars, stuck, envVars>>

ForeignLock(h) ==
    /\ alive[h] /\ lock[h] = "free" /\ foreigners < MaxForeign
    /\ lock' = [lock EXCEPT ![h] = "foreign"]
    /\ foreigners' = foreigners + 1
    /\ UNCHANGED <<alive, root, snap, bootVars, stuck, faults>>

ForeignUnlock(h) ==
    /\ alive[h] /\ lock[h] = "foreign"
    /\ lock' = [lock EXCEPT ![h] = "free"]
    /\ UNCHANGED <<alive, root, snap, bootVars, stuck, envVars>>

Environment ==
    \E h \in Hosts : HostLost(h) \/ HostBack(h) \/ ForeignLock(h) \/ ForeignUnlock(h)
===============================================================================
