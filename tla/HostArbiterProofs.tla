-------------------------- MODULE HostArbiterProofs --------------------------
(***************************************************************************)
(* The safety of the host arbiter for any number of callers, owners and    *)
(* hosts.  No strengthening is needed: what a sleeping caller waits for    *)
(* can only be opened to it by a release, and a release wakes it.          *)
(***************************************************************************)
EXTENDS HostArbiter, TLAPS

(* A position of a candidate list names a host.                            *)
LEMMA WantedAreHosts ==
  ASSUME NEW t \in Task, NEW n \in DOMAIN Candidates[t]
  PROVE  Candidates[t][n] \in Host
  BY ArbiterAssumption

(* Every step keeps the types.                                             *)
LEMMA TypeStep == TypeOK /\ [Next]_vars => TypeOK'
<1> SUFFICES ASSUME TypeOK, [Next]_vars PROVE TypeOK'
  OBVIOUS
<1> USE ArbiterAssumption DEF TypeOK
<1>1. CASE UNCHANGED vars
  BY <1>1 DEF vars
<1>2. ASSUME NEW t \in Task, Start(t) PROVE TypeOK'
  BY <1>2 DEF Start
<1>3. ASSUME NEW t \in Task, Register(t) PROVE TypeOK'
  BY <1>3 DEF Register
<1>4. ASSUME NEW t \in Task, ScanClaims(t) PROVE TypeOK'
  BY <1>4 DEF ScanClaims
<1>5. ASSUME NEW t \in Task, ScanFails(t) PROVE TypeOK'
  BY <1>5 DEF ScanFails
<1>6. ASSUME NEW t \in Task, Wake(t) \/ PollAgain(t) PROVE TypeOK'
  BY <1>6 DEF Wake, PollAgain
<1>7. ASSUME NEW t \in Task, Elapse(t) \/ Drop(t) PROVE TypeOK'
  BY <1>7 DEF Elapse, Drop
<1>8. ASSUME NEW o \in Owner, NEW h \in Host, TryAcquire(o, h) PROVE TypeOK'
  BY <1>8 DEF TryAcquire
<1>9. ASSUME NEW o \in Owner, NEW h \in Host, Release(o, h) PROVE TypeOK'
  BY <1>9 DEF Release, NotifyWaiters
<1>10. ASSUME NEW o \in Owner, ReleaseOwner(o) PROVE TypeOK'
  BY <1>10 DEF ReleaseOwner, NotifyWaiters
<1> QED
  BY <1>1, <1>2, <1>3, <1>4, <1>5, <1>6, <1>7, <1>8, <1>9, <1>10
  DEF Next, Advance

(* The variables keep their types.                                         *)
THEOREM TypeCorrect == Spec => []TypeOK
<1>1. Init => TypeOK
  BY ArbiterAssumption DEF Init, TypeOK
<1>2. TypeOK /\ [Next]_vars => TypeOK'
  BY TypeStep
<1> QED
  BY <1>1, <1>2, PTL DEF Spec

(* No step but a release opens a host to anybody.                          *)
LEMMA OpensNothing ==
  ASSUME TypeOK, NEW t \in Task, NEW h \in Host, ~ Open(t, h),
         NEW o \in Owner, NEW g \in Host, owners[g] \in {Nobody, o},
         owners' = [owners EXCEPT ![g] = o]
  PROVE  ~ Open(t, h)'
  BY ArbiterAssumption DEF TypeOK, Open

(* No lost wake-up: whatever releases, scans and drops do in between, a    *)
(* caller that sleeps has nothing open to it, or has been woken.           *)
THEOREM NoWakeupIsLost == Spec => []NoLostWakeup
<1>1. Init => NoLostWakeup
  BY DEF Init, NoLostWakeup
<1>2. TypeOK /\ NoLostWakeup /\ [Next]_vars => NoLostWakeup'
  <2> SUFFICES ASSUME TypeOK, NoLostWakeup, [Next]_vars,
                      NEW t \in Task, (pc[t] = "parked" /\ ~ notified[t])',
                      NEW h \in Wanted(t)
               PROVE  ~ Open(t, h)'
    BY DEF NoLostWakeup, Wanted
  <2>h. h \in Host
    BY WantedAreHosts DEF Wanted
  <2>0. ASSUME pc[t] = "parked", ~ notified[t] PROVE ~ Open(t, h)
    BY <2>0 DEF NoLostWakeup
  <2>1. CASE UNCHANGED vars
    BY <2>0, <2>1 DEF vars, Open
  <2>2. ASSUME NEW u \in Task, Start(u) PROVE ~ Open(t, h)'
    BY <2>0, <2>2 DEF Start, Open, TypeOK
  <2>3. ASSUME NEW u \in Task, Register(u) PROVE ~ Open(t, h)'
    BY <2>0, <2>3 DEF Register, Open, TypeOK
  <2>4. ASSUME NEW u \in Task, ScanClaims(u) PROVE ~ Open(t, h)'
    <3>1. PICK n \in DOMAIN Candidates[u] :
            /\ Open(u, Candidates[u][n])
            /\ owners' = [owners EXCEPT ![Candidates[u][n]] = OwnerOf[u]]
      BY <2>4 DEF ScanClaims
    <3>2. pc[t] = "parked" /\ ~ notified[t]
      BY <2>4 DEF ScanClaims, TypeOK
    <3>3. Candidates[u][n] \in Host /\ OwnerOf[u] \in Owner
      BY WantedAreHosts, ArbiterAssumption
    <3> QED
      BY <2>0, <2>h, <3>1, <3>2, <3>3, OpensNothing DEF Open
  <2>5. ASSUME NEW u \in Task, ScanFails(u) PROVE ~ Open(t, h)'
    <3>1. CASE u = t
      BY <2>5, <3>1 DEF ScanFails, Open
    <3>2. CASE u # t
      BY <2>0, <2>5, <3>2 DEF ScanFails, Open, TypeOK
    <3> QED
      BY <3>1, <3>2
  <2>6. ASSUME NEW u \in Task, Wake(u) \/ PollAgain(u) PROVE ~ Open(t, h)'
    BY <2>0, <2>6 DEF Wake, PollAgain, Open, TypeOK
  <2>7. ASSUME NEW u \in Task, Elapse(u) \/ Drop(u) PROVE ~ Open(t, h)'
    BY <2>0, <2>7 DEF Elapse, Drop, Open, TypeOK
  <2>8. ASSUME NEW o \in Owner, NEW g \in Host, TryAcquire(o, g)
        PROVE  ~ Open(t, h)'
    BY <2>0, <2>h, <2>8, OpensNothing DEF TryAcquire
  <2>9. ASSUME NEW o \in Owner, NEW g \in Host, Release(o, g)
        PROVE  ~ Open(t, h)'
    BY <2>9 DEF Release, NotifyWaiters
  <2>10. ASSUME NEW o \in Owner, ReleaseOwner(o) PROVE ~ Open(t, h)'
    BY <2>10 DEF ReleaseOwner, NotifyWaiters
  <2> QED
    BY <2>1, <2>2, <2>3, <2>4, <2>5, <2>6, <2>7, <2>8, <2>9, <2>10
    DEF Next, Advance
<1> QED
  BY <1>1, <1>2, TypeCorrect, PTL DEF Spec

(* A host changes hands only through a release.                            *)
THEOREM HostsAreNeverStolen == Spec => NeverStolen
<1>1. ASSUME TypeOK, [Next]_vars, NEW h \in Host, owners[h] # Nobody
      PROVE  owners'[h] \in {owners[h], Nobody}
  <2> USE <1>1, ArbiterAssumption DEF TypeOK
  <2>1. CASE UNCHANGED owners
    BY <2>1
  <2>2. ASSUME NEW o \in Owner, NEW g \in Host, owners[g] \in {Nobody, o},
               owners' = [owners EXCEPT ![g] = o]
        PROVE  owners'[h] \in {owners[h], Nobody}
    BY <2>2
  <2>3. ASSUME NEW u \in Task, ScanClaims(u)
        PROVE  owners'[h] \in {owners[h], Nobody}
    <3>1. PICK n \in DOMAIN Candidates[u] :
            /\ Open(u, Candidates[u][n])
            /\ owners' = [owners EXCEPT ![Candidates[u][n]] = OwnerOf[u]]
      BY <2>3 DEF ScanClaims
    <3>2. Candidates[u][n] \in Host /\ OwnerOf[u] \in Owner
      BY WantedAreHosts
    <3> QED
      BY <2>2, <3>1, <3>2 DEF Open
  <2>4. ASSUME NEW o \in Owner, NEW g \in Host, TryAcquire(o, g) \/ Release(o, g)
        PROVE  owners'[h] \in {owners[h], Nobody}
    BY <2>4 DEF TryAcquire, Release
  <2>5. ASSUME NEW o \in Owner, ReleaseOwner(o)
        PROVE  owners'[h] \in {owners[h], Nobody}
    BY <2>5 DEF ReleaseOwner
  <2> QED
    BY <2>1, <2>3, <2>4, <2>5
    DEF Next, vars, Advance, Start, Register, ScanFails, Wake, PollAgain,
        Elapse, Drop
<1>2. TypeOK /\ [Next]_vars =>
        [\A h \in Host : owners[h] # Nobody
           => owners'[h] \in {owners[h], Nobody}]_vars
  BY <1>1
<1> QED
  BY <1>2, TypeCorrect, PTL DEF Spec, NeverStolen
=============================================================================
