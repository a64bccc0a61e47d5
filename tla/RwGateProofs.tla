---------------------------- MODULE RwGateProofs ----------------------------
(***************************************************************************)
(* The gate for any finite set of tasks.  The inductive invariant is that  *)
(* the counters are exact and that a writer is alone: the code looks at    *)
(* counters, so exclusion of the tasks needs them to be right, and they    *)
(* stay right only because the drops give back what was taken.             *)
(***************************************************************************)
EXTENDS RwGate, FiniteSetTheorems, TLAPS

GateInv == TypeOK /\ CountersExact /\ WriterAlone

SameSets == Reading' = Reading /\ Writing' = Writing /\ Queued' = Queued

(* The steps that move nobody into or out of the gate or its queue.        *)
Quiet(t) == \/ Shared(t) \/ Register(t) \/ Park(t) \/ Wake(t) \/ Notify(t)
            \/ Cancel(t) /\ Reader(t)

(* Those steps leave the sets and the counters alone.                      *)
LEMMA QuietSets ==
  ASSUME TypeOK, NEW t \in Task, Quiet(t)
  PROVE  SameSets /\ UNCHANGED inner
<1> USE DEF TypeOK, SameSets, Reading, Writing, Queued, Reader, Writer, Goto
<1>1. CASE Shared(t)
  BY <1>1 DEF Shared
<1>2. CASE Register(t)
  BY <1>2 DEF Register
<1>3. CASE Park(t)
  BY <1>3 DEF Park
<1>4. CASE Wake(t)
  BY <1>4 DEF Wake
<1>5. CASE Notify(t)
  BY <1>5 DEF Notify
<1>6. CASE Cancel(t) /\ Reader(t)
  BY <1>6 DEF Cancel
<1> QED
  BY <1>1, <1>2, <1>3, <1>4, <1>5, <1>6 DEF Quiet

(* A writer queues.                                                        *)
LEMMA ExclusiveSets ==
  ASSUME TypeOK, NEW t \in Task, Exclusive(t)
  PROVE  /\ t \notin Reading \cup Writing \cup Queued
         /\ Reading' = Reading /\ Writing' = Writing
         /\ Queued' = Queued \cup {t}
  BY DEF TypeOK, Reading, Writing, Queued, Reader, Writer, Goto, Exclusive

(* A reader gets in.                                                       *)
LEMMA EnterSharedSets ==
  ASSUME TypeOK, NEW t \in Task, EnterShared(t)
  PROVE  /\ t \notin Reading \cup Writing \cup Queued
         /\ Reading' = Reading \cup {t}
         /\ Writing' = Writing /\ Queued' = Queued
  BY DEF TypeOK, Reading, Writing, Queued, Reader, Writer, Goto, EnterShared

(* A writer gets in.                                                       *)
LEMMA EnterExclusiveSets ==
  ASSUME TypeOK, NEW t \in Task, EnterExclusive(t)
  PROVE  /\ t \in Queued
         /\ Reading' = Reading
         /\ Writing' = Writing \cup {t} /\ Queued' = Queued \ {t}
  BY DEF TypeOK, Reading, Writing, Queued, Reader, Writer, Goto, EnterExclusive

(* A queued writer goes away.                                              *)
LEMMA CancelSets ==
  ASSUME TypeOK, NEW t \in Task, Cancel(t), ~ Reader(t)
  PROVE  /\ t \in Queued /\ t \notin Writing
         /\ Reading' = Reading /\ Writing' = Writing
         /\ Queued' = Queued \ {t}
  BY DEF TypeOK, Reading, Writing, Queued, Reader, Writer, Goto, Cancel

(* A reader leaves.                                                        *)
LEMMA LeaveSharedSets ==
  ASSUME TypeOK, NEW t \in Task, LeaveShared(t)
  PROVE  /\ t \in Reading /\ t \notin Writing
         /\ Reading' = Reading \ {t}
         /\ Writing' = Writing /\ Queued' = Queued
  BY DEF TypeOK, Reading, Writing, Queued, Reader, Writer, Goto, LeaveShared

(* A writer leaves.                                                        *)
LEMMA LeaveExclusiveSets ==
  ASSUME TypeOK, NEW t \in Task, LeaveExclusive(t)
  PROVE  /\ t \in Writing /\ t \notin Reading /\ t \notin Queued
         /\ Reading' = Reading
         /\ Writing' = Writing \ {t} /\ Queued' = Queued
  BY DEF TypeOK, Reading, Writing, Queued, Reader, Writer, Goto, LeaveExclusive

(* Everybody is somewhere among finitely many tasks.                       *)
LEMMA SetsAreFinite ==
  /\ IsFiniteSet(Reading) /\ IsFiniteSet(Queued \cup Writing)
  /\ Cardinality(Reading) \in Nat /\ Cardinality(Queued \cup Writing) \in Nat
<1>1. Reading \in SUBSET Task /\ Queued \cup Writing \in SUBSET Task
  BY DEF Reading, Queued, Writing
<1> QED
  BY <1>1, TaskAssumption, FS_Subset, FS_CardinalityType

(* Leaving a finite set.                                                   *)
LEMMA OneLess ==
  ASSUME NEW S, IsFiniteSet(S), NEW x \in S
  PROVE  Cardinality(S \ {x}) = Cardinality(S) - 1 /\ Cardinality(S) - 1 \in Nat
<1>1. IsFiniteSet(S \ {x}) /\ Cardinality(S \ {x}) = Cardinality(S) - 1
  BY FS_RemoveElement
<1>2. Cardinality(S \ {x}) \in Nat
  BY <1>1, FS_CardinalityType
<1> QED
  BY <1>1, <1>2

(* What a task reads off exact counters is true of the tasks.              *)
LEMMA CountersTell ==
  ASSUME TypeOK, CountersExact
  PROVE  /\ readers = 0 <=> Reading = {}
         /\ writersWaiting = 0 => Queued = {} /\ Writing = {}
         /\ ~ writerActive <=> Writing = {}
<1>1. Cardinality(Reading) = 0 <=> Reading = {}
  BY SetsAreFinite, FS_EmptySet
<1>2. Cardinality(Queued \cup Writing) = 0 <=> Queued \cup Writing = {}
  BY SetsAreFinite, FS_EmptySet
<1> QED
  BY <1>1, <1>2 DEF CountersExact

(* Every step keeps the invariant: the sets and the counters move          *)
(* together.                                                               *)
LEMMA GateStep == GateInv /\ [Next]_vars => GateInv'
<1> SUFFICES ASSUME GateInv, [Next]_vars PROVE GateInv'
  OBVIOUS
<1>t. TypeOK /\ CountersExact /\ WriterAlone
  BY DEF GateInv
<1>0. ASSUME SameSets, UNCHANGED inner
      PROVE  CountersExact' /\ WriterAlone'
  BY <1>0, <1>t DEF SameSets, inner, CountersExact, WriterAlone
<1>1. CASE UNCHANGED vars
  BY <1>1, <1>t DEF vars, inner, GateInv, TypeOK, CountersExact, WriterAlone,
     Reading, Writing, Queued, Reader, Writer
<1>2. ASSUME NEW t \in Task, Quiet(t) PROVE GateInv'
  <2>1. TypeOK'
    BY <1>2, <1>t DEF TypeOK, Quiet, Shared, Register, Park, Wake, Notify,
       Cancel, Goto, inner
  <2> QED
    BY <2>1, <1>0, <1>2, <1>t, QuietSets DEF GateInv
<1>3. ASSUME NEW t \in Task, Exclusive(t) PROVE GateInv'
  <2>1. TypeOK'
    BY <1>3, <1>t DEF TypeOK, Exclusive, Goto
  <2>2. (Queued \cup Writing)' = (Queued \cup Writing) \cup {t}
        /\ t \notin Queued \cup Writing
    BY <1>3, <1>t, ExclusiveSets
  <2>3. Cardinality((Queued \cup Writing)') = writersWaiting + 1
    BY <2>2, <1>t, SetsAreFinite, FS_AddElement DEF CountersExact
  <2>4. CountersExact'
    BY <2>3, <1>3, <1>t, ExclusiveSets DEF CountersExact, Exclusive
  <2> QED
    BY <2>1, <2>4, <1>3, <1>t, ExclusiveSets DEF GateInv, WriterAlone
<1>4. ASSUME NEW t \in Task, EnterShared(t) PROVE GateInv'
  <2>1. TypeOK'
    BY <1>4, <1>t DEF TypeOK, EnterShared, Goto
  <2>2. Cardinality(Reading') = readers + 1
    BY <1>4, <1>t, EnterSharedSets, SetsAreFinite, FS_AddElement
    DEF CountersExact
  <2>3. CountersExact'
    BY <2>2, <1>4, <1>t, EnterSharedSets DEF CountersExact, EnterShared
  <2>4. Writing = {}
    BY <1>4, <1>t, CountersTell DEF EnterShared, Closed
  <2> QED
    BY <2>1, <2>3, <2>4, <1>4, <1>t, EnterSharedSets DEF GateInv, WriterAlone
<1>5. ASSUME NEW t \in Task, EnterExclusive(t) PROVE GateInv'
  <2>1. TypeOK'
    BY <1>5, <1>t DEF TypeOK, EnterExclusive, Goto
  <2>2. (Queued \cup Writing)' = Queued \cup Writing /\ Writing' # {}
    BY <1>5, <1>t, EnterExclusiveSets
  <2>3. CountersExact'
    BY <2>2, <1>5, <1>t, EnterExclusiveSets DEF CountersExact, EnterExclusive
  <2>4. Reading = {} /\ Writing = {}
    BY <1>5, <1>t, CountersTell
    DEF EnterExclusive, Closed, Reader, Writer, TypeOK
  <2> QED
    BY <2>1, <2>3, <2>4, <1>5, <1>t, EnterExclusiveSets DEF GateInv, WriterAlone
<1>6. ASSUME NEW t \in Task, Cancel(t), ~ Reader(t) PROVE GateInv'
  <2>2. (Queued \cup Writing)' = (Queued \cup Writing) \ {t}
        /\ t \in Queued \cup Writing
    BY <1>6, <1>t, CancelSets
  <2>3. Cardinality((Queued \cup Writing)') = writersWaiting - 1
        /\ writersWaiting - 1 \in Nat
    BY <2>2, <1>t, SetsAreFinite, OneLess
    DEF CountersExact
  <2>1. TypeOK'
    BY <2>3, <1>6, <1>t DEF TypeOK, Cancel, Goto
  <2>4. CountersExact'
    BY <2>3, <1>6, <1>t, CancelSets DEF CountersExact, Cancel
  <2> QED
    BY <2>1, <2>4, <1>6, <1>t, CancelSets DEF GateInv, WriterAlone
<1>7. ASSUME NEW t \in Task, LeaveShared(t) PROVE GateInv'
  <2>3. Cardinality(Reading') = readers - 1 /\ readers - 1 \in Nat
    BY <1>7, <1>t, LeaveSharedSets, SetsAreFinite, OneLess
    DEF CountersExact
  <2>1. TypeOK'
    BY <2>3, <1>7, <1>t DEF TypeOK, LeaveShared, Goto
  <2>4. CountersExact'
    BY <2>3, <1>7, <1>t, LeaveSharedSets DEF CountersExact, LeaveShared
  <2> QED
    BY <2>1, <2>4, <1>7, <1>t, LeaveSharedSets DEF GateInv, WriterAlone
<1>8. ASSUME NEW t \in Task, LeaveExclusive(t) PROVE GateInv'
  <2>2. Writing = {t} /\ Writing' = {}
    BY <1>8, <1>t, LeaveExclusiveSets DEF WriterAlone
  <2>3. (Queued \cup Writing)' = (Queued \cup Writing) \ {t}
        /\ t \in Queued \cup Writing
    BY <1>8, <1>t, LeaveExclusiveSets
  <2>4. Cardinality((Queued \cup Writing)') = writersWaiting - 1
        /\ writersWaiting - 1 \in Nat
    BY <2>3, <1>t, SetsAreFinite, OneLess
    DEF CountersExact
  <2>1. TypeOK'
    BY <2>4, <1>8, <1>t DEF TypeOK, LeaveExclusive, Goto
  <2>5. CountersExact'
    BY <2>2, <2>4, <1>8, <1>t, LeaveExclusiveSets
    DEF CountersExact, LeaveExclusive
  <2> QED
    BY <2>1, <2>2, <2>5 DEF GateInv, WriterAlone
<1> QED
  BY <1>1, <1>2, <1>3, <1>4, <1>5, <1>6, <1>7, <1>8
  DEF Next, Poll, Leave, Quiet

(* The invariant holds throughout.                                         *)
LEMMA GateInvHolds == Spec => []GateInv
<1>1. Init => GateInv
  <2> SUFFICES ASSUME Init PROVE GateInv
    OBVIOUS
  <2>1. Reading = {} /\ Writing = {} /\ Queued = {}
    BY DEF Init, Reading, Writing, Queued
  <2> QED
    BY <2>1, FS_EmptySet DEF Init, GateInv, TypeOK, CountersExact, WriterAlone
<1> QED
  BY <1>1, GateStep, PTL DEF Spec

(* The variables keep their types; no counter goes below zero.             *)
THEOREM TypeCorrect == Spec => []TypeOK
  BY GateInvHolds, PTL DEF GateInv

(* The counters are exact: no cancelled wait leaks its bump, and none is   *)
(* given back twice.                                                       *)
THEOREM CountersAreExact == Spec => []CountersExact
  BY GateInvHolds, PTL DEF GateInv

(* A registry mutator holds the gate alone.                                *)
THEOREM WritersAreAlone == Spec => []WriterAlone
  BY GateInvHolds, PTL DEF GateInv

(* The gate implements the readers-writers lock that prefers writers.      *)
THEOREM GateImplements == Spec => ImplementsReadersWriters
<1>1. Init => Promise!Init
  BY DEF Init, Promise!Init, Reading, Writing, Queued
<1>2. ASSUME GateInv, [Next]_vars PROVE [Promise!Next]_(Promise!vars)
  <2>t. TypeOK /\ CountersExact
    BY <1>2 DEF GateInv
  <2>1. ASSUME SameSets PROVE UNCHANGED Promise!vars
    BY <2>1 DEF SameSets, Promise!vars
  <2>2. CASE UNCHANGED vars
    BY <2>2 DEF vars, inner, Promise!vars, Reading, Writing, Queued, Reader,
       Writer
  <2>3. ASSUME NEW t \in Task, Quiet(t) PROVE UNCHANGED Promise!vars
    BY <2>1, <2>3, <2>t, QuietSets
  <2>4. ASSUME NEW t \in Task, Exclusive(t) PROVE Promise!Queue(t)
    BY <2>4, <2>t, ExclusiveSets DEF Promise!Queue, Promise!Away
  <2>5. ASSUME NEW t \in Task, EnterShared(t) PROVE Promise!Read(t)
    <3>1. Queued = {} /\ Writing = {}
      BY <2>5, <2>t, CountersTell DEF EnterShared, Closed, TypeOK
    <3> QED
      BY <3>1, <2>5, <2>t, EnterSharedSets DEF Promise!Read, Promise!Away
  <2>6. ASSUME NEW t \in Task, EnterExclusive(t) PROVE Promise!Write(t)
    <3>1. Reading = {} /\ Writing = {}
      BY <2>6, <2>t, CountersTell
      DEF EnterExclusive, Closed, Reader, Writer, TypeOK
    <3> QED
      BY <3>1, <2>6, <2>t, EnterExclusiveSets DEF Promise!Write
  <2>7. ASSUME NEW t \in Task, Cancel(t), ~ Reader(t) PROVE Promise!Withdraw(t)
    BY <2>7, <2>t, CancelSets DEF Promise!Withdraw
  <2>8. ASSUME NEW t \in Task, LeaveShared(t) PROVE Promise!Leave(t)
    BY <2>8, <2>t, LeaveSharedSets DEF Promise!Leave
  <2>9. ASSUME NEW t \in Task, LeaveExclusive(t) PROVE Promise!Leave(t)
    BY <2>9, <2>t, LeaveExclusiveSets DEF Promise!Leave
  <2> QED
    BY <1>2, <2>2, <2>3, <2>4, <2>5, <2>6, <2>7, <2>8, <2>9
    DEF Next, Poll, Leave, Quiet, Promise!Next
<1> QED
  BY <1>1, <1>2, GateInvHolds, PTL
  DEF Spec, ImplementsReadersWriters, Promise!Spec

(* No lost wake-up, though the notification comes after the counters have  *)
(* changed: whoever opened the gate has yet to notify.                     *)
THEOREM NoWakeupIsLost == Spec => []NoLostWakeup
<1>1. Init => NoLostWakeup
  BY DEF Init, NoLostWakeup
<1>2. TypeOK /\ NoLostWakeup /\ [Next]_vars => NoLostWakeup'
  <2> SUFFICES ASSUME TypeOK, NoLostWakeup, [Next]_vars,
                      NEW t \in Task,
                      (pc[t] = "parked" /\ ~ notified[t] /\ ~ Closed(t))'
               PROVE  (\E u \in Task : pc[u] = "notify")'
    BY DEF NoLostWakeup
  <2> USE DEF TypeOK, NoLostWakeup, Closed, Reader, Writer, Goto, inner
  <2>1. CASE UNCHANGED vars
    BY <2>1 DEF vars
  <2>2. ASSUME NEW u \in Task, Shared(u) \/ Exclusive(u)
        PROVE  (\E v \in Task : pc[v] = "notify")'
    BY <2>2 DEF Shared, Exclusive
  <2>3. ASSUME NEW u \in Task, Register(u) \/ Park(u) \/ Wake(u)
        PROVE  (\E v \in Task : pc[v] = "notify")'
    BY <2>3 DEF Register, Park, Wake
  <2>4. ASSUME NEW u \in Task, EnterShared(u) \/ EnterExclusive(u)
        PROVE  (\E v \in Task : pc[v] = "notify")'
    BY <2>4 DEF EnterShared, EnterExclusive
  <2>5. ASSUME NEW u \in Task, Cancel(u)
        PROVE  (\E v \in Task : pc[v] = "notify")'
    BY <2>5 DEF Cancel
  <2>6. ASSUME NEW u \in Task, Leave(u)
        PROVE  (\E v \in Task : pc[v] = "notify")'
    BY <2>6 DEF Leave, LeaveShared, LeaveExclusive
  <2>7. ASSUME NEW u \in Task, Notify(u)
        PROVE  (\E v \in Task : pc[v] = "notify")'
    BY <2>7 DEF Notify
  <2> QED
    BY <2>1, <2>2, <2>3, <2>4, <2>5, <2>6, <2>7 DEF Next, Poll
<1> QED
  BY <1>1, <1>2, TypeCorrect, PTL DEF Spec
=============================================================================
