-------------------------- MODULE McpSessionProofs --------------------------
(***************************************************************************)
(* For any number of calls and templates: a job ends once, and the         *)
(* registry does not change under a dispatch on a fork.  The second needs  *)
(* to know where a call holds the gate; the invariant that says so speaks  *)
(* of one call at a time, and of the gate only that readers and a writer   *)
(* exclude each other.                                                     *)
(***************************************************************************)
EXTENDS McpSession, FiniteSetTheorems, TLAPS

Place == {"idle", "start", "shared", "rrid", "queued", "boundary", "body",
          "locking", "working", "leaving", "record", "evict", "end"}
Passing == {"preamble", "gate", "rrid", "entry", "unlock"}
Stage == Passing \cup {"no", "grace", "evict", "replied"}
Status == {"none", "running", "ended", "cancelled", "evicted"}
Command == {"run", "update", "load", "unload"}
Argument == Template \cup {Unscoped, AllTemplates}

Types ==
  /\ pc \in [Call -> Place] /\ cx \in [Call -> Stage]
  /\ cmd \in [Call -> Command] /\ state \in [Call -> Status]
  /\ orphan \in [Call -> BOOLEAN]
  /\ arg \in [Call -> Argument] /\ key \in [Call -> Argument \cup {None}]
  /\ plan \in [Call -> SUBSET Argument] /\ todo \in [Call -> SUBSET Argument]
  /\ loaded \subseteq Argument /\ active \in Argument \cup {None}

(* The worker of c is in its task, and the task was not aborted.           *)
Live(c) == InTask(c) /\ ~ orphan[c]

Places(c) ==
  /\ Scoped(c) => ~ Mutator(c) /\ (InTask(c) \/ pc[c] \in {"shared", "rrid"})
  /\ orphan[c] => InTask(c)
  /\ cx[c] \in Passing => orphan[c] \/ pc[c] = "end"

Holds(c) ==
  /\ pc[c] = "rrid" \/ Live(c) => c \in reading
  /\ Mutator(c) /\ pc[c] = "body" => c \in writing

Current(c) == Live(c) => plan[c] \subseteq loaded

GateExcludes == writing = {} \/ reading = {}

IInv ==
  /\ Types /\ GateExcludes
  /\ \A c \in Call : Places(c) /\ Holds(c) /\ Current(c)

(* What the invariant says of a call stays true of one that a step leaves  *)
(* alone, unless a template goes.                                          *)
Same(c) ==
  /\ pc'[c] = pc[c] /\ cx'[c] = cx[c] /\ cmd'[c] = cmd[c]
  /\ orphan'[c] = orphan[c] /\ key'[c] = key[c] /\ plan'[c] = plan[c]
  /\ (c \in reading' <=> c \in reading) /\ (c \in writing' <=> c \in writing)

LEMMA InitIInv == Init => IInv
<1> SUFFICES ASSUME Init PROVE IInv
  OBVIOUS
<1>1. Types
  BY DEF Init, Types, Place, Stage, Passing, Status, Command, Argument
<1>2. GateExcludes
  BY DEF Init, GateExcludes, Gate!Init
<1>3. ASSUME NEW c \in Call PROVE Places(c) /\ Holds(c) /\ Current(c)
  BY DEF Init, Places, Holds, Current, Live, InTask, Scoped, Mutator, Passing
<1> QED
  BY <1>1, <1>2, <1>3 DEF IInv

LEMMA SameKeeps ==
  ASSUME NEW c \in Call, Same(c), Places(c), Holds(c)
  PROVE  /\ Places(c)' /\ Holds(c)'
         /\ Live(c)' <=> Live(c)
         /\ Current(c) /\ loaded \subseteq loaded' => Current(c)'
<1>1. /\ Live(c)' <=> Live(c)
      /\ InTask(c)' <=> InTask(c)
      /\ Scoped(c)' <=> Scoped(c)
      /\ Mutator(c)' <=> Mutator(c)
  BY DEF Same, Live, InTask, Scoped, Mutator
<1>2. Places(c)' /\ Holds(c)'
  BY <1>1 DEF Same, Places, Holds, Passing
<1>3. ASSUME Current(c), loaded \subseteq loaded' PROVE Current(c)'
  BY <1>1, <1>3 DEF Same, Current
<1> QED
  BY <1>1, <1>2, <1>3

(* What a step does to the records and to the calls that are free.         *)
Fate == \A c \in Call :
  /\ pc'[c] = "idle" => pc[c] = "idle"
  /\ \/ state'[c] \in {state[c], "evicted"}
     \/ state[c] = "running" /\ state'[c] \in Terminal
     \/ pc[c] = "idle" /\ pc'[c] = "start" /\ state'[c] = "running"

(* What a step of c that takes no template away does to the invariant.     *)
Keeps(c) ==
  /\ Types' /\ GateExcludes' /\ Fate /\ Running' \subseteq Running
  /\ Places(c)' /\ Holds(c)' /\ Current(c)'
  /\ loaded \subseteq loaded'
  /\ \A d \in Call \ {c} : Same(d)

LEMMA Entering ==
  ASSUME NEW c \in Call, Types, GateExcludes, Places(c), Holds(c), Current(c),
         Resolve(c) \/ EnterShared(c) \/ LockRrid(c) \/ EnterExclusive(c)
  PROVE  Keeps(c)
<1> USE DEF Keeps, Fate, Running, Terminal, Types, GateExcludes, Places, Holds, Current, Same, Live,
            InTask, Scoped, Mutator, Place, Goto, registry, gate, job, cancel,
            request, locks
<1>1. CASE Resolve(c)
  BY <1>1 DEF Resolve, Resolved, Gate!Queue, Gate!Away
<1>2. CASE EnterShared(c)
  BY <1>2 DEF EnterShared, Gate!Read, dispatch
<1>3. CASE LockRrid(c)
  BY <1>3 DEF LockRrid, Begin, Resolved
<1>4. CASE EnterExclusive(c)
  BY <1>4 DEF EnterExclusive, Gate!Write, Begin, Resolved
<1> QED
  BY <1>1, <1>2, <1>3, <1>4

(* A dispatch.                                                             *)
LEMMA Dispatching ==
  ASSUME NEW c \in Call, Types, GateExcludes, Places(c), Holds(c), Current(c),
         Skip(c) \/ Activate(c) \/ BodyFails(c) \/ Select(c) \/ LockHosts(c) \/ LockRefused(c) \/ Work(c) \/ Load(c) \/ Finish(c) \/ Leave(c)
  PROVE  Keeps(c)
<1> USE DEF Keeps, Fate, Running, Terminal, Types, GateExcludes, Places, Holds, Current, Same, Live,
            InTask, Scoped, Mutator, Place, Goto, gate, job, cancel,
            request, registry
<1>1. CASE Skip(c)
  BY <1>1 DEF Skip, locks
<1>2. CASE Activate(c)
  <2>1. PICK t \in todo[c] :
             /\ pc[c] = "boundary" /\ ~ Mutator(c)
             /\ todo' = [todo EXCEPT ![c] = @ \ {t}]
             /\ active' \in {active, t}
    BY <1>2 DEF Activate, AtBoundary
  <2> QED
    BY <1>2, <2>1 DEF Activate
<1>3. CASE BodyFails(c)
  BY <1>3 DEF BodyFails, GroupGone, locks, registry
<1>4. CASE Select(c)
  BY <1>4 DEF Select, dispatch
<1>5. CASE LockHosts(c)
  BY <1>5 DEF LockHosts, dispatch
<1>6. CASE LockRefused(c)
  BY <1>6 DEF LockRefused, registry, locks
<1>7. CASE Work(c)
  BY <1>7 DEF Work, registry, locks
<1>8. CASE Load(c)
  BY <1>8 DEF Load, locks
<1>9. CASE Finish(c)
  BY <1>9 DEF Finish, Over, AtBoundary, DropGate, Forget, registry
<1>10. CASE Leave(c)
  BY <1>10 DEF Leave, DropGate, DropRrid, Forget, registry
<1> QED
  BY <1>1, <1>2, <1>3, <1>4, <1>5, <1>6, <1>7, <1>8, <1>9, <1>10

(* The Job record.                                                         *)
LEMMA Recording ==
  ASSUME NEW c \in Call, Types, GateExcludes, Places(c), Holds(c), Current(c),
         Record(c) \/ Evict(c) \/ Cancel(c) \/ Joined(c) \/ Reply(c)
  PROVE  Keeps(c)
<1> USE DEF Keeps, Fate, Running, Terminal, Types, GateExcludes, Places, Holds, Current, Same, Live,
            InTask, Scoped, Mutator, Place, Goto, gate, cancel,
            request, registry, locks, dispatch, Status, Stage, Passing
<1>1. CASE Record(c)
  BY <1>1 DEF Record
<1>2. CASE Evict(c)
  BY <1>2 DEF Evict, EvictCompleted
<1>3. CASE Cancel(c)
  BY <1>3 DEF Cancel, job
<1>4. CASE Joined(c)
  BY <1>4 DEF Joined, job
<1>5. CASE Reply(c)
  BY <1>5 DEF Reply, EvictCompleted
<1> QED
  BY <1>1, <1>2, <1>3, <1>4, <1>5

(* The forced arm.                                                         *)
LEMMA Aborting ==
  ASSUME NEW c \in Call, Types, GateExcludes, Places(c), Holds(c), Current(c),
         Abort(c) \/ DropTask(c)
  PROVE  Keeps(c)
<1> USE DEF Keeps, Fate, Running, Terminal, Types, GateExcludes, Places, Holds, Current, Same, Live,
            InTask, Scoped, Mutator, Place, Goto, gate, job,
            request, registry, DropGate, DropRrid, DropGroup, Forget, Stage, Passing, cancel
<1>1. CASE Abort(c)
  BY <1>1 DEF Abort
<1>2. CASE DropTask(c)
  BY <1>2 DEF DropTask, locks
<1> QED
  BY <1>1, <1>2

(* The unlock pass.                                                        *)
LEMMA Unlocking ==
  ASSUME NEW c \in Call, Types, GateExcludes, Places(c), Holds(c), Current(c),
         Preamble(c) \/ Stall(c) \/ PassGate(c) \/ PassRrid(c) \/ PassEntry(c) \/ PassUnlock(c) \/ PassExpires(c)
  PROVE  Keeps(c)
<1> USE DEF Keeps, Fate, Running, Terminal, Types, GateExcludes, Places, Holds, Current, Same, Live,
            InTask, Scoped, Mutator, Place, Goto, gate, job,
            request, registry, dispatch, Pass, DropGate, DropRrid, Stage, Passing
<1>1. CASE Preamble(c)
  BY <1>1 DEF Preamble
<1>2. CASE Stall(c)
  BY <1>2 DEF Stall, locks
<1>3. CASE PassGate(c)
  BY <1>3 DEF PassGate, Gate!Read, locks
<1>4. CASE PassRrid(c)
  BY <1>4 DEF PassRrid
<1>5. CASE PassEntry(c)
  BY <1>5 DEF PassEntry, locks
<1>6. CASE PassUnlock(c)
  BY <1>6 DEF PassUnlock
<1>7. CASE PassExpires(c)
  BY <1>7 DEF PassExpires
<1> QED
  BY <1>1, <1>2, <1>3, <1>4, <1>5, <1>6, <1>7

(* A request.                                                              *)
LEMMA Asking ==
  ASSUME NEW c \in Call, Types, GateExcludes, Places(c), Holds(c), Current(c),
         Ask(c)
  PROVE  Keeps(c)
<1>1. \A r \in Requests : r.cmd \in Command /\ r.arg \in Argument
  BY SessionAssumption DEF Command, Argument
<1>2. PICK r \in Requests : /\ cmd' = [cmd EXCEPT ![c] = r.cmd]
                            /\ arg' = [arg EXCEPT ![c] = r.arg]
  BY DEF Ask
<1> QED
  BY <1>1, <1>2 DEF Ask, Keeps, Fate, Running, Types, GateExcludes, Places, Holds, Current,
     Same, Live, InTask, Scoped, Mutator, Place, Goto, Passing, gate, job,
     cancel, registry, locks, dispatch

(* Jobs start where nothing runs.                                          *)
LEMMA Starting ==
  ASSUME IInv, StartJobs
  PROVE  IInv' /\ Fate
<1>1. \A r \in Requests : r.cmd \in Command /\ r.arg \in Argument
  BY SessionAssumption DEF Command, Argument
<1>2. PICK r \in Requests :
        \E worker \in [Targets(r) -> {c \in Call : pc[c] = "idle"}] :
          Mint(r, worker)
  BY DEF StartJobs
<1>3. PICK worker \in [Targets(r) -> {c \in Call : pc[c] = "idle"}] :
        Mint(r, worker)
  BY <1>2
<1> DEFINE Minted(c) == \E t \in DOMAIN worker : worker[t] = c
           For(c) == CHOOSE t \in DOMAIN worker : worker[t] = c
<1>4. /\ \A c \in Call : Minted(c) => pc[c] = "idle"
      /\ pc' = [c \in Call |-> IF Minted(c) THEN "start" ELSE pc[c]]
      /\ cmd' = [c \in Call |-> IF Minted(c) THEN r.cmd ELSE cmd[c]]
      /\ state' = [c \in Call |-> IF Minted(c) THEN "running" ELSE state[c]]
  BY <1>3 DEF Mint
<1>5. arg' \in [Call -> Argument]
  <2>1. \A t \in Targets(r) : t # None => t \in Argument
    BY DEF IInv, Types, Resolved, Targets
  <2>2. \A c \in Call : Minted(c) => For(c) \in Targets(r)
    BY <1>3
  <2>3. arg' = [c \in Call |-> IF ~ Minted(c) THEN arg[c]
                               ELSE IF For(c) = None THEN r.arg
                               ELSE ScopedArg(r.arg, For(c))]
    BY <1>3 DEF Mint
  <2> HIDE DEF Minted, For
  <2> QED
    BY <1>1, <2>1, <2>2, <2>3 DEF IInv, Types, ScopedArg
<1> HIDE DEF Minted, For
<1>6. /\ UNCHANGED <<loaded, active, reading, writing, key, plan, todo, orphan, cx>>
  BY DEF StartJobs, registry, gate, dispatch, cancel
<1>7. Types' /\ GateExcludes'
  BY <1>1, <1>4, <1>5, <1>6 DEF IInv, Types, GateExcludes, Place, Status
<1>8. ASSUME NEW c \in Call PROVE Places(c)' /\ Holds(c)' /\ Current(c)'
  <2>1. CASE pc[c] = "idle"
    BY <1>4, <1>6, <2>1 DEF IInv, Types, Places, Holds, Current, Live, InTask,
       Scoped, Passing
  <2>2. CASE pc[c] # "idle"
    <3>1. Same(c)
      BY <1>4, <1>6, <2>2 DEF Same, IInv, Types
    <3> QED
      BY <1>6, <3>1, SameKeeps DEF IInv
  <2> QED
    BY <2>1, <2>2
<1>9. Fate
  BY <1>4 DEF Fate, IInv, Types
<1> QED
  BY <1>7, <1>8, <1>9 DEF IInv

(* A template goes only while its writer has the gate to itself.           *)
LEMMA Unloading ==
  ASSUME IInv, NEW c \in Call, Unload(c)
  PROVE  IInv' /\ Fate /\ Running' \subseteq Running
<1>1. reading = {}
  BY DEF IInv, Unload, Holds, Mutator, GateExcludes
<1>2. Types' /\ GateExcludes'
  BY DEF Unload, IInv, Types, GateExcludes, Goto, Place, gate, request, job,
     cancel
<1>3. ASSUME NEW d \in Call PROVE Places(d)' /\ Holds(d)' /\ Current(d)'
  <2>1. ~ Live(d)
    BY <1>1 DEF IInv, Holds
  <2>2. CASE d # c
    <3>1. Same(d)
      BY <2>2 DEF Same, Unload, Goto, gate, request, cancel, IInv, Types
    <3> QED
      BY <2>1, <3>1, SameKeeps DEF IInv, Current
  <2>3. CASE d = c
    BY <2>1, <2>3 DEF IInv, Unload, Types, Places, Holds, Current, Live,
       InTask, Scoped, Mutator, Goto, gate, request, cancel, Passing
  <2> QED
    BY <2>2, <2>3
<1>4. Fate /\ Running' \subseteq Running
  BY DEF Unload, Fate, Running, IInv, Types, Goto, job
<1> QED
  BY <1>2, <1>3, <1>4 DEF IInv

LEMMA KeepsIInv ==
  ASSUME IInv, NEW c \in Call, Keeps(c)
  PROVE  IInv'
<1>1. ASSUME NEW d \in Call PROVE Places(d)' /\ Holds(d)' /\ Current(d)'
  <2>1. CASE d = c
    BY <2>1 DEF Keeps
  <2>2. CASE d # c
    <3>1. Same(d) /\ loaded \subseteq loaded'
      BY <2>2 DEF Keeps
    <3> QED
      BY <3>1, SameKeeps DEF IInv
  <2> QED
    BY <2>1, <2>2
<1> QED
  BY <1>1 DEF IInv, Keeps

LEMMA StutterKeeps ==
  ASSUME IInv, UNCHANGED vars
  PROVE  IInv' /\ Fate /\ Running' \subseteq Running
<1> USE DEF vars, registry, gate, dispatch, request, job, cancel
<1>1. Types' /\ GateExcludes' /\ Fate /\ Running' \subseteq Running
  BY DEF IInv, Types, GateExcludes, Fate, Running
<1>2. ASSUME NEW c \in Call PROVE Places(c)' /\ Holds(c)' /\ Current(c)'
  <2>1. Same(c) /\ loaded \subseteq loaded'
    BY DEF Same
  <2> QED
    BY <2>1, SameKeeps DEF IInv
<1> QED
  BY <1>1, <1>2 DEF IInv

LEMMA Step ==
  ASSUME IInv, [Next]_vars
  PROVE  /\ IInv' /\ Fate
         /\ StartJobs \/ Running' \subseteq Running
<1>1. CASE StartJobs
  BY <1>1, Starting
<1>2. ASSUME NEW c \in Call,
             Ask(c) \/ Cancel(c) \/ Advance(c) \/ Body(c) \/ CancelStep(c)
      PROVE  IInv' /\ Fate /\ Running' \subseteq Running
  <2>1. Types /\ GateExcludes /\ Places(c) /\ Holds(c) /\ Current(c)
    BY DEF IInv
  <2>2. CASE Unload(c)
    BY <2>2, Unloading
  <2>3. CASE ~ Unload(c)
    <3>1. Keeps(c)
      BY <1>2, <2>1, <2>3, Asking, Entering, Dispatching, Recording, Aborting,
         Unlocking DEF Advance, Body, CancelStep
    <3> QED
      BY <3>1, KeepsIInv DEF Keeps
  <2> QED
    BY <2>2, <2>3
<1>3. CASE UNCHANGED vars
  BY <1>3, StutterKeeps
<1> QED
  BY <1>1, <1>2, <1>3 DEF Next, Quiet

(* The templates a forked dispatch has resolved stay loaded until its      *)
(* worker is gone (start_jobs, command_lock, load_template and unload).    *)
THEOREM SnapshotsCurrent == Spec => []SnapshotCurrent
<1>1. IInv => SnapshotCurrent
  BY DEF IInv, SnapshotCurrent, Current, Live
<1>2. IInv /\ [Next]_vars => IInv'
  BY Step
<1> QED
  BY InitIInv, <1>1, <1>2, PTL DEF Spec

(* A call whose job runs or has ended is used.                             *)
Used == \A c \in Call :
          state[c] \in {"running"} \cup Terminal => pc[c] # "idle"

LEMMA UsedInductive == Spec => [](IInv /\ Used)
<1>1. Init => Used
  BY DEF Init, Used, Terminal
<1>2. ASSUME IInv, Used, [Next]_vars PROVE IInv' /\ Used'
  BY <1>2, Step DEF Used, Fate, Terminal
<1> QED
  BY InitIInv, <1>1, <1>2, PTL DEF Spec

(* A job ends once: its worker and job_cancel do not both write an outcome *)
(* (the claim under the jobs lock in job_cancel, and the worker's check).  *)
THEOREM JobsEndOnce == Spec => JobEndsOnce
<1>1. IInv /\ Used /\ [Next]_vars
        => [\A c \in Call : state[c] \in Terminal
                              => state'[c] \in {state[c], "evicted"}]_vars
  BY Step DEF Used, Fate, Terminal
<1> QED
  BY UsedInductive, <1>1, PTL DEF Spec, JobEndsOnce

(* What start_jobs mints is no more than it was admitted for.              *)
LEMMA StartingAdmits ==
  ASSUME IInv, AdmissionBound, StartJobs
  PROVE  AdmissionBound'
<1>1. PICK r \in Requests :
        /\ Admitted(Cardinality(Targets(r)))
        /\ \E worker \in [Targets(r) -> {c \in Call : pc[c] = "idle"}] :
             Mint(r, worker)
  BY DEF StartJobs
<1>2. PICK worker \in [Targets(r) -> {c \in Call : pc[c] = "idle"}] :
        Mint(r, worker)
  BY <1>1
<1> DEFINE T == Targets(r)
           Minted == {c \in Call : \E t \in T : worker[t] = c}
<1>3. T \subseteq Template \cup {Unscoped, AllTemplates, None}
  BY DEF IInv, Types, Resolved, Targets, Argument
<1>4. IsFiniteSet(T)
  <2>1. IsFiniteSet(Template \cup {Unscoped} \cup {AllTemplates} \cup {None})
    BY SessionAssumption, FS_Singleton, FS_Union
  <2> QED
    BY <1>3, <2>1, FS_Subset
<1>5. worker \in Surjection(T, Minted)
  BY <1>2 DEF Surjection
<1>6. IsFiniteSet(Minted) /\ Cardinality(Minted) <= Cardinality(T)
  BY <1>4, <1>5, FS_Surjection
<1>7. Running' \subseteq Running \cup Minted
  BY <1>2 DEF Mint, Running
<1>8. IsFiniteSet(Running)
  BY SessionAssumption, FS_Subset DEF Running
<1>9. Cardinality(Running') <= Cardinality(Running) + Cardinality(Minted)
  <2>1. /\ IsFiniteSet(Running \cup Minted)
        /\ Cardinality(Running \cup Minted) =
             Cardinality(Running) + Cardinality(Minted)
               - Cardinality(Running \cap Minted)
    BY <1>6, <1>8, FS_Union
  <2>2. IsFiniteSet(Running \cap Minted)
    BY <1>8, FS_Subset
  <2>3. Cardinality(Running') <= Cardinality(Running \cup Minted)
        /\ IsFiniteSet(Running')
    BY <1>7, <2>1, FS_Subset
  <2> QED
    BY <1>6, <1>8, <2>1, <2>2, <2>3, FS_CardinalityType
<1>10. Cardinality(Running) + Cardinality(T) <= MaxActive
  BY <1>1 DEF Admitted
<1> HIDE DEF T, Minted
<1>11. /\ Cardinality(Running) \in Nat /\ Cardinality(T) \in Nat
       /\ Cardinality(Minted) \in Nat /\ MaxActive \in Nat
       /\ Cardinality(Running') \in Nat
  <2>1. IsFiniteSet(Running')
    BY <1>6, <1>7, <1>8, FS_Union, FS_Subset
  <2> QED
    BY <1>4, <1>6, <1>8, <2>1, SessionAssumption, FS_CardinalityType
<1> QED
  BY <1>6, <1>9, <1>10, <1>11 DEF AdmissionBound

(* The jobs that run never exceed max_active_jobs: admit counts and        *)
(* start_jobs mints without letting go of the table.                       *)
THEOREM JobsAdmitted == Spec => []AdmissionBound
<1>1. Init => AdmissionBound
  <2>1. Init => Running = {}
    BY DEF Init, Running
  <2> QED
    BY <2>1, FS_EmptySet, SessionAssumption DEF AdmissionBound
<1>2. ASSUME IInv, AdmissionBound, [Next]_vars PROVE IInv' /\ AdmissionBound'
  <2>1. CASE StartJobs
    BY <1>2, <2>1, Step, StartingAdmits
  <2>2. CASE Running' \subseteq Running
    <3>1. IsFiniteSet(Running)
      BY SessionAssumption, FS_Subset DEF Running
    <3>2. IsFiniteSet(Running') /\ Cardinality(Running') <= Cardinality(Running)
      BY <2>2, <3>1, FS_Subset
    <3> QED
      BY <1>2, <3>1, <3>2, SessionAssumption, Step, FS_CardinalityType
         DEF AdmissionBound
  <2> QED
    BY <1>2, <2>1, <2>2, Step
<1> QED
  BY InitIInv, <1>1, <1>2, PTL DEF Spec
=============================================================================
