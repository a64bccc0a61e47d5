------------------------ MODULE McpSessionLockProofs ------------------------
(***************************************************************************)
(* For any number of calls and templates: types, a bounded job history,    *)
(* jobs that stay in their scope, and the locks of a session: its mutex,   *)
(* the RRID locks, the entries of the reports and the locks on their hosts. *)
(* The invariants come in layers, each of which rests on those before it   *)
(* and on IInv, which says where a call holds the gate.                    *)
(***************************************************************************)
EXTENDS McpSessionProofs, SequenceTheorems

-----------------------------------------------------------------------------
(* The types, and what a call's request and its Job record have to do with *)
(* each other.                                                             *)

Shape ==
  /\ loaded \subseteq Template /\ active \in Template \cup {None}
  /\ group \in [Template -> {"home", "out", "gone"}]
  /\ lockedBy \in [Template -> Call \cup {None, Lost}]
  /\ reading \subseteq Call /\ writing \subseteq Call /\ queued \subseteq Call
  /\ mutex \in Call \cup {None} /\ canon \in Template \cup {None}
  /\ rridLock \in [Template -> Call \cup {None}]
  /\ key \in [Call -> Template \cup {None}]
  /\ plan \in [Call -> SUBSET Template] /\ todo \in [Call -> SUBSET Template]
  /\ ptr \in [Call -> Template \cup {None}]
  /\ fork \in [Call -> Template \cup {None}]
  /\ scope \in [Call -> SUBSET Template]
  /\ at \in [Call -> Template \cup {None}]
  /\ left \in [Call -> SUBSET Template] /\ told \in [Call -> SUBSET Template]

(* A mutator is a call in the foreground; a scoped job is pinned to its    *)
(* template, unless the client has asked for all.                          *)
Pinned(c) ==
  /\ Mutator(c) => arg[c] \in Template /\ scope[c] = {}
  /\ pc[c] = "idle" => scope[c] = {} /\ plan[c] = {} /\ cx[c] = "no"
  /\ state[c] = "running" => cx[c] = "no" /\ pc[c] \notin {"idle", "evict", "end"}
  /\ scope[c] # {} => \/ arg[c] = AllTemplates
                      \/ arg[c] \in Template /\ scope[c] = {arg[c]}
  /\ scope[c] # {} /\ arg[c] # AllTemplates => plan[c] \subseteq scope[c]
  /\ todo[c] \subseteq plan[c]
  /\ orphan[c] => cx[c] \notin {"no", "grace"}

Slots ==
  /\ key \in [Call -> Template \cup {None}]
  /\ plan \in [Call -> SUBSET Template] /\ todo \in [Call -> SUBSET Template]
  /\ ptr \in [Call -> Template \cup {None}]

(* What the drops of the guards, and of a record, leave of the types.      *)
LEMMA Dropping ==
  ASSUME Shape, NEW c \in Call
  PROVE  /\ DropGate(c) => /\ reading' \subseteq Call /\ writing' \subseteq Call
                           /\ queued' \subseteq Call
         /\ DropRrid(c) => rridLock' \in [Template -> Call \cup {None}]
         /\ Forget(c) => Slots'
<1>1. DropRrid(c) => rridLock' \in [Template -> Call \cup {None}]
  BY DEF Shape, DropRrid
<1>2. Forget(c) => Slots'
  BY DEF Shape, Forget, Slots
<1> QED
  BY <1>1, <1>2 DEF Shape, DropGate

(* The drop of a host group keeps the types.                               *)
LEMMA GroupsGone ==
  ASSUME Shape, NEW dropped, GroupGone(dropped)
  PROVE  /\ group' \in [Template -> {"home", "out", "gone"}]
         /\ lockedBy' \in [Template -> Call \cup {None, Lost}]
BY DEF Shape, GroupGone

(* The second resolution, at the dispatch, keeps the types.                *)
LEMMA Beginning ==
  ASSUME Shape, NEW c \in Call, Begin(c)
  PROVE  /\ plan' \in [Call -> SUBSET Template]
         /\ todo' \in [Call -> SUBSET Template]
         /\ ptr' \in [Call -> Template \cup {None}]
<1>1. Resolved(cmd[c], arg[c]) \subseteq Template
  BY DEF Shape, Resolved
<1> QED
  BY <1>1 DEF Shape, Begin

(* command_lock.                                                           *)
LEMMA EnteringShape ==
  ASSUME IInv, Shape, NEW c \in Call, Pinned(c),
         Resolve(c) \/ EnterShared(c) \/ LockRrid(c) \/ EnterExclusive(c)
  PROVE  Shape' /\ Pinned(c)'
<1> USE DEF Shape, Pinned, Mutator, Scoped, IInv, Types, Places, registry,
    hosts, gate, locks, dispatch, request, job, cancel, Place, Stage, Status,
    Passing, Terminal, Slots
<1>1. CASE Resolve(c)
  <2>1. Shape'
    BY <1>1 DEF Resolve, Resolved, Goto, Gate!Queue, Gate!Away
  <2>2. Pinned(c)'
    BY <1>1 DEF Resolve, Resolved, Goto, Gate!Queue, Gate!Away
  <2> QED
    BY <2>1, <2>2
<1>2. CASE EnterShared(c)
  BY <1>2 DEF EnterShared, Goto, Gate!Read, Gate!Away
<1>3. CASE LockRrid(c)
  <2>1. Shape'
    BY <1>3, Beginning DEF LockRrid, Goto
  <2>2. Pinned(c)'
    BY <1>3 DEF LockRrid, Begin, Resolved, Goto
  <2> QED
    BY <2>1, <2>2
<1>4. CASE EnterExclusive(c)
  BY <1>4 DEF EnterExclusive, Begin, Resolved, Goto, Gate!Write
<1> QED
  BY <1>1, <1>2, <1>3, <1>4

(* A dispatch.                                                             *)
LEMMA RunningShape ==
  ASSUME IInv, Shape, NEW c \in Call, Pinned(c),
         Skip(c) \/ Activate(c) \/ BodyFails(c) \/ Select(c) \/
         LockHosts(c) \/ LockRefused(c) \/ Work(c) \/ Finish(c) \/ Leave(c)
  PROVE  Shape' /\ Pinned(c)'
<1> USE DEF Shape, Pinned, Mutator, Scoped, IInv, Types, Places, registry,
    hosts, gate, locks, dispatch, request, job, cancel, Place, Stage, Status,
    Passing, Terminal, Slots
<1>1. CASE Skip(c)
  BY <1>1 DEF Skip, AtBoundary
<1>2. CASE Activate(c)
  BY <1>2 DEF Activate, AtBoundary, Goto
<1>3. CASE BodyFails(c)
  BY <1>3 DEF BodyFails, GroupGone, Goto
<1>4. CASE Select(c)
  BY <1>4 DEF Select, Goto
<1>5. CASE LockHosts(c)
  BY <1>5 DEF LockHosts, Goto
<1>6. CASE LockRefused(c)
  BY <1>6 DEF LockRefused, Goto
<1>7. CASE Work(c)
  BY <1>7 DEF Work, Goto
<1>8. CASE Finish(c)
  <2>1. Shape'
    BY <1>8, Dropping DEF Finish, Over, AtBoundary, Goto
  <2>2. Pinned(c)'
    BY <1>8 DEF Finish, Over, AtBoundary, DropGate, Forget, Goto
  <2> QED
    BY <2>1, <2>2
<1>9. CASE Leave(c)
  <2>1. Shape'
    BY <1>9, Dropping DEF Leave, Goto
  <2>2. Pinned(c)'
    BY <1>9 DEF Leave, DropGate, DropRrid, Forget, Goto
  <2> QED
    BY <2>1, <2>2
<1> QED
  BY <1>1, <1>2, <1>3, <1>4, <1>5, <1>6, <1>7, <1>8, <1>9

(* Load and unload.                                                        *)
LEMMA MutatingShape ==
  ASSUME IInv, Shape, NEW c \in Call, Pinned(c),
         Load(c) \/ Unload(c)
  PROVE  Shape' /\ Pinned(c)'
<1> USE DEF Shape, Pinned, Mutator, Scoped, IInv, Types, Places, registry,
    hosts, gate, locks, dispatch, request, job, cancel, Place, Stage, Status,
    Passing, Terminal, Slots
<1>1. CASE Load(c)
  BY <1>1 DEF Load, TornDown, Released, Goto
<1>2. CASE Unload(c)
  BY <1>2 DEF Unload, TornDown, Released, Goto
<1> QED
  BY <1>1, <1>2

(* The Job record.                                                         *)
LEMMA RecordingShape ==
  ASSUME IInv, Shape, NEW c \in Call, Pinned(c),
         Record(c) \/ Evict(c) \/ Cancel(c) \/ Joined(c) \/ Reply(c)
  PROVE  Shape' /\ Pinned(c)'
<1> USE DEF Shape, Pinned, Mutator, Scoped, IInv, Types, Places, registry,
    hosts, gate, locks, dispatch, request, job, cancel, Place, Stage, Status,
    Passing, Terminal, Slots
<1>1. CASE Record(c)
  BY <1>1 DEF Record, Goto
<1>2. CASE Evict(c)
  BY <1>2 DEF Evict, EvictCompleted, Goto
<1>3. CASE Cancel(c)
  BY <1>3 DEF Cancel
<1>4. CASE Joined(c)
  BY <1>4 DEF Joined
<1>5. CASE Reply(c)
  BY <1>5 DEF Reply, EvictCompleted
<1> QED
  BY <1>1, <1>2, <1>3, <1>4, <1>5

(* The forced arm.                                                         *)
LEMMA AbortingShape ==
  ASSUME IInv, Shape, NEW c \in Call, Pinned(c),
         Abort(c) \/ DropTask(c)
  PROVE  Shape' /\ Pinned(c)'
<1> USE DEF Shape, Pinned, Mutator, Scoped, IInv, Types, Places, registry,
    hosts, gate, locks, dispatch, request, job, cancel, Place, Stage, Status,
    Passing, Terminal, Slots
<1>1. CASE Abort(c)
  <2>1. Shape'
    BY <1>1, Dropping, GroupsGone DEF Abort, DropGroup, Goto
  <2>2. Pinned(c)'
    BY <1>1 DEF Abort, DropGate, DropRrid, DropGroup, GroupGone, Forget, Goto
  <2> QED
    BY <2>1, <2>2
<1>2. CASE DropTask(c)
  <2>1. Shape'
    BY <1>2, Dropping, GroupsGone DEF DropTask, DropGroup, Goto
  <2>2. Pinned(c)'
    BY <1>2 DEF DropTask, DropGroup, GroupGone, Forget, Goto
  <2> QED
    BY <2>1, <2>2
<1> QED
  BY <1>1, <1>2

(* The unlock pass.                                                        *)
LEMMA UnlockingShape ==
  ASSUME IInv, Shape, NEW c \in Call, Pinned(c),
         Preamble(c) \/ Stall(c) \/ PassGate(c) \/ PassRrid(c) \/
         PassEntry(c) \/ PassUnlock(c) \/ PassExpires(c)
  PROVE  Shape' /\ Pinned(c)'
<1> USE DEF Shape, Pinned, Mutator, Scoped, IInv, Types, Places, registry,
    hosts, gate, locks, dispatch, request, job, cancel, Place, Stage, Status,
    Passing, Terminal, Slots
<1>1. CASE Preamble(c)
  BY <1>1 DEF Preamble, Pass
<1>2. CASE Stall(c)
  BY <1>2 DEF Stall
<1>3. CASE PassGate(c)
  BY <1>3 DEF PassGate, Gate!Read, Gate!Away
<1>4. CASE PassRrid(c)
  BY <1>4 DEF PassRrid
<1>5. CASE PassEntry(c)
  BY <1>5 DEF PassEntry
<1>6. CASE PassUnlock(c)
  BY <1>6 DEF PassUnlock, Released, DropGate, DropRrid, Pass
<1>7. CASE PassExpires(c)
  BY <1>7 DEF PassExpires, DropGate, DropRrid, Pass
<1> QED
  BY <1>1, <1>2, <1>3, <1>4, <1>5, <1>6, <1>7

(* A foreground call.                                                      *)
LEMMA AskingShape ==
  ASSUME IInv, Shape, NEW c \in Call, Pinned(c), Ask(c)
  PROVE  Shape' /\ Pinned(c)'
<1>1. PICK r \in Requests : /\ ~ r.background
                            /\ cmd' = [cmd EXCEPT ![c] = r.cmd]
                            /\ arg' = [arg EXCEPT ![c] = r.arg]
  BY DEF Ask
<1>2. /\ pc[c] = "idle" /\ pc' = [pc EXCEPT ![c] = "start"]
      /\ UNCHANGED <<registry, hosts, gate, locks, dispatch, job, cancel>>
  BY DEF Ask, Goto
<1>3. /\ r.cmd \in {"load", "unload"} => r.arg \in Template
      /\ r.arg \in Argument
  BY SessionAssumption DEF Argument
<1> USE <1>2 DEF registry, hosts, gate, locks, dispatch, job, cancel
<1>4. Shape'
  BY DEF Shape
<1>5. cmd'[c] = r.cmd /\ arg'[c] = r.arg /\ pc'[c] = "start"
  BY <1>1 DEF IInv, Types
<1>6. Pinned(c)'
  BY <1>3, <1>5 DEF Pinned, Mutator
<1> QED
  BY <1>4, <1>6

(* What a step of one call leaves alone of every other.                    *)
Holding(d) == \A t \in Template : rridLock'[t] = d <=> rridLock[t] = d

Aside(d) ==
  /\ Same(d) /\ Holding(d)
  /\ arg'[d] = arg[d] /\ scope'[d] = scope[d] /\ todo'[d] = todo[d]
  /\ fork'[d] = fork[d] /\ at'[d] = at[d] /\ left'[d] = left[d]
  /\ told'[d] = told[d]

Moves(c) == Ask(c) \/ Cancel(c) \/ Advance(c) \/ Body(c) \/ CancelStep(c)

(* Dropping or taking an RRID lock leaves those of the other calls.        *)
LEMMA Yielding ==
  ASSUME Shape, NEW c \in Call, NEW d \in Call \ {c}
  PROVE  /\ DropRrid(c) => \A t \in Template : rridLock'[t] = d <=> rridLock[t] = d
         /\ \A u : /\ rridLock[u] = None
                   /\ rridLock' = [rridLock EXCEPT ![u] = c]
                   => \A t \in Template : rridLock'[t] = d <=> rridLock[t] = d
<1>1. None \notin Call
  BY SessionAssumption
<1>2. DropRrid(c) => \A t \in Template : rridLock'[t] = d <=> rridLock[t] = d
  BY <1>1 DEF DropRrid
<1> QED
  BY <1>1, <1>2 DEF Shape

(* Nobody else is touched.                                                 *)
LEMMA EnteringAside ==
  ASSUME IInv, Shape, NEW c \in Call, NEW d \in Call \ {c},
         Resolve(c) \/ EnterShared(c) \/ LockRrid(c) \/ EnterExclusive(c) \/
         Ask(c)
  PROVE  Aside(d)
<1> USE DEF Aside, Same, Shape, IInv, Types, registry, hosts, gate, locks,
    dispatch, request, job, cancel
<1>1. CASE Resolve(c)
  BY <1>1 DEF Resolve, Resolved, Goto, Gate!Queue, Gate!Away, Holding
<1>2. CASE EnterShared(c)
  BY <1>2 DEF EnterShared, Goto, Gate!Read, Gate!Away, Holding
<1>3. CASE LockRrid(c)
  <2>1. Holding(d)
    BY <1>3, Yielding, SessionAssumption DEF Holding, LockRrid, Begin,
        Resolved, Goto
  <2>2. Aside(d)
    BY <1>3, <2>1 DEF LockRrid, Begin, Resolved, Goto
  <2> QED
    BY <2>2
<1>4. CASE EnterExclusive(c)
  BY <1>4 DEF EnterExclusive, Begin, Resolved, Goto, Gate!Write, Holding
<1>5. CASE Ask(c)
  BY <1>5 DEF Ask, Goto, Holding
<1> QED
  BY <1>1, <1>2, <1>3, <1>4, <1>5

LEMMA RunningAside ==
  ASSUME IInv, Shape, NEW c \in Call, NEW d \in Call \ {c},
         Skip(c) \/ Activate(c) \/ BodyFails(c) \/ Select(c) \/
         LockHosts(c) \/ LockRefused(c) \/ Work(c) \/ Finish(c) \/
         Leave(c) \/ Load(c) \/ Unload(c)
  PROVE  Aside(d)
<1> USE DEF Aside, Same, Shape, IInv, Types, registry, hosts, gate, locks,
    dispatch, request, job, cancel
<1>1. CASE Skip(c)
  BY <1>1 DEF Skip, AtBoundary, Holding
<1>2. CASE Activate(c)
  BY <1>2 DEF Activate, AtBoundary, Goto, Holding
<1>3. CASE BodyFails(c)
  BY <1>3 DEF BodyFails, GroupGone, Goto, Holding
<1>4. CASE Select(c)
  BY <1>4 DEF Select, Goto, Holding
<1>5. CASE LockHosts(c)
  BY <1>5 DEF LockHosts, Goto, Holding
<1>6. CASE LockRefused(c)
  BY <1>6 DEF LockRefused, Goto, Holding
<1>7. CASE Work(c)
  BY <1>7 DEF Work, Goto, Holding
<1>8. CASE Finish(c)
  <2>1. Holding(d)
    BY <1>8, Yielding, SessionAssumption DEF Holding, Finish, Over,
        AtBoundary, DropGate, Forget, Goto
  <2>2. Aside(d)
    BY <1>8, <2>1 DEF Finish, Over, AtBoundary, DropGate, Forget, Goto
  <2> QED
    BY <2>2
<1>9. CASE Leave(c)
  <2>1. Holding(d)
    BY <1>9, Yielding, SessionAssumption DEF Holding, Leave, DropGate, Forget,
        Goto
  <2>2. Aside(d)
    BY <1>9, <2>1 DEF Leave, DropGate, Forget, Goto
  <2> QED
    BY <2>2
<1>10. CASE Load(c)
  BY <1>10 DEF Load, TornDown, Released, Goto, Holding
<1>11. CASE Unload(c)
  BY <1>11 DEF Unload, TornDown, Released, Goto, Holding
<1> QED
  BY <1>1, <1>2, <1>3, <1>4, <1>5, <1>6, <1>7, <1>8, <1>9, <1>10, <1>11

LEMMA OtherAside ==
  ASSUME IInv, Shape, NEW c \in Call, NEW d \in Call \ {c},
         Record(c) \/ Evict(c) \/ Cancel(c) \/ Joined(c) \/ Reply(c) \/
         Abort(c) \/ DropTask(c) \/ Preamble(c) \/ Stall(c) \/ PassGate(c) \/
         PassRrid(c) \/ PassEntry(c) \/ PassUnlock(c) \/ PassExpires(c)
  PROVE  Aside(d)
<1> USE DEF Aside, Same, Shape, IInv, Types, registry, hosts, gate, locks,
    dispatch, request, job, cancel
<1>1. CASE Record(c)
  BY <1>1 DEF Record, Goto, Holding
<1>2. CASE Evict(c)
  BY <1>2 DEF Evict, EvictCompleted, Goto, Holding
<1>3. CASE Cancel(c)
  BY <1>3 DEF Cancel, Holding
<1>4. CASE Joined(c)
  BY <1>4 DEF Joined, Holding
<1>5. CASE Reply(c)
  BY <1>5 DEF Reply, EvictCompleted, Holding
<1>6. CASE Abort(c)
  <2>1. Holding(d)
    BY <1>6, Yielding, SessionAssumption DEF Holding, Abort, DropGate,
        DropGroup, GroupGone, Forget, Goto
  <2>2. Aside(d)
    BY <1>6, <2>1 DEF Abort, DropGate, DropGroup, GroupGone, Forget, Goto
  <2> QED
    BY <2>2
<1>7. CASE DropTask(c)
  BY <1>7 DEF DropTask, DropGroup, GroupGone, Forget, Goto, Holding
<1>8. CASE Preamble(c)
  BY <1>8 DEF Preamble, Pass, Holding
<1>9. CASE Stall(c)
  BY <1>9 DEF Stall, Holding
<1>10. CASE PassGate(c)
  BY <1>10 DEF PassGate, Gate!Read, Gate!Away, Holding
<1>11. CASE PassRrid(c)
  <2>1. Holding(d)
    BY <1>11, Yielding, SessionAssumption DEF Holding, PassRrid
  <2>2. Aside(d)
    BY <1>11, <2>1 DEF PassRrid
  <2> QED
    BY <2>2
<1>12. CASE PassEntry(c)
  BY <1>12 DEF PassEntry, Holding
<1>13. CASE PassUnlock(c)
  <2>1. Holding(d)
    BY <1>13, Yielding, SessionAssumption DEF Holding, PassUnlock, Released,
        DropGate, Pass
  <2>2. Aside(d)
    BY <1>13, <2>1 DEF PassUnlock, Released, DropGate, Pass
  <2> QED
    BY <2>2
<1>14. CASE PassExpires(c)
  <2>1. Holding(d)
    BY <1>14, Yielding, SessionAssumption DEF Holding, PassExpires, DropGate,
        Pass
  <2>2. Aside(d)
    BY <1>14, <2>1 DEF PassExpires, DropGate, Pass
  <2> QED
    BY <2>2
<1> QED
  BY <1>1, <1>2, <1>3, <1>4, <1>5, <1>6, <1>7, <1>8, <1>9, <1>10, <1>11,
      <1>12, <1>13, <1>14

(* A step of a call keeps the types and what its own request says.         *)
LEMMA MoveShape ==
  ASSUME IInv, Shape, NEW c \in Call, Pinned(c), Moves(c)
  PROVE  Shape' /\ Pinned(c)'
BY AskingShape, EnteringShape, RunningShape, MutatingShape, RecordingShape,
   AbortingShape, UnlockingShape DEF Moves, Advance, Body, CancelStep

(* A step of a call leaves the fields of every other call alone.           *)
LEMMA MoveAside ==
  ASSUME IInv, Shape, NEW c \in Call, Moves(c), NEW d \in Call \ {c}
  PROVE  Aside(d)
BY EnteringAside, RunningAside, OtherAside DEF Moves, Advance, Body, CancelStep

(* ... and with them what their requests say.                              *)
LEMMA AsidePinned ==
  ASSUME NEW d \in Call, Aside(d), Fate, Pinned(d)
  PROVE  Pinned(d)'
BY DEF Aside, Same, Fate, Pinned, Mutator, Terminal

Pinnings == \A c \in Call : Pinned(c)

LEMMA InitShape == Init => Shape /\ Pinnings
<1> SUFFICES ASSUME Init PROVE Shape /\ Pinnings
  OBVIOUS
<1>1. Shape
  BY DEF Init, Shape, Gate!Init
<1>2. Pinnings
  BY DEF Init, Pinnings, Pinned, Mutator
<1> QED
  BY <1>1, <1>2

(* What start_jobs does to a call: nothing, or it makes a job of it, for   *)
(* the template it is pinned to or for none.                               *)
Hired(c) ==
  /\ pc[c] = "idle" /\ pc'[c] = "start" /\ state'[c] = "running"
  /\ \E r \in Requests : \E t \in Targets(r) :
       /\ r.background /\ cmd'[c] = r.cmd /\ scope'[c] = {t} \ {None}
       /\ arg'[c] = IF t = None THEN r.arg ELSE ScopedArg(r.arg, t)

Unhired(c) ==
  /\ pc'[c] = pc[c] /\ cmd'[c] = cmd[c] /\ arg'[c] = arg[c]
  /\ state'[c] = state[c] /\ scope'[c] = scope[c]

(* start_jobs hires idle calls and touches nothing else.                   *)
LEMMA Minting ==
  ASSUME IInv, Shape, StartJobs
  PROVE  /\ \A c \in Call : Hired(c) \/ Unhired(c)
         /\ scope' \in [Call -> SUBSET Template]
         /\ UNCHANGED <<registry, hosts, gate, locks, dispatch, cancel, history>>
<1>1. PICK r \in Requests :
        /\ r.background
        /\ \E worker \in [Targets(r) -> {c \in Call : pc[c] = "idle"}] :
             Mint(r, worker)
  BY DEF StartJobs
<1>2. PICK worker \in [Targets(r) -> {c \in Call : pc[c] = "idle"}] :
        Mint(r, worker)
  BY <1>1
<1> DEFINE Minted(c) == \E t \in DOMAIN worker : worker[t] = c
           For(c) == CHOOSE t \in DOMAIN worker : worker[t] = c
<1>3. \A c \in Call : Minted(c) => For(c) \in Targets(r) /\ pc[c] = "idle"
  BY <1>2
<1>4. /\ pc' = [c \in Call |-> IF Minted(c) THEN "start" ELSE pc[c]]
      /\ cmd' = [c \in Call |-> IF Minted(c) THEN r.cmd ELSE cmd[c]]
      /\ arg' = [c \in Call |-> IF ~ Minted(c) THEN arg[c]
                                ELSE IF For(c) = None THEN r.arg
                                ELSE ScopedArg(r.arg, For(c))]
      /\ state' = [c \in Call |-> IF Minted(c) THEN "running" ELSE state[c]]
      /\ scope' = [c \in Call |-> IF Minted(c) THEN {For(c)} \ {None} ELSE scope[c]]
  BY <1>2 DEF Mint
<1>5. \A t \in Targets(r) : t # None => t \in Template
  BY DEF Shape, Targets, Resolved
<1> HIDE DEF Minted, For
<1>6. scope' \in [Call -> SUBSET Template]
  BY <1>3, <1>4, <1>5 DEF Shape
<1>7. ASSUME NEW c \in Call PROVE Hired(c) \/ Unhired(c)
  <2>1. CASE Minted(c)
    <3>1. /\ pc[c] = "idle" /\ pc'[c] = "start" /\ state'[c] = "running"
          /\ cmd'[c] = r.cmd /\ scope'[c] = {For(c)} \ {None}
          /\ arg'[c] = IF For(c) = None THEN r.arg ELSE ScopedArg(r.arg, For(c))
      BY <1>3, <1>4, <2>1
    <3> QED
      BY <1>1, <1>3, <2>1, <3>1 DEF Hired
  <2>2. CASE ~ Minted(c)
    BY <1>4, <2>2 DEF Unhired
  <2> QED
    BY <2>1, <2>2
<1> QED
  BY <1>6, <1>7 DEF StartJobs

(* start_jobs: each new job is pinned to its template, or to none.         *)
LEMMA StartingShape ==
  ASSUME IInv, Shape, Pinnings, StartJobs
  PROVE  Shape' /\ Pinnings'
<1>1. Shape'
  BY Minting DEF Shape, registry, hosts, gate, locks, dispatch, cancel
<1>2. ASSUME NEW c \in Call PROVE Pinned(c)'
  <2>1. /\ Pinned(c) /\ todo'[c] = todo[c] /\ plan'[c] = plan[c]
        /\ key'[c] = key[c] /\ orphan'[c] = orphan[c] /\ cx'[c] = cx[c]
    BY <1>2, Minting DEF Pinnings, dispatch, cancel
  <2>2. CASE Unhired(c)
    BY <2>1, <2>2 DEF Unhired, Pinned, Mutator
  <2>3. CASE Hired(c)
    <3>1. PICK r \in Requests : \E t \in Targets(r) :
            /\ r.background /\ cmd'[c] = r.cmd /\ scope'[c] = {t} \ {None}
            /\ arg'[c] = IF t = None THEN r.arg ELSE ScopedArg(r.arg, t)
      BY <2>3 DEF Hired
    <3>2. PICK t \in Targets(r) :
            /\ r.background /\ cmd'[c] = r.cmd /\ scope'[c] = {t} \ {None}
            /\ arg'[c] = IF t = None THEN r.arg ELSE ScopedArg(r.arg, t)
      BY <3>1
    <3>3. r.cmd \notin {"load", "unload"} /\ r.arg \in Argument
      BY <3>2, SessionAssumption DEF Argument
    <3>4. t # None => /\ t \in Template
                      /\ r.arg = AllTemplates \/ r.arg = Unscoped \/ r.arg = t
      BY <3>3 DEF Shape, Targets, Resolved, Argument
    <3>5. Unscoped # AllTemplates
      BY DEF Unscoped, AllTemplates
    <3>6. plan[c] = {}
      BY <2>1, <2>3 DEF Hired, Pinned
    <3> QED
      BY <2>1, <2>3, <3>2, <3>3, <3>4, <3>5, <3>6
         DEF Hired, Pinned, Mutator, ScopedArg
  <2> QED
    BY <1>2, <2>2, <2>3, Minting
<1> QED
  BY <1>1, <1>2 DEF Pinnings

LEMMA StillShape ==
  ASSUME IInv, Shape, Pinnings, UNCHANGED vars
  PROVE  Shape' /\ Pinnings'
<1> USE DEF vars, registry, hosts, gate, locks, dispatch, request, job, cancel
<1>1. Shape'
  BY DEF Shape
<1> QED
  BY <1>1 DEF Pinnings, Pinned, Mutator

(* Every step keeps the types and the requests.                            *)
LEMMA ShapeStep ==
  ASSUME IInv, Shape, Pinnings, [Next]_vars
  PROVE  Shape' /\ Pinnings'
<1>1. ASSUME NEW c \in Call, Moves(c) PROVE Shape' /\ Pinnings'
  <2>1. Pinned(c) /\ Shape'
    BY <1>1, MoveShape DEF Pinnings
  <2>2. ASSUME NEW d \in Call \ {c} PROVE Pinned(d)'
    <3>1. Fate
      BY <1>1, Step DEF Next, Moves
    <3> QED
      BY <1>1, <2>2, <3>1, MoveAside, AsidePinned DEF Pinnings
  <2> QED
    BY <1>1, <2>1, <2>2, MoveShape DEF Pinnings
<1> QED
  BY <1>1, StartingShape, StillShape DEF Next, Quiet, Moves

(* The first layer is an invariant.                                        *)
LEMMA ShapeHolds == Spec => [](IInv /\ Shape /\ Pinnings)
<1>1. Init => IInv /\ Shape /\ Pinnings
  BY InitIInv, InitShape
<1>2. IInv /\ Shape /\ Pinnings /\ [Next]_vars => (IInv /\ Shape /\ Pinnings)'
  BY Step, ShapeStep
<1> QED
  BY <1>1, <1>2, PTL DEF Spec

(* A job acts on the template its record names, though templates come and  *)
(* go between its start and its dispatch (scope_argv pins its worker).     *)
THEOREM JobsStayInScope == Spec => []JobStaysInScope
<1>1. Pinnings => JobStaysInScope
  BY DEF Pinnings, Pinned, JobStaysInScope
<1> QED
  BY ShapeHolds, <1>1, PTL

-----------------------------------------------------------------------------
(* Who has the session mutex, and what the canonical session points to.    *)

(* The dispatch of c runs on the canonical session.                        *)
InSession(c) ==
  ~ Scoped(c) /\ pc[c] \in {"boundary", "body", "locking", "working"}

Seated(c) ==
  /\ InSession(c) <=> mutex = c
  /\ pc[c] \in {"shared", "rrid"} => Scoped(c)
  /\ InSession(c) => c \in writing
  /\ InSession(c) /\ ~ Mutator(c) => plan[c] \subseteq loaded
  /\ Mutator(c) /\ pc[c] = "body" => canon = None

(* A guard that is left on the canonical session while nobody is in it is  *)
(* that of an aborted command, whose unlock pass has not begun.            *)
LeftByAbort ==
  canon # None /\ mutex = None => \E c \in Call : cx[c] = "preamble"

Pointers ==
  /\ active \in loaded \cup {None} /\ canon \in loaded \cup {None}
  /\ LeftByAbort

(* What a step of c does for the other calls.                              *)
Yields(c) == \A d \in Call \ {c} :
  /\ mutex' = d <=> mutex = d
  /\ mutex = d => canon' = canon /\ loaded' = loaded

Sits(c) == Seated(c)' /\ Pointers' /\ Yields(c)

(* command_lock.                                                           *)
LEMMA EnteringSeat ==
  ASSUME Shape, NEW c \in Call, Pinned(c), Places(c), Holds(c),
         Current(c), Seated(c), Pointers, Types,
         Resolve(c) \/ EnterShared(c) \/ LockRrid(c) \/ EnterExclusive(c) \/
         Ask(c)
  PROVE  Sits(c)
<1> USE DEF Sits, Seated, Pointers, LeftByAbort, Yields, InSession, Shape,
    Pinned, Mutator, Scoped, Places, Holds, Current, Live, InTask, registry,
    hosts, gate, locks, dispatch, request, job, cancel, Passing, Types
<1>1. CASE Resolve(c)
  <2>1. Seated(c)'
    BY <1>1, SessionAssumption DEF Resolve, Resolved, Goto, Gate!Queue,
        Gate!Away
  <2>2. Pointers'
    BY <1>1, SessionAssumption DEF Resolve, Resolved, Goto, Gate!Queue,
        Gate!Away
  <2>3. Yields(c)
    BY <1>1, SessionAssumption DEF Resolve, Resolved, Goto, Gate!Queue,
        Gate!Away
  <2> QED
    BY <2>1, <2>2, <2>3
<1>2. CASE EnterShared(c)
  BY <1>2 DEF EnterShared, Goto, Gate!Read, Gate!Away
<1>3. CASE LockRrid(c)
  <2>1. Seated(c)'
    BY <1>3 DEF LockRrid, Goto
  <2>2. Pointers'
    BY <1>3 DEF LockRrid, Goto
  <2>3. Yields(c)
    BY <1>3 DEF LockRrid, Goto
  <2> QED
    BY <2>1, <2>2, <2>3
<1>4. CASE EnterExclusive(c)
  <2>1. Seated(c)'
    BY <1>4, SessionAssumption DEF EnterExclusive, Begin, Resolved, Goto,
        Gate!Write
  <2>2. Pointers'
    BY <1>4, SessionAssumption DEF EnterExclusive, Begin, Resolved, Goto,
        Gate!Write
  <2>3. Yields(c)
    BY <1>4, SessionAssumption DEF EnterExclusive, Begin, Resolved, Goto,
        Gate!Write
  <2> QED
    BY <2>1, <2>2, <2>3
<1>5. CASE Ask(c)
  BY <1>5 DEF Ask, Goto
<1> QED
  BY <1>1, <1>2, <1>3, <1>4, <1>5

(* A dispatch.                                                             *)
LEMMA RunningSeat ==
  ASSUME Shape, NEW c \in Call, Pinned(c), Places(c), Holds(c),
         Current(c), Seated(c), Pointers, Types,
         Skip(c) \/ Activate(c) \/ BodyFails(c) \/ Select(c) \/
         LockHosts(c) \/ LockRefused(c) \/ Work(c) \/ Finish(c) \/ Leave(c)
  PROVE  Sits(c)
<1> USE DEF Sits, Seated, Pointers, LeftByAbort, Yields, InSession, Shape,
    Pinned, Mutator, Scoped, Places, Holds, Current, Live, InTask, registry,
    hosts, gate, locks, dispatch, request, job, cancel, Passing, Types
<1>1. CASE Skip(c)
  BY <1>1 DEF Skip, AtBoundary
<1>2. CASE Activate(c)
  <2>1. Seated(c)'
    BY <1>2, SessionAssumption DEF Activate, AtBoundary, Goto
  <2>2. Pointers'
    BY <1>2, SessionAssumption DEF Activate, AtBoundary, Goto
  <2>3. Yields(c)
    BY <1>2, SessionAssumption DEF Activate, AtBoundary, Goto
  <2> QED
    BY <2>1, <2>2, <2>3
<1>3. CASE BodyFails(c)
  BY <1>3 DEF BodyFails, GroupGone, Goto
<1>4. CASE Select(c)
  BY <1>4 DEF Select, Goto
<1>5. CASE LockHosts(c)
  BY <1>5 DEF LockHosts, Goto
<1>6. CASE LockRefused(c)
  BY <1>6 DEF LockRefused, Goto
<1>7. CASE Work(c)
  BY <1>7 DEF Work, Goto
<1>8. CASE Finish(c)
  <2>1. Seated(c)'
    BY <1>8, SessionAssumption DEF Finish, Over, AtBoundary, DropGate, Forget,
        Goto
  <2>2. Pointers'
    BY <1>8, SessionAssumption DEF Finish, Over, AtBoundary, DropGate, Forget,
        Goto
  <2>3. Yields(c)
    BY <1>8, SessionAssumption DEF Finish, Over, AtBoundary, DropGate, Forget,
        Goto
  <2> QED
    BY <2>1, <2>2, <2>3
<1>9. CASE Leave(c)
  BY <1>9 DEF Leave, DropGate, DropRrid, Forget, Goto
<1> QED
  BY <1>1, <1>2, <1>3, <1>4, <1>5, <1>6, <1>7, <1>8, <1>9

(* Load and unload.                                                        *)
LEMMA MutatingSeat ==
  ASSUME Shape, NEW c \in Call, Pinned(c), Places(c), Holds(c),
         Current(c), Seated(c), Pointers, Types,
         Load(c) \/ Unload(c)
  PROVE  Sits(c)
<1> USE DEF Sits, Seated, Pointers, LeftByAbort, Yields, InSession, Shape,
    Pinned, Mutator, Scoped, Places, Holds, Current, Live, InTask, registry,
    hosts, gate, locks, dispatch, request, job, cancel, Passing, Types
<1>1. CASE Load(c)
  <2>1. Seated(c)'
    BY <1>1, SessionAssumption DEF Load, TornDown, Released, Goto
  <2>2. Pointers'
    BY <1>1, SessionAssumption DEF Load, TornDown, Released, Goto
  <2>3. Yields(c)
    BY <1>1, SessionAssumption DEF Load, TornDown, Released, Goto
  <2> QED
    BY <2>1, <2>2, <2>3
<1>2. CASE Unload(c)
  BY <1>2 DEF Unload, TornDown, Released, Goto
<1> QED
  BY <1>1, <1>2

(* The Job record.                                                         *)
LEMMA RecordingSeat ==
  ASSUME Shape, NEW c \in Call, Pinned(c), Places(c), Holds(c),
         Current(c), Seated(c), Pointers, Types,
         Record(c) \/ Evict(c) \/ Cancel(c) \/ Joined(c) \/ Reply(c)
  PROVE  Sits(c)
<1> USE DEF Sits, Seated, Pointers, LeftByAbort, Yields, InSession, Shape,
    Pinned, Mutator, Scoped, Places, Holds, Current, Live, InTask, registry,
    hosts, gate, locks, dispatch, request, job, cancel, Passing, Types
<1>1. CASE Record(c)
  BY <1>1 DEF Record, Goto
<1>2. CASE Evict(c)
  BY <1>2 DEF Evict, EvictCompleted, Goto
<1>3. CASE Cancel(c)
  BY <1>3 DEF Cancel
<1>4. CASE Joined(c)
  BY <1>4 DEF Joined
<1>5. CASE Reply(c)
  BY <1>5 DEF Reply, EvictCompleted
<1> QED
  BY <1>1, <1>2, <1>3, <1>4, <1>5

(* The forced arm.                                                         *)
LEMMA AbortingSeat ==
  ASSUME Shape, NEW c \in Call, Pinned(c), Places(c), Holds(c),
         Current(c), Seated(c), Pointers, Types,
         Abort(c) \/ DropTask(c)
  PROVE  Sits(c)
<1> USE DEF Sits, Seated, Pointers, LeftByAbort, Yields, InSession, Shape,
    Pinned, Mutator, Scoped, Places, Holds, Current, Live, InTask, registry,
    hosts, gate, locks, dispatch, request, job, cancel, Passing, Types
<1>1. CASE Abort(c)
  <2>1. Seated(c)'
    BY <1>1, SessionAssumption DEF Abort, DropGate, DropRrid, DropGroup,
        GroupGone, Forget, Goto
  <2>2. Pointers'
    BY <1>1, SessionAssumption DEF Abort, DropGate, DropRrid, DropGroup,
        GroupGone, Forget, Goto
  <2>3. Yields(c)
    BY <1>1, SessionAssumption DEF Abort, DropGate, DropRrid, DropGroup,
        GroupGone, Forget, Goto
  <2> QED
    BY <2>1, <2>2, <2>3
<1>2. CASE DropTask(c)
  BY <1>2 DEF DropTask, DropGroup, GroupGone, Forget, Goto
<1> QED
  BY <1>1, <1>2

(* The unlock pass.                                                        *)
LEMMA UnlockingSeat ==
  ASSUME Shape, NEW c \in Call, Pinned(c), Places(c), Holds(c),
         Current(c), Seated(c), Pointers, Types,
         Preamble(c) \/ Stall(c) \/ PassGate(c) \/ PassRrid(c) \/
         PassEntry(c) \/ PassUnlock(c) \/ PassExpires(c)
  PROVE  Sits(c)
<1> USE DEF Sits, Seated, Pointers, LeftByAbort, Yields, InSession, Shape,
    Pinned, Mutator, Scoped, Places, Holds, Current, Live, InTask, registry,
    hosts, gate, locks, dispatch, request, job, cancel, Passing, Types
<1>1. CASE Preamble(c)
  <2>1. Seated(c)'
    BY <1>1, SessionAssumption DEF Preamble, Pass
  <2>2. Pointers'
    BY <1>1, SessionAssumption DEF Preamble, Pass
  <2>3. Yields(c)
    BY <1>1, SessionAssumption DEF Preamble, Pass
  <2> QED
    BY <2>1, <2>2, <2>3
<1>2. CASE Stall(c)
  BY <1>2 DEF Stall
<1>3. CASE PassGate(c)
  BY <1>3 DEF PassGate, Gate!Read, Gate!Away
<1>4. CASE PassRrid(c)
  BY <1>4 DEF PassRrid
<1>5. CASE PassEntry(c)
  BY <1>5 DEF PassEntry
<1>6. CASE PassUnlock(c)
  BY <1>6 DEF PassUnlock, Released, DropGate, DropRrid, Pass
<1>7. CASE PassExpires(c)
  BY <1>7 DEF PassExpires, DropGate, DropRrid, Pass
<1> QED
  BY <1>1, <1>2, <1>3, <1>4, <1>5, <1>6, <1>7

(* A step of a call keeps its own place on the canonical session.          *)
LEMMA MoveSeats ==
  ASSUME IInv, Shape, NEW c \in Call, Pinned(c), Seated(c), Pointers, Moves(c)
  PROVE  Sits(c)
<1>1. Types /\ Places(c) /\ Holds(c) /\ Current(c)
  BY DEF IInv
<1> QED
  BY <1>1, EnteringSeat, RunningSeat, MutatingSeat, RecordingSeat,
     AbortingSeat,
     UnlockingSeat DEF Moves, Advance, Body, CancelStep

(* ... and, by Yields, that of every other call.                           *)
LEMMA AsideSeated ==
  ASSUME NEW c \in Call, NEW d \in Call \ {c}, Aside(d), Yields(c), Seated(d),
         Places(d)
  PROVE  Seated(d)'
BY DEF Aside, Same, Yields, Seated, InSession, Scoped, Mutator, Places

Seats == Pointers /\ \A c \in Call : Seated(c)

(* Every step keeps the second layer.                                      *)
LEMMA SeatsStep ==
  ASSUME IInv, Shape, Pinnings, Seats, [Next]_vars
  PROVE  Seats'
<1>1. ASSUME NEW c \in Call, Moves(c) PROVE Seats'
  <2>1. Sits(c)
    BY <1>1, MoveSeats DEF Pinnings, Seats
  <2>2. ASSUME NEW d \in Call \ {c} PROVE Seated(d)'
    BY <1>1, <2>1, <2>2, MoveAside, AsideSeated DEF Sits, Seats, IInv
  <2> QED
    BY <1>1, <2>1, <2>2 DEF Sits, Seats
<1>2. CASE StartJobs
  <2>1. /\ \A c \in Call : Hired(c) \/ Unhired(c)
        /\ UNCHANGED <<registry, hosts, gate, locks, dispatch, cancel>>
    BY <1>2, Minting
  <2> USE <2>1 DEF registry, gate, locks, dispatch, cancel
  <2>2. Pointers'
    BY DEF Seats, Pointers, LeftByAbort
  <2>3. ASSUME NEW c \in Call PROVE Seated(c)'
    <3>1. Seated(c)
      BY DEF Seats
    <3>2. CASE Hired(c)
      BY <2>3, <3>1, <3>2 DEF Hired, Seated, InSession, Scoped, Mutator
    <3>3. CASE Unhired(c)
      BY <2>3, <3>1, <3>3 DEF Unhired, Seated, InSession, Scoped, Mutator
    <3> QED
      BY <2>1, <2>3, <3>2, <3>3
  <2> QED
    BY <2>2, <2>3 DEF Seats
<1>3. CASE UNCHANGED vars
  BY <1>3 DEF Seats, Pointers, LeftByAbort, Seated, InSession, Scoped, Mutator,
     vars, registry, gate, locks, dispatch, request, cancel
<1> QED
  BY <1>1, <1>2, <1>3 DEF Next, Quiet, Moves

LEMMA InitSeats == Init => Seats
<1> SUFFICES ASSUME Init PROVE Seats
  OBVIOUS
<1>1. Pointers
  BY DEF Init, Pointers, LeftByAbort
<1>2. ASSUME NEW c \in Call PROVE Seated(c)
  BY <1>2, SessionAssumption DEF Init, Seated, InSession, Scoped, Mutator
<1> QED
  BY <1>1, <1>2 DEF Seats

-----------------------------------------------------------------------------
(* The entries of the reports, as the guards of the dispatches have them,  *)
(* and the RRID locks.                                                     *)

Forked(c) ==
  /\ fork[c] # None => Scoped(c) /\ InTask(c)
  /\ fork[c] # None /\ pc[c] # "leaving" => fork[c] \in plan[c] /\ fork[c] \in loaded
  /\ canon # None => fork[c] # canon
  /\ Live(c) => rridLock[key[c]] = c

(* The unlock pass of a cancel.                                            *)
Unlocks(c) ==
  /\ cx[c] \in {"no", "grace", "preamble", "evict", "replied"} => left[c] = {}
  /\ cx[c] \in {"rrid", "entry", "unlock"} => c \in reading /\ at[c] \in left[c]
  /\ cx[c] \in {"entry", "unlock"} => rridLock[at[c]] = c
  /\ cx[c] = "unlock" => canon # at[c] /\ fork[c] # at[c]

(* Two calls do not have the same entry.                                   *)
Apart(c, d) ==
  /\ fork[c] # None => fork[c] # fork[d]
  /\ cx[c] = "unlock" => fork[d] # at[c]

(* What a step of c takes is free for c, and nobody has what it unloads.   *)
Grabs(c) ==
  /\ fork'[c] \in {fork[c], None} \/ EntryFree(c, fork'[c])
  /\ canon' \in {canon, None} \/ EntryFree(c, canon')
  /\ \A t \in loaded \ loaded' : EntryFree(c, t)
  /\ cx'[c] = "unlock" => \/ cx[c] = "unlock" /\ at'[c] = at[c]
                          \/ EntryFree(c, at'[c])

(* command_lock.                                                           *)
LEMMA EnteringEntry ==
  ASSUME Types, Shape, NEW c \in Call, Pinned(c), Places(c), Holds(c),
         Current(c), Seated(c), Pointers, Forked(c), Unlocks(c),
         Resolve(c) \/ EnterShared(c) \/ LockRrid(c) \/ EnterExclusive(c) \/
         Ask(c)
  PROVE  Forked(c)' /\ Unlocks(c)' /\ Grabs(c)
<1> USE DEF Grabs, Forked, Unlocks, Shape, Pinned, Mutator, Scoped, Places,
    Holds, Current, Live, InTask, Seated, InSession, Pointers, registry,
    hosts, gate, locks, dispatch, request, job, cancel, Passing, Stage, Types
<1>1. CASE Resolve(c)
  BY <1>1 DEF Resolve, Resolved, Goto, Gate!Queue, Gate!Away
<1>2. CASE EnterShared(c)
  BY <1>2 DEF EnterShared, Goto, Gate!Read, Gate!Away
<1>3. CASE LockRrid(c)
  <2>1. Forked(c)'
    BY <1>3, SessionAssumption DEF LockRrid, Begin, Resolved, Goto
  <2>2. Unlocks(c)'
    BY <1>3, SessionAssumption DEF LockRrid, Begin, Resolved, Goto
  <2>3. Grabs(c)
    BY <1>3, SessionAssumption DEF LockRrid, Begin, Resolved, Goto
  <2> QED
    BY <2>1, <2>2, <2>3
<1>4. CASE EnterExclusive(c)
  <2>1. Forked(c)'
    BY <1>4, SessionAssumption DEF EnterExclusive, Begin, Resolved, Goto,
        Gate!Write
  <2>2. Unlocks(c)'
    BY <1>4, SessionAssumption DEF EnterExclusive, Begin, Resolved, Goto,
        Gate!Write
  <2>3. Grabs(c)
    BY <1>4, SessionAssumption DEF EnterExclusive, Begin, Resolved, Goto,
        Gate!Write
  <2> QED
    BY <2>1, <2>2, <2>3
<1>5. CASE Ask(c)
  BY <1>5 DEF Ask, Goto
<1> QED
  BY <1>1, <1>2, <1>3, <1>4, <1>5

(* A dispatch.                                                             *)
LEMMA RunningEntry ==
  ASSUME Types, Shape, NEW c \in Call, Pinned(c), Places(c), Holds(c),
         Current(c), Seated(c), Pointers, Forked(c), Unlocks(c),
         Skip(c) \/ Activate(c) \/ BodyFails(c) \/ Select(c) \/
         LockHosts(c) \/ LockRefused(c) \/ Work(c) \/ Finish(c) \/ Leave(c)
  PROVE  Forked(c)' /\ Unlocks(c)' /\ Grabs(c)
<1> USE DEF Grabs, Forked, Unlocks, Shape, Pinned, Mutator, Scoped, Places,
    Holds, Current, Live, InTask, Seated, InSession, Pointers, registry,
    hosts, gate, locks, dispatch, request, job, cancel, Passing, Stage, Types
<1>1. CASE Skip(c)
  BY <1>1 DEF Skip, AtBoundary
<1>2. CASE Activate(c)
  <2>1. PICK t \in todo[c] :
          LET guard == IF EntryFree(c, t) THEN t ELSE None
          IN IF Scoped(c)
             THEN fork' = [fork EXCEPT ![c] = guard] /\ UNCHANGED <<canon, active>>
             ELSE canon' = guard /\ active' = t /\ UNCHANGED fork
    BY <1>2 DEF Activate
  <2>2. t \in plan[c] /\ pc[c] = "boundary" /\ cx[c] = "no" /\ ~ orphan[c]
    BY <1>2 DEF Activate, AtBoundary, CancelRequested
  <2>3. /\ pc' = [pc EXCEPT ![c] = "body"]
        /\ UNCHANGED <<loaded, gate, rridLock, key, plan, orphan, cancel>>
    BY <1>2 DEF Activate, Goto
  <2>4. InSession(c) \/ Live(c)
    BY <2>2
  <2>5. CASE Scoped(c)
    <3>1. t \in loaded
      BY <2>2, <2>5
    <3>2. \/ fork'[c] = t /\ EntryFree(c, t)
          \/ fork'[c] = None
      BY <2>1, <2>5
    <3>3. Forked(c)'
      BY <2>1, <2>2, <2>3, <2>5, <3>1, <3>2 DEF EntryFree
    <3> QED
      BY <2>1, <2>2, <2>3, <2>5, <3>2, <3>3
  <2>6. CASE ~ Scoped(c)
    BY <2>1, <2>2, <2>3, <2>6, SessionAssumption
  <2> QED
    BY <2>5, <2>6
<1>3. CASE BodyFails(c)
  BY <1>3 DEF BodyFails, GroupGone, Goto
<1>4. CASE Select(c)
  BY <1>4 DEF Select, Goto
<1>5. CASE LockHosts(c)
  BY <1>5 DEF LockHosts, Goto
<1>6. CASE LockRefused(c)
  BY <1>6 DEF LockRefused, Goto
<1>7. CASE Work(c)
  BY <1>7 DEF Work, Goto
<1>8. CASE Finish(c)
  <2>1. Forked(c)'
    BY <1>8, SessionAssumption DEF Finish, Over, AtBoundary, DropGate, Forget,
        Goto, EntryFree
  <2>2. Unlocks(c)'
    BY <1>8, SessionAssumption DEF Finish, Over, AtBoundary, DropGate, Forget,
        Goto, EntryFree
  <2>3. Grabs(c)
    BY <1>8, SessionAssumption DEF Finish, Over, AtBoundary, DropGate, Forget,
        Goto, EntryFree
  <2> QED
    BY <2>1, <2>2, <2>3
<1>9. CASE Leave(c)
  <2>1. Forked(c)'
    BY <1>9, SessionAssumption DEF Leave, DropGate, DropRrid, Forget, Goto
  <2>2. Unlocks(c)'
    BY <1>9, SessionAssumption DEF Leave, DropGate, DropRrid, Forget, Goto
  <2>3. Grabs(c)
    BY <1>9, SessionAssumption DEF Leave, DropGate, DropRrid, Forget, Goto
  <2> QED
    BY <2>1, <2>2, <2>3
<1> QED
  BY <1>1, <1>2, <1>3, <1>4, <1>5, <1>6, <1>7, <1>8, <1>9

(* Load and unload.                                                        *)
LEMMA MutatingEntry ==
  ASSUME Types, Shape, NEW c \in Call, Pinned(c), Places(c), Holds(c),
         Current(c), Seated(c), Pointers, Forked(c), Unlocks(c),
         Load(c) \/ Unload(c)
  PROVE  Forked(c)' /\ Unlocks(c)' /\ Grabs(c)
<1> USE DEF Grabs, Forked, Unlocks, Shape, Pinned, Mutator, Scoped, Places,
    Holds, Current, Live, InTask, Seated, InSession, Pointers, registry,
    hosts, gate, locks, dispatch, request, job, cancel, Passing, Stage, Types
<1>1. CASE Load(c)
  <2>1. Forked(c)'
    BY <1>1, SessionAssumption DEF Load, TornDown, Released, Goto, EntryFree
  <2>2. Unlocks(c)'
    BY <1>1, SessionAssumption DEF Load, TornDown, Released, Goto, EntryFree
  <2>3. Grabs(c)
    BY <1>1, SessionAssumption DEF Load, TornDown, Released, Goto, EntryFree
  <2> QED
    BY <2>1, <2>2, <2>3
<1>2. CASE Unload(c)
  <2>1. Forked(c)'
    BY <1>2, SessionAssumption DEF Unload, TornDown, Released, Goto, EntryFree
  <2>2. Unlocks(c)'
    BY <1>2, SessionAssumption DEF Unload, TornDown, Released, Goto, EntryFree
  <2>3. Grabs(c)
    BY <1>2, SessionAssumption DEF Unload, TornDown, Released, Goto, EntryFree
  <2> QED
    BY <2>1, <2>2, <2>3
<1> QED
  BY <1>1, <1>2

(* The Job record.                                                         *)
LEMMA RecordingEntry ==
  ASSUME Types, Shape, NEW c \in Call, Pinned(c), Places(c), Holds(c),
         Current(c), Seated(c), Pointers, Forked(c), Unlocks(c),
         Record(c) \/ Evict(c) \/ Cancel(c) \/ Joined(c) \/ Reply(c)
  PROVE  Forked(c)' /\ Unlocks(c)' /\ Grabs(c)
<1> USE DEF Grabs, Forked, Unlocks, Shape, Pinned, Mutator, Scoped, Places,
    Holds, Current, Live, InTask, Seated, InSession, Pointers, registry,
    hosts, gate, locks, dispatch, request, job, cancel, Passing, Stage, Types
<1>1. CASE Record(c)
  BY <1>1 DEF Record, Goto
<1>2. CASE Evict(c)
  BY <1>2 DEF Evict, EvictCompleted, Goto
<1>3. CASE Cancel(c)
  BY <1>3 DEF Cancel
<1>4. CASE Joined(c)
  BY <1>4 DEF Joined
<1>5. CASE Reply(c)
  BY <1>5 DEF Reply, EvictCompleted
<1> QED
  BY <1>1, <1>2, <1>3, <1>4, <1>5

(* The forced arm.                                                         *)
LEMMA AbortingEntry ==
  ASSUME Types, Shape, NEW c \in Call, Pinned(c), Places(c), Holds(c),
         Current(c), Seated(c), Pointers, Forked(c), Unlocks(c),
         Abort(c) \/ DropTask(c)
  PROVE  Forked(c)' /\ Unlocks(c)' /\ Grabs(c)
<1> USE DEF Grabs, Forked, Unlocks, Shape, Pinned, Mutator, Scoped, Places,
    Holds, Current, Live, InTask, Seated, InSession, Pointers, registry,
    hosts, gate, locks, dispatch, request, job, cancel, Passing, Stage, Types
<1>1. CASE Abort(c)
  <2>1. Forked(c)'
    BY <1>1, SessionAssumption DEF Abort, DropGate, DropRrid, DropGroup,
        GroupGone, Forget, Goto
  <2>2. Unlocks(c)'
    BY <1>1, SessionAssumption DEF Abort, DropGate, DropRrid, DropGroup,
        GroupGone, Forget, Goto
  <2>3. Grabs(c)
    BY <1>1, SessionAssumption DEF Abort, DropGate, DropRrid, DropGroup,
        GroupGone, Forget, Goto
  <2> QED
    BY <2>1, <2>2, <2>3
<1>2. CASE DropTask(c)
  <2>1. Forked(c)'
    BY <1>2, SessionAssumption DEF DropTask, DropGroup, GroupGone, Forget,
        Goto
  <2>2. Unlocks(c)'
    BY <1>2, SessionAssumption DEF DropTask, DropGroup, GroupGone, Forget,
        Goto
  <2>3. Grabs(c)
    BY <1>2, SessionAssumption DEF DropTask, DropGroup, GroupGone, Forget,
        Goto
  <2> QED
    BY <2>1, <2>2, <2>3
<1> QED
  BY <1>1, <1>2

(* The unlock pass.                                                        *)
LEMMA UnlockingEntry ==
  ASSUME Types, Shape, NEW c \in Call, Pinned(c), Places(c), Holds(c),
         Current(c), Seated(c), Pointers, Forked(c), Unlocks(c),
         Preamble(c) \/ Stall(c) \/ PassGate(c) \/ PassRrid(c) \/
         PassEntry(c) \/ PassUnlock(c) \/ PassExpires(c)
  PROVE  Forked(c)' /\ Unlocks(c)' /\ Grabs(c)
<1> USE DEF Grabs, Forked, Unlocks, Shape, Pinned, Mutator, Scoped, Places,
    Holds, Current, Live, InTask, Seated, InSession, Pointers, registry,
    hosts, gate, locks, dispatch, request, job, cancel, Passing, Stage, Types
<1>1. CASE Preamble(c)
  <2>1. Forked(c)'
    BY <1>1, SessionAssumption DEF Preamble, Pass
  <2>2. Unlocks(c)'
    BY <1>1, SessionAssumption DEF Preamble, Pass
  <2>3. Grabs(c)
    BY <1>1, SessionAssumption DEF Preamble, Pass
  <2> QED
    BY <2>1, <2>2, <2>3
<1>2. CASE Stall(c)
  BY <1>2 DEF Stall
<1>3. CASE PassGate(c)
  BY <1>3 DEF PassGate, Gate!Read, Gate!Away
<1>4. CASE PassRrid(c)
  BY <1>4 DEF PassRrid
<1>5. CASE PassEntry(c)
  <2>1. Forked(c)'
    BY <1>5, SessionAssumption DEF PassEntry, EntryFree
  <2>2. Unlocks(c)'
    BY <1>5, SessionAssumption DEF PassEntry, EntryFree
  <2>3. Grabs(c)
    BY <1>5, SessionAssumption DEF PassEntry, EntryFree
  <2> QED
    BY <2>1, <2>2, <2>3
<1>6. CASE PassUnlock(c)
  <2>1. Forked(c)'
    BY <1>6, SessionAssumption DEF PassUnlock, Released, DropGate, DropRrid,
        Pass
  <2>2. Unlocks(c)'
    BY <1>6, SessionAssumption DEF PassUnlock, Released, DropGate, DropRrid,
        Pass
  <2>3. Grabs(c)
    BY <1>6, SessionAssumption DEF PassUnlock, Released, DropGate, DropRrid,
        Pass
  <2> QED
    BY <2>1, <2>2, <2>3
<1>7. CASE PassExpires(c)
  <2>1. Forked(c)'
    BY <1>7, SessionAssumption DEF PassExpires, DropGate, DropRrid, Pass
  <2>2. Unlocks(c)'
    BY <1>7, SessionAssumption DEF PassExpires, DropGate, DropRrid, Pass
  <2>3. Grabs(c)
    BY <1>7, SessionAssumption DEF PassExpires, DropGate, DropRrid, Pass
  <2> QED
    BY <2>1, <2>2, <2>3
<1> QED
  BY <1>1, <1>2, <1>3, <1>4, <1>5, <1>6, <1>7

(* A step of a call keeps its own guards, and takes only what is free.     *)
LEMMA MoveEntries ==
  ASSUME IInv, Shape, NEW c \in Call, Pinned(c), Seated(c), Pointers,
         Forked(c), Unlocks(c), Moves(c)
  PROVE  Forked(c)' /\ Unlocks(c)' /\ Grabs(c)
<1>1. Types /\ Places(c) /\ Holds(c) /\ Current(c)
  BY DEF IInv
<1> QED
  BY <1>1, EnteringEntry, RunningEntry, MutatingEntry, RecordingEntry,
     AbortingEntry, UnlockingEntry DEF Moves, Advance, Body, CancelStep

(* What one call takes was free, so the others keep what they have.        *)
LEMMA AsideEntries ==
  ASSUME Shape, NEW c \in Call, NEW d \in Call \ {c}, Aside(d), Grabs(c),
         Forked(d), Unlocks(d), Apart(c, d), Apart(d, c)
  PROVE  Forked(d)' /\ Unlocks(d)' /\ Apart(c, d)' /\ Apart(d, c)'
<1>1. None \notin Template
  BY SessionAssumption
<1>2. /\ \A t : EntryFree(c, t) => fork[d] # t /\ (cx[d] = "unlock" => at[d] # t)
      /\ pc'[d] = pc[d] /\ cx'[d] = cx[d] /\ fork'[d] = fork[d]
      /\ at'[d] = at[d] /\ left'[d] = left[d] /\ plan'[d] = plan[d]
      /\ key'[d] = key[d] /\ orphan'[d] = orphan[d]
      /\ d \in reading' <=> d \in reading
      /\ \A t \in Template : rridLock'[t] = d <=> rridLock[t] = d
  BY DEF EntryFree, Aside, Same, Holding
<1>3. key[d] # None => key[d] \in Template
  BY DEF Shape
<1>4. at[d] \in left[d] => at[d] \in Template
  BY DEF Shape
<1>5. Forked(d)'
  BY <1>2, <1>3 DEF Grabs, Forked, Live, InTask, Scoped
<1>6. Unlocks(d)'
  BY <1>1, <1>2, <1>4 DEF Grabs, Unlocks
<1>7. Apart(c, d)'
  BY <1>2 DEF Grabs, Apart
<1>8. Apart(d, c)'
  BY <1>1, <1>2, <1>4 DEF Grabs, Apart, Unlocks
<1> QED
  BY <1>5, <1>6, <1>7, <1>8

Entries ==
  /\ \A c \in Call : Forked(c) /\ Unlocks(c)
  /\ \A c \in Call : \A d \in Call \ {c} : Apart(c, d)

(* Every step keeps the third layer: no two calls have one entry.          *)
LEMMA EntriesStep ==
  ASSUME IInv, Shape, Pinnings, Seats, Entries, [Next]_vars
  PROVE  Entries'
<1>1. ASSUME NEW c \in Call, Moves(c) PROVE Entries'
  <2>1. Forked(c)' /\ Unlocks(c)' /\ Grabs(c)
    BY <1>1, MoveEntries DEF Pinnings, Seats, Entries
  <2>2. ASSUME NEW d \in Call \ {c}
        PROVE  Forked(d)' /\ Unlocks(d)' /\ Apart(c, d)' /\ Apart(d, c)'
    BY <1>1, <2>1, <2>2, MoveAside, AsideEntries DEF Entries
  <2>3. ASSUME NEW d \in Call \ {c}, NEW e \in Call \ {c, d} PROVE Apart(d, e)'
    <3>1. Aside(d) /\ Aside(e) /\ Apart(d, e)
      BY <1>1, <2>3, MoveAside DEF Entries
    <3> QED
      BY <3>1 DEF Aside, Same, Apart
  <2> QED
    BY <1>1, <2>1, <2>2, <2>3 DEF Entries
<1>2. CASE StartJobs
  <2>1. /\ \A c \in Call : Hired(c) \/ Unhired(c)
        /\ UNCHANGED <<registry, hosts, gate, locks, dispatch, cancel>>
    BY <1>2, Minting
  <2> USE <2>1 DEF registry, gate, locks, dispatch, cancel
  <2>2. ASSUME NEW c \in Call PROVE Forked(c)' /\ Unlocks(c)'
    <3>1. Forked(c) /\ Unlocks(c)
      BY DEF Entries
    <3>2. CASE Hired(c)
      BY <2>2, <3>1, <3>2 DEF Hired, Forked, Unlocks, Live, InTask, Scoped
    <3>3. CASE Unhired(c)
      BY <2>2, <3>1, <3>3 DEF Unhired, Forked, Unlocks, Live, InTask, Scoped
    <3> QED
      BY <2>1, <2>2, <3>2, <3>3
  <2> QED
    BY <2>2 DEF Entries, Apart
<1>3. CASE UNCHANGED vars
  BY <1>3 DEF Entries, Forked, Unlocks, Apart, Live, InTask, Scoped,
     vars, registry, gate, locks, dispatch, cancel
<1> QED
  BY <1>1, <1>2, <1>3 DEF Next, Quiet, Moves

LEMMA InitEntries == Init => Entries
<1> SUFFICES ASSUME Init PROVE Entries
  OBVIOUS
<1>1. ASSUME NEW c \in Call PROVE Forked(c) /\ Unlocks(c)
  BY <1>1 DEF Init, Forked, Unlocks, Live, InTask
<1>2. ASSUME NEW c \in Call, NEW d \in Call PROVE Apart(c, d)
  BY <1>2 DEF Init, Apart
<1> QED
  BY <1>1, <1>2 DEF Entries

-----------------------------------------------------------------------------
(* The host groups, and the locks on their hosts.                          *)

(* The pass of the cancel of c has t before it, or has reported it.        *)
Due(c, t) == t \in scope[c] \/ scope[c] = {}
               => cx[c] = "preamble" \/ t \in left[c] \/ t \in told[c]

(* A lock on hosts is that of a command at work, or is due to a cancel.    *)
Owned(c) ==
  /\ pc[c] \in {"locking", "working"} => Guard(c) # None /\ group[Guard(c)] # "gone"
  /\ orphan[c] /\ fork[c] # None /\ pc[c] # "leaving" => Due(c, fork[c])
  /\ \A t \in Template : lockedBy[t] = c =>
       /\ t \in loaded /\ group[t] # "gone"
       /\ \/ pc[c] = "working" /\ Guard(c) = t
          \/ pc[c] = "end" /\ cx[c] \notin {"no", "grace"} /\ Due(c, t)

HasOut(c, t) == pc[c] \in {"locking", "working"} /\ Guard(c) = t

(* A group is out of its report only with a dispatch that has the entry.   *)
Taken == \A t \in Template : group[t] = "out" => \E c \in Call : HasOut(c, t)

(* What a step of c does to the hosts: of its entry, of a free entry, or   *)
(* a release.                                                              *)
Touches(c) == \A t \in Template :
  /\ lockedBy'[t] \in {lockedBy[t], None, Lost, c}
  /\ group'[t] = "gone" => group[t] = "gone" \/ Guard(c) = t
  /\ group'[t] = "gone" => group[t] = "gone" \/ lockedBy'[t] \notin Call
  /\ t \in loaded \ loaded' => lockedBy'[t] \notin Call
  /\ group'[t] = "gone" /\ group[t] # "gone"
       => pc[c] \in {"boundary", "body", "locking", "working"}
  /\ group'[t] = "out" => \/ HasOut(c, t)'
                          \/ group[t] = "out" /\ ~ HasOut(c, t)

(* An entry that is free for a command on the canonical session, or for an *)
(* unlock pass, has its group at home, if its hosts are locked at all.     *)
LEMMA FreeIsHome ==
  ASSUME Shape, Taken, \A c \in Call : Owned(c), NEW t \in Template,
         canon # t, \A d \in Call : fork[d] # t, lockedBy[t] \in Call
  PROVE  group[t] = "home"
<1>1. group[t] # "gone"
  BY DEF Owned
<1>2. group[t] # "out"
  BY DEF Taken, HasOut, Guard
<1> QED
  BY <1>1, <1>2 DEF Shape

(* command_lock.                                                           *)
LEMMA EnteringHosts ==
  ASSUME Types, Shape, NEW c \in Call, Pinned(c), Places(c),
         Seated(c), Pointers, Forked(c), Unlocks(c), Owned(c),
         Resolve(c) \/ EnterShared(c) \/ LockRrid(c) \/ EnterExclusive(c) \/
         Ask(c)
  PROVE  Owned(c)' /\ Touches(c)
<1> USE DEF Touches, Owned, Due, HasOut, Guard, Forked, Unlocks, Shape,
    Pinned, Mutator, Scoped, Places, Live, InTask, Seated, InSession,
    Pointers, registry, hosts, gate, locks, dispatch, request, job, cancel,
    Passing, Stage, Types
<1>1. CASE Resolve(c)
  BY <1>1 DEF Resolve, Resolved, Goto, Gate!Queue, Gate!Away
<1>2. CASE EnterShared(c)
  BY <1>2 DEF EnterShared, Goto, Gate!Read, Gate!Away
<1>3. CASE LockRrid(c)
  <2>1. Owned(c)'
    BY <1>3, SessionAssumption DEF LockRrid, Begin, Resolved, Goto
  <2>2. Touches(c)
    BY <1>3, SessionAssumption DEF LockRrid, Begin, Resolved, Goto
  <2> QED
    BY <2>1, <2>2
<1>4. CASE EnterExclusive(c)
  <2>1. Owned(c)'
    BY <1>4, SessionAssumption DEF EnterExclusive, Begin, Resolved, Goto,
        Gate!Write
  <2>2. Touches(c)
    BY <1>4, SessionAssumption DEF EnterExclusive, Begin, Resolved, Goto,
        Gate!Write
  <2> QED
    BY <2>1, <2>2
<1>5. CASE Ask(c)
  BY <1>5 DEF Ask, Goto
<1> QED
  BY <1>1, <1>2, <1>3, <1>4, <1>5

(* A dispatch.                                                             *)
LEMMA RunningHosts ==
  ASSUME Types, Shape, NEW c \in Call, Pinned(c), Places(c),
         Seated(c), Pointers, Forked(c), Unlocks(c), Owned(c),
         Skip(c) \/ Activate(c) \/ BodyFails(c) \/ Select(c) \/
         LockHosts(c) \/ LockRefused(c) \/ Work(c) \/ Finish(c) \/ Leave(c)
  PROVE  Owned(c)' /\ Touches(c)
<1> USE DEF Touches, Owned, Due, HasOut, Guard, Forked, Unlocks, Shape,
    Pinned, Mutator, Scoped, Places, Live, InTask, Seated, InSession,
    Pointers, registry, hosts, gate, locks, dispatch, request, job, cancel,
    Passing, Stage, Types
<1>1. CASE Skip(c)
  BY <1>1 DEF Skip, AtBoundary
<1>2. CASE Activate(c)
  <2>1. /\ pc[c] = "boundary" /\ pc' = [pc EXCEPT ![c] = "body"]
        /\ cx[c] = "no" /\ ~ orphan[c]
        /\ UNCHANGED <<loaded, group, lockedBy, orphan>>
    BY <1>2 DEF Activate, AtBoundary, CancelRequested, Goto
  <2>2. \A t \in Template : lockedBy[t] # c
    BY <2>1
  <2>3. Owned(c)'
    BY <2>1, <2>2
  <2>4. Touches(c)
    BY <2>1
  <2> QED
    BY <2>3, <2>4
<1>3. CASE BodyFails(c)
  <2>1. Owned(c)'
    BY <1>3, SessionAssumption DEF BodyFails, GroupGone, Goto
  <2>2. Touches(c)
    BY <1>3, SessionAssumption DEF BodyFails, GroupGone, Goto
  <2> QED
    BY <2>1, <2>2
<1>4. CASE Select(c)
  <2>1. Owned(c)'
    BY <1>4, SessionAssumption DEF Select, Goto
  <2>2. Touches(c)
    BY <1>4, SessionAssumption DEF Select, Goto
  <2> QED
    BY <2>1, <2>2
<1>5. CASE LockHosts(c)
  <2>1. Owned(c)'
    BY <1>5, SessionAssumption DEF LockHosts, Goto
  <2>2. Touches(c)
    BY <1>5, SessionAssumption DEF LockHosts, Goto
  <2> QED
    BY <2>1, <2>2
<1>6. CASE LockRefused(c)
  <2>1. Owned(c)'
    BY <1>6, SessionAssumption DEF LockRefused, Goto
  <2>2. Touches(c)
    BY <1>6, SessionAssumption DEF LockRefused, Goto
  <2> QED
    BY <2>1, <2>2
<1>7. CASE Work(c)
  <2>1. Owned(c)'
    BY <1>7, SessionAssumption DEF Work, Goto
  <2>2. Touches(c)
    BY <1>7, SessionAssumption DEF Work, Goto
  <2> QED
    BY <2>1, <2>2
<1>8. CASE Finish(c)
  <2>1. Owned(c)'
    BY <1>8, SessionAssumption DEF Finish, Over, AtBoundary, DropGate, Forget,
        Goto, EntryFree
  <2>2. Touches(c)
    BY <1>8, SessionAssumption DEF Finish, Over, AtBoundary, DropGate, Forget,
        Goto, EntryFree
  <2> QED
    BY <2>1, <2>2
<1>9. CASE Leave(c)
  <2>1. Owned(c)'
    BY <1>9, SessionAssumption DEF Leave, DropGate, DropRrid, Forget, Goto
  <2>2. Touches(c)
    BY <1>9, SessionAssumption DEF Leave, DropGate, DropRrid, Forget, Goto
  <2> QED
    BY <2>1, <2>2
<1> QED
  BY <1>1, <1>2, <1>3, <1>4, <1>5, <1>6, <1>7, <1>8, <1>9

(* The Job record.                                                         *)
LEMMA RecordingHosts ==
  ASSUME Types, Shape, NEW c \in Call, Pinned(c), Places(c),
         Seated(c), Pointers, Forked(c), Unlocks(c), Owned(c),
         Record(c) \/ Evict(c) \/ Cancel(c) \/ Joined(c) \/ Reply(c)
  PROVE  Owned(c)' /\ Touches(c)
<1> USE DEF Touches, Owned, Due, HasOut, Guard, Forked, Unlocks, Shape,
    Pinned, Mutator, Scoped, Places, Live, InTask, Seated, InSession,
    Pointers, registry, hosts, gate, locks, dispatch, request, job, cancel,
    Passing, Stage, Types
<1>1. CASE Record(c)
  BY <1>1 DEF Record, Goto
<1>2. CASE Evict(c)
  BY <1>2 DEF Evict, EvictCompleted, Goto
<1>3. CASE Cancel(c)
  BY <1>3 DEF Cancel
<1>4. CASE Joined(c)
  BY <1>4 DEF Joined
<1>5. CASE Reply(c)
  BY <1>5 DEF Reply, EvictCompleted
<1> QED
  BY <1>1, <1>2, <1>3, <1>4, <1>5

(* The forced arm.                                                         *)
LEMMA AbortingHosts ==
  ASSUME Types, Shape, NEW c \in Call, Pinned(c), Places(c),
         Seated(c), Pointers, Forked(c), Unlocks(c), Owned(c),
         Abort(c) \/ DropTask(c)
  PROVE  Owned(c)' /\ Touches(c)
<1> USE DEF Touches, Owned, Due, HasOut, Guard, Forked, Unlocks, Shape,
    Pinned, Mutator, Scoped, Places, Live, InTask, Seated, InSession,
    Pointers, registry, hosts, gate, locks, dispatch, request, job, cancel,
    Passing, Stage, Types
<1>1. CASE Abort(c)
  <2>1. Owned(c)'
    BY <1>1, SessionAssumption DEF Abort, DropGate, DropRrid, DropGroup,
        GroupGone, Forget, Goto
  <2>2. Touches(c)
    BY <1>1, SessionAssumption DEF Abort, DropGate, DropRrid, DropGroup,
        GroupGone, Forget, Goto
  <2> QED
    BY <2>1, <2>2
<1>2. CASE DropTask(c)
  <2>1. /\ orphan[c] /\ pc[c] # "leaving"
        /\ pc' = [pc EXCEPT ![c] = "end"]
        /\ orphan' = [orphan EXCEPT ![c] = FALSE]
        /\ UNCHANGED <<loaded, scope, cx, left, told>>
    BY <1>2 DEF DropTask, Goto
  <2>2. \A t \in Template : lockedBy'[t] = c =>
          lockedBy[t] = c /\ group'[t] = group[t]
    BY <1>2, SessionAssumption DEF DropTask, DropGroup, GroupGone
  <2>3. cx[c] \notin {"no", "grace"}
    BY <2>1
  <2>4. ASSUME NEW t \in Template, lockedBy'[t] = c
        PROVE  /\ t \in loaded' /\ group'[t] # "gone"
               /\ pc'[c] = "end" /\ cx'[c] \notin {"no", "grace"} /\ Due(c, t)'
    <3>1. lockedBy[t] = c /\ group'[t] = group[t]
      BY <2>2, <2>4
    <3>2. Due(c, t) /\ t \in loaded /\ group[t] # "gone"
      BY <2>1, <3>1, SessionAssumption
    <3> QED
      BY <2>1, <2>3, <3>1, <3>2
  <2>5. pc'[c] = "end" /\ ~ orphan'[c]
    BY <2>1
  <2>6. Owned(c)'
    BY <2>4, <2>5
  <2>7. ASSUME NEW t \in Template
        PROVE  \/ /\ group'[t] = group[t] /\ lockedBy'[t] = lockedBy[t]
                  /\ ~ (group[t] = "out" /\ Guard(c) = t)
               \/ /\ group'[t] = "gone" /\ Guard(c) = t
                  /\ pc[c] \in {"locking", "working", "boundary"}
                  /\ lockedBy'[t] \in {None, Lost}
    BY <1>2, SessionAssumption DEF DropTask, DropGroup, GroupGone
  <2>8. None \notin Call /\ Lost \notin Call
    BY SessionAssumption
  <2>9. Touches(c)
    BY <2>1, <2>7, <2>8
  <2> QED
    BY <2>6, <2>9
<1> QED
  BY <1>1, <1>2

(* The unlock pass.                                                        *)
LEMMA UnlockingHosts ==
  ASSUME Types, Shape, NEW c \in Call, Pinned(c), Places(c),
         Seated(c), Pointers, Forked(c), Unlocks(c), Owned(c),
         Preamble(c) \/ Stall(c) \/ PassGate(c) \/ PassRrid(c) \/
         PassEntry(c) \/ PassExpires(c)
  PROVE  Owned(c)' /\ Touches(c)
<1> USE DEF Touches, Owned, Due, HasOut, Guard, Forked, Unlocks, Shape,
    Pinned, Mutator, Scoped, Places, Live, InTask, Seated, InSession,
    Pointers, registry, hosts, gate, locks, dispatch, request, job, cancel,
    Passing, Stage, Types
<1>1. CASE Preamble(c)
  <2>1. Owned(c)'
    BY <1>1, SessionAssumption DEF Preamble, Pass
  <2>2. Touches(c)
    BY <1>1, SessionAssumption DEF Preamble, Pass
  <2> QED
    BY <2>1, <2>2
<1>2. CASE Stall(c)
  BY <1>2 DEF Stall
<1>3. CASE PassGate(c)
  BY <1>3 DEF PassGate, Gate!Read, Gate!Away
<1>4. CASE PassRrid(c)
  BY <1>4 DEF PassRrid
<1>5. CASE PassEntry(c)
  BY <1>5 DEF PassEntry, EntryFree
<1>6. CASE PassExpires(c)
  <2>1. Owned(c)'
    BY <1>6, SessionAssumption DEF PassExpires, DropGate, DropRrid, Pass
  <2>2. Touches(c)
    BY <1>6, SessionAssumption DEF PassExpires, DropGate, DropRrid, Pass
  <2> QED
    BY <2>1, <2>2
<1> QED
  BY <1>1, <1>2, <1>3, <1>4, <1>5, <1>6

(* Load and unload close a group whose entry is free: it is at home, so    *)
(* its locks are released.                                                 *)
LEMMA MutatingHosts ==
  ASSUME Types, Shape, NEW c \in Call, Places(c), Seated(c), Pointers,
         \A d \in Call : Forked(d) /\ Owned(d), Pinned(c), Taken,
         Load(c) \/ Unload(c)
  PROVE  Owned(c)' /\ Touches(c)
<1>1. /\ pc[c] = "body" /\ Mutator(c) /\ EntryFree(c, arg[c])
      /\ lockedBy' = Released(arg[c]) /\ pc' = [pc EXCEPT ![c] = "boundary"]
      /\ loaded \ loaded' \subseteq {arg[c]}
      /\ UNCHANGED <<scope, cx, left, told, orphan, fork>>
      /\ group' = group \/ group' = [group EXCEPT ![arg[c]] = "home"]
  BY DEF Load, Unload, TornDown, Goto, Mutator, job, cancel, dispatch
<1>2. ~ Scoped(c) /\ arg[c] \in Template /\ canon = None /\ ~ orphan[c]
  BY <1>1 DEF Places, Seated, Pinned, InTask
<1>3. \A d \in Call : fork[d] # arg[c]
  BY <1>1, <1>2, SessionAssumption DEF EntryFree, Forked
<1>4. lockedBy[arg[c]] \in Call => group[arg[c]] = "home"
  BY <1>2, <1>3, FreeIsHome, SessionAssumption
<1>5. lockedBy'[arg[c]] \notin Call
  BY <1>1, <1>2, <1>4, SessionAssumption DEF Released, Shape
<1>6. \A t \in Template : lockedBy'[t] \in {lockedBy[t], None}
  BY <1>1 DEF Released, Shape
<1>7. \A t \in Template : group'[t] \in {group[t], "home"}
  BY <1>1 DEF Shape
<1>8. \A t \in Template : lockedBy[t] # c
  BY <1>1 DEF Owned
<1>9. pc'[c] = "boundary" /\ ~ orphan'[c]
  BY <1>1, <1>2 DEF Types
<1>10. Owned(c)'
  BY <1>6, <1>8, <1>9, SessionAssumption DEF Owned
<1>11. Touches(c)
  BY <1>1, <1>5, <1>6, <1>7 DEF Touches, HasOut
<1> QED
  BY <1>10, <1>11

(* The pass of a template ends: its locks are released, or it is no longer *)
(* loaded and has none.                                                    *)
LEMMA PassingHosts ==
  ASSUME Types, Shape, NEW c \in Call, Places(c),
         \A d \in Call : Forked(d) /\ Owned(d),
         \A d \in Call \ {c} : Apart(c, d), Unlocks(c), Taken, PassUnlock(c)
  PROVE  Owned(c)' /\ Touches(c)
<1> DEFINE t == at[c]
<1>1. /\ cx[c] = "unlock" \/ (cx[c] = "entry" /\ t \notin loaded)
      /\ lockedBy' = IF cx[c] = "unlock" THEN Released(t) ELSE lockedBy
      /\ left' = [left EXCEPT ![c] = @ \ {t}] /\ Pass(c, "gate")
      /\ UNCHANGED <<loaded, group, canon, key, fork, orphan, scope, told, pc>>
  BY DEF PassUnlock, registry, dispatch, job
<1>2. t \in Template /\ cx[c] \in Passing
  BY <1>1 DEF Unlocks, Shape, Passing
<1>3. orphan[c] \/ pc[c] = "end"
  BY <1>2 DEF Places
<1>4. cx'[c] \in {"gate", "evict"} /\ left'[c] = left[c] \ {t}
  BY <1>1 DEF Pass, Types, Shape
<1>5. \A u \in Template : lockedBy'[u] \in {lockedBy[u], None}
  BY <1>1 DEF Released, Shape
<1>6. lockedBy'[t] # c
  <2>1. CASE cx[c] = "unlock"
    <3>1. canon # t /\ \A d \in Call : fork[d] # t
      BY <2>1 DEF Unlocks, Apart
    <3>2. lockedBy[t] \in Call => group[t] = "home"
      BY <1>2, <3>1, FreeIsHome
    <3> QED
      BY <1>1, <1>2, <2>1, <3>2, SessionAssumption DEF Released, Shape
  <2>2. CASE t \notin loaded
    BY <1>2, <1>5, <2>2, SessionAssumption DEF Owned
  <2> QED
    BY <1>1, <2>1, <2>2
<1>7. ASSUME NEW u \in Template, u # t, Due(c, u) PROVE Due(c, u)'
  BY <1>1, <1>2, <1>4, <1>7 DEF Due, Passing, Unlocks
<1>8. fork[c] # None /\ pc[c] # "leaving" => fork[c] # t
  BY <1>1 DEF Unlocks, Forked
<1>9. Guard(c)' = Guard(c)
  BY <1>1 DEF Guard, Scoped
<1>10. pc[c] \in {"locking", "working"}
         => Guard(c)' # None /\ group'[Guard(c)'] # "gone"
  BY <1>1, <1>9 DEF Owned
<1>11. orphan[c] /\ fork[c] # None /\ pc[c] # "leaving" => Due(c, fork[c])'
  <2> SUFFICES ASSUME orphan[c], fork[c] # None, pc[c] # "leaving"
                 PROVE  Due(c, fork[c])'
    OBVIOUS
  <2>2. fork[c] \in Template /\ Due(c, fork[c]) /\ fork[c] # t
    BY <1>8 DEF Owned, Shape
  <2>3. fork'[c] = fork[c]
    BY <1>1
  <2> QED
    BY <1>7, <2>2, <2>3 DEF Due
<1>12. ASSUME NEW u \in Template, lockedBy'[u] = c
       PROVE  /\ u \in loaded' /\ group'[u] # "gone"
              /\ \/ pc'[c] = "working" /\ Guard(c)' = u
                 \/ pc'[c] = "end" /\ cx'[c] \notin {"no", "grace"} /\ Due(c, u)'
  <2>1. lockedBy[u] = c /\ u # t
    BY <1>5, <1>6, <1>12, SessionAssumption
  <2> QED
    BY <1>1, <1>4, <1>7, <1>9, <2>1 DEF Owned
<1> HIDE DEF t
<1>13. Owned(c)'
  BY <1>1, <1>10, <1>11, <1>12 DEF Owned
<1>14. Touches(c)
  BY <1>1, <1>5, <1>9 DEF Touches, HasOut
<1> QED
  BY <1>13, <1>14

(* A step of a call keeps the account of its own locks on hosts.           *)
LEMMA MoveHosts ==
  ASSUME IInv, Shape, NEW c \in Call, Pinnings, Seats, Entries, Taken,
         \A d \in Call : Owned(d), Moves(c)
  PROVE  Owned(c)' /\ Touches(c)
<1>1. /\ Types /\ Places(c) /\ Pinned(c) /\ Seated(c) /\ Pointers
      /\ \A d \in Call : Forked(d) /\ Owned(d)
      /\ Unlocks(c) /\ \A d \in Call \ {c} : Apart(c, d)
  BY DEF IInv, Pinnings, Seats, Entries
<1>2. CASE Load(c) \/ Unload(c)
  BY <1>1, <1>2, MutatingHosts
<1>3. CASE PassUnlock(c)
  BY <1>1, <1>3, PassingHosts
<1> QED
  BY <1>1, <1>2, <1>3, EnteringHosts, RunningHosts, RecordingHosts,
     AbortingHosts, UnlockingHosts DEF Moves, Advance, Body, CancelStep

(* No two dispatches have one entry.                                       *)
Busy(c) == pc[c] \in {"boundary", "body", "locking", "working"}

(* Two busy calls are not on the same entry.                               *)
LEMMA GuardsApart ==
  ASSUME Seats, Entries, NEW c \in Call, NEW d \in Call \ {c},
         Busy(c), Busy(d), Guard(c) # None
  PROVE  Guard(d) # Guard(c)
<1>1. Seated(c) /\ Seated(d) /\ Forked(c) /\ Forked(d) /\ Apart(c, d)
  BY DEF Seats, Entries
<1> QED
  BY <1>1 DEF Seated, InSession, Forked, Apart, Guard, Busy

(* A step of one call leaves the entry of another alone.                   *)
LEMMA AsideGuard ==
  ASSUME NEW c \in Call, NEW d \in Call \ {c}, Aside(d), Yields(c), Seated(d),
         Busy(d)
  PROVE  Guard(d)' = Guard(d)
BY DEF Aside, Same, Yields, Seated, InSession, Guard, Scoped, Busy

(* ... and so the account of the locks of the others.                      *)
LEMMA AsideOwned ==
  ASSUME Shape, Shape', Seats, Entries, NEW c \in Call, NEW d \in Call \ {c}, Aside(d),
         Yields(c), Touches(c), Owned(d)
  PROVE  Owned(d)'
<1>1. /\ pc'[d] = pc[d] /\ cx'[d] = cx[d] /\ fork'[d] = fork[d]
      /\ left'[d] = left[d] /\ told'[d] = told[d] /\ scope'[d] = scope[d]
      /\ orphan'[d] = orphan[d]
  BY DEF Aside, Same
<1>2. \A t \in Template : Due(d, t)' <=> Due(d, t)
  BY <1>1 DEF Due
<1>3. Busy(d) => Guard(d)' = Guard(d)
  BY AsideGuard DEF Seats
<1>4. Guard(d) \in Template \cup {None}
  BY DEF Shape, Guard
<1>5. None \notin Call /\ Lost \notin Call
  BY SessionAssumption
<1>6. pc[d] \in {"locking", "working"}
        => Guard(d)' # None /\ group'[Guard(d)'] # "gone"
  <2> SUFFICES ASSUME pc[d] \in {"locking", "working"}
               PROVE  Guard(d)' # None /\ group'[Guard(d)'] # "gone"
    OBVIOUS
  <2>1. /\ Busy(d) /\ Guard(d) # None /\ group[Guard(d)] # "gone"
        /\ Guard(d) \in Template
    BY <1>4 DEF Owned, Busy
  <2>2. group'[Guard(d)] # "gone"
    <3> SUFFICES ASSUME group'[Guard(d)] = "gone" PROVE FALSE
      OBVIOUS
    <3>1. Guard(c) = Guard(d) /\ Busy(c)
      BY <2>1 DEF Touches, Busy
    <3> QED
      BY <2>1, <3>1, GuardsApart
  <2> QED
    BY <1>3, <2>1, <2>2
<1>7. fork[d] # None => fork[d] \in Template
  BY DEF Shape
<1>8. orphan[d] /\ fork[d] # None /\ pc[d] # "leaving" => Due(d, fork[d])'
  <2> SUFFICES ASSUME orphan[d], fork[d] # None, pc[d] # "leaving"
               PROVE  Due(d, fork[d])'
    OBVIOUS
  <2>1. Due(d, fork[d])
    BY DEF Owned
  <2> QED
    BY <1>1, <2>1 DEF Due
<1>9. ASSUME NEW t \in Template, lockedBy'[t] = d
      PROVE  /\ t \in loaded' /\ group'[t] # "gone"
             /\ \/ pc'[d] = "working" /\ Guard(d)' = t
                \/ pc'[d] = "end" /\ cx'[d] \notin {"no", "grace"} /\ Due(d, t)'
  <2>1. lockedBy[t] = d
    BY <1>5, <1>9 DEF Touches
  <2>2. t \in loaded /\ group[t] # "gone"
    BY <2>1 DEF Owned
  <2>3. t \in loaded' /\ group'[t] # "gone"
    BY <1>9, <2>2 DEF Touches
  <2> QED
    BY <1>1, <1>2, <1>3, <2>1, <2>3 DEF Owned, Busy
<1> QED
  BY <1>1, <1>6, <1>8, <1>9 DEF Owned

(* A group stays out of its report only with a dispatch that has it.       *)
LEMMA TakenStep ==
  ASSUME Shape, Seats, NEW c \in Call, Touches(c), Yields(c), Taken,
         \A d \in Call \ {c} : Aside(d)
  PROVE  Taken'
<1> SUFFICES ASSUME NEW t \in Template, group'[t] = "out"
             PROVE  \E d \in Call : HasOut(d, t)'
  BY DEF Taken
<1>1. CASE HasOut(c, t)'
  BY <1>1
<1>2. CASE group[t] = "out" /\ ~ HasOut(c, t)
  <2>1. PICK d \in Call : HasOut(d, t)
    BY <1>2 DEF Taken
  <2>2. d \in Call \ {c} /\ Busy(d) /\ Aside(d) /\ Seated(d)
    BY <1>2, <2>1 DEF HasOut, Busy, Seats
  <2>3. Guard(d)' = Guard(d) /\ pc'[d] = pc[d]
    BY <2>2, AsideGuard DEF Aside, Same
  <2> QED
    BY <2>1, <2>3 DEF HasOut
<1> QED
  BY <1>1, <1>2 DEF Touches

Holdings == Taken /\ \A c \in Call : Owned(c)

(* Every step keeps the fourth layer: who holds which hosts.               *)
LEMMA HoldingsStep ==
  ASSUME IInv, Shape, Pinnings, Seats, Entries, Holdings, [Next]_vars
  PROVE  Holdings'
<1>1. ASSUME NEW c \in Call, Moves(c) PROVE Holdings'
  <2>1. Owned(c)' /\ Touches(c)
    BY <1>1, MoveHosts DEF Holdings
  <2>2. Yields(c) /\ Shape'
    BY <1>1, MoveSeats, MoveShape DEF Sits, Pinnings, Seats
  <2>3. \A d \in Call \ {c} : Aside(d)
    BY <1>1, MoveAside
  <2>4. Taken'
    BY <2>1, <2>2, <2>3, TakenStep DEF Holdings
  <2>5. ASSUME NEW d \in Call \ {c} PROVE Owned(d)'
    BY <2>1, <2>2, <2>3, <2>5, AsideOwned DEF Holdings
  <2> QED
    BY <2>1, <2>4, <2>5 DEF Holdings
<1>2. CASE StartJobs
  <2>1. /\ \A c \in Call : Hired(c) \/ Unhired(c)
        /\ UNCHANGED <<registry, hosts, gate, locks, dispatch, cancel>>
    BY <1>2, Minting
  <2> USE <2>1 DEF registry, hosts, gate, locks, dispatch, cancel
  <2>2. ASSUME NEW c \in Call
        PROVE  /\ Owned(c)'
               /\ \A t \in Template : HasOut(c, t) => HasOut(c, t)'
    <3>1. Owned(c) /\ Pinned(c)
      BY DEF Holdings, Pinnings
    <3>2. CASE Hired(c)
      <4>1. /\ pc[c] = "idle" /\ pc'[c] = "start" /\ cx[c] = "no"
            /\ cx'[c] = "no" /\ ~ orphan'[c]
        BY <2>2, <3>1, <3>2 DEF Hired, Pinned
      <4> QED
        BY <3>1, <4>1 DEF Owned, HasOut, Guard, Scoped
    <3>3. CASE Unhired(c)
      BY <2>2, <3>1, <3>3 DEF Unhired, Owned, HasOut, Due, Guard, Scoped
    <3> QED
      BY <2>1, <2>2, <3>2, <3>3
  <2>3. Taken'
    BY <2>2 DEF Holdings, Taken
  <2> QED
    BY <2>2, <2>3 DEF Holdings
<1>3. CASE UNCHANGED vars
  BY <1>3 DEF Holdings, Owned, Taken, HasOut, Due, Guard, Scoped,
     vars, registry, hosts, dispatch, job, locks, cancel
<1> QED
  BY <1>1, <1>2, <1>3 DEF Next, Quiet, Moves

LEMMA InitHoldings == Init => Holdings
<1> SUFFICES ASSUME Init PROVE Holdings
  OBVIOUS
<1>1. Taken
  BY DEF Init, Taken
<1>2. ASSUME NEW c \in Call PROVE Owned(c)
  BY <1>2, SessionAssumption DEF Init, Owned
<1> QED
  BY <1>1, <1>2 DEF Holdings

Locks == Shape /\ Pinnings /\ Seats /\ Entries /\ Holdings

(* All layers together are an invariant.                                   *)
LEMMA LocksHold == Spec => [](IInv /\ Locks)
<1>1. Init => IInv /\ Locks
  BY InitIInv, InitShape, InitSeats, InitEntries, InitHoldings DEF Locks
<1>2. IInv /\ Locks /\ [Next]_vars => IInv' /\ Locks'
  BY Step, ShapeStep, SeatsStep, EntriesStep, HoldingsStep DEF Locks
<1> QED
  BY <1>1, <1>2, PTL DEF Spec

(* Once a call is over and its cancel answered, the locks it took on hosts *)
(* are released or reported (job_cancel and unlock_after_abort), if its    *)
(* job was scoped to them and their group is still in its report.          *)
THEOREM NoLockStranded == Spec => []NoStrandedLock
<1>1. Locks => NoStrandedLock
  <2> SUFFICES ASSUME Locks, NEW t \in Template, NEW c \in Call,
                      lockedBy[t] = c, pc[c] = "end", cx[c] \in Settled
               PROVE  t \in told[c] \/ (scope[c] # {} /\ t \notin scope[c])
    BY DEF NoStrandedLock
  <2>1. cx[c] = "replied" /\ Due(c, t)
    BY DEF Locks, Holdings, Owned, Settled
  <2>2. left[c] = {}
    BY <2>1 DEF Locks, Entries, Unlocks
  <2> QED
    BY <2>1, <2>2 DEF Due
<1> QED
  BY LocksHold, <1>1, PTL

-----------------------------------------------------------------------------
(* Why a dispatch passes over a template.                                  *)

Still(c) == \/ todo'[c] = todo[c]
            \/ pc[c] # "boundary" \/ pc'[c] \notin {"boundary", "body"}

(* The steps that take no template off the list of a dispatch.             *)
LEMMA EnteringStill ==
  ASSUME Types, Shape, NEW c \in Call,
         Resolve(c) \/ EnterShared(c) \/ LockRrid(c) \/ EnterExclusive(c) \/
         Ask(c)
  PROVE  Still(c)
<1> USE DEF Still, Types, Shape, Scoped, InTask, Mutator, registry, hosts,
    gate, locks, dispatch, request, job, cancel
<1>1. CASE Resolve(c)
  BY <1>1 DEF Resolve, Resolved, Goto, Gate!Queue, Gate!Away
<1>2. CASE EnterShared(c)
  BY <1>2 DEF EnterShared, Goto, Gate!Read, Gate!Away
<1>3. CASE LockRrid(c)
  BY <1>3 DEF LockRrid, Begin, Resolved, Goto
<1>4. CASE EnterExclusive(c)
  BY <1>4 DEF EnterExclusive, Begin, Resolved, Goto, Gate!Write
<1>5. CASE Ask(c)
  BY <1>5 DEF Ask, Goto
<1> QED
  BY <1>1, <1>2, <1>3, <1>4, <1>5

LEMMA RunningStill ==
  ASSUME Types, Shape, NEW c \in Call,
         BodyFails(c) \/ Select(c) \/ LockHosts(c) \/ LockRefused(c) \/
         Work(c) \/ Finish(c) \/ Leave(c)
  PROVE  Still(c)
<1> USE DEF Still, Types, Shape, Scoped, InTask, Mutator, registry, hosts,
    gate, locks, dispatch, request, job, cancel
<1>1. CASE BodyFails(c)
  BY <1>1 DEF BodyFails, GroupGone, Goto
<1>2. CASE Select(c)
  BY <1>2 DEF Select, Goto
<1>3. CASE LockHosts(c)
  BY <1>3 DEF LockHosts, Goto
<1>4. CASE LockRefused(c)
  BY <1>4 DEF LockRefused, Goto
<1>5. CASE Work(c)
  BY <1>5 DEF Work, Goto
<1>6. CASE Finish(c)
  BY <1>6 DEF Finish, Over, AtBoundary, DropGate, Forget, Goto, EntryFree
<1>7. CASE Leave(c)
  BY <1>7 DEF Leave, DropGate, DropRrid, Forget, Goto
<1> QED
  BY <1>1, <1>2, <1>3, <1>4, <1>5, <1>6, <1>7

LEMMA MutatingStill ==
  ASSUME Types, Shape, NEW c \in Call,
         Load(c) \/ Unload(c)
  PROVE  Still(c)
<1> USE DEF Still, Types, Shape, Scoped, InTask, Mutator, registry, hosts,
    gate, locks, dispatch, request, job, cancel
<1>1. CASE Load(c)
  BY <1>1 DEF Load, TornDown, Released, Goto, EntryFree
<1>2. CASE Unload(c)
  BY <1>2 DEF Unload, TornDown, Released, Goto, EntryFree
<1> QED
  BY <1>1, <1>2

LEMMA RecordingStill ==
  ASSUME Types, Shape, NEW c \in Call,
         Record(c) \/ Evict(c) \/ Cancel(c) \/ Joined(c) \/ Reply(c)
  PROVE  Still(c)
<1> USE DEF Still, Types, Shape, Scoped, InTask, Mutator, registry, hosts,
    gate, locks, dispatch, request, job, cancel
<1>1. CASE Record(c)
  BY <1>1 DEF Record, Goto
<1>2. CASE Evict(c)
  BY <1>2 DEF Evict, EvictCompleted, Goto
<1>3. CASE Cancel(c)
  BY <1>3 DEF Cancel
<1>4. CASE Joined(c)
  BY <1>4 DEF Joined
<1>5. CASE Reply(c)
  BY <1>5 DEF Reply, EvictCompleted
<1> QED
  BY <1>1, <1>2, <1>3, <1>4, <1>5

LEMMA AbortingStill ==
  ASSUME Types, Shape, NEW c \in Call,
         Abort(c) \/ DropTask(c)
  PROVE  Still(c)
<1> USE DEF Still, Types, Shape, Scoped, InTask, Mutator, registry, hosts,
    gate, locks, dispatch, request, job, cancel
<1>1. CASE Abort(c)
  BY <1>1 DEF Abort, DropGate, DropRrid, DropGroup, GroupGone, Forget, Goto
<1>2. CASE DropTask(c)
  BY <1>2 DEF DropTask, DropGroup, GroupGone, Forget, Goto
<1> QED
  BY <1>1, <1>2

LEMMA UnlockingStill ==
  ASSUME Types, Shape, NEW c \in Call,
         Preamble(c) \/ Stall(c) \/ PassGate(c) \/ PassRrid(c) \/
         PassEntry(c) \/ PassUnlock(c) \/ PassExpires(c)
  PROVE  Still(c)
<1> USE DEF Still, Types, Shape, Scoped, InTask, Mutator, registry, hosts,
    gate, locks, dispatch, request, job, cancel
<1>1. CASE Preamble(c)
  BY <1>1 DEF Preamble, Pass
<1>2. CASE Stall(c)
  BY <1>2 DEF Stall
<1>3. CASE PassGate(c)
  BY <1>3 DEF PassGate, Gate!Read, Gate!Away
<1>4. CASE PassRrid(c)
  BY <1>4 DEF PassRrid
<1>5. CASE PassEntry(c)
  BY <1>5 DEF PassEntry, EntryFree
<1>6. CASE PassUnlock(c)
  BY <1>6 DEF PassUnlock, Released, DropGate, DropRrid, Pass
<1>7. CASE PassExpires(c)
  BY <1>7 DEF PassExpires, DropGate, DropRrid, Pass
<1> QED
  BY <1>1, <1>2, <1>3, <1>4, <1>5, <1>6, <1>7

(* Only Skip and Activate take a template off the list unused.             *)
LEMMA OnlyPasses ==
  ASSUME IInv, Shape, NEW c \in Call, NEW t \in todo[c] \ todo'[c],
         pc[c] = "boundary", pc'[c] \in {"boundary", "body"}, [Next]_vars
  PROVE  Skip(c) \/ Activate(c)
<1>1. ASSUME NEW d \in Call, Moves(d) PROVE Skip(c) \/ Activate(c)
  <2>1. CASE d # c
    BY <1>1, <2>1, MoveAside DEF Aside
  <2>2. CASE d = c /\ ~ (Skip(c) \/ Activate(c))
    <3>1. Still(c)
      BY <1>1, <2>2, EnteringStill, RunningStill, MutatingStill,
         RecordingStill, AbortingStill, UnlockingStill
         DEF Moves, Advance, Body, CancelStep, IInv
    <3> QED
      BY <3>1 DEF Still
  <2> QED
    BY <2>1, <2>2
<1>2. ~ StartJobs /\ ~ UNCHANGED vars
  BY DEF StartJobs, vars, dispatch
<1> QED
  BY <1>1, <1>2 DEF Next, Quiet, Moves

(* What is not free for a dispatch that nobody has cancelled.              *)
LEMMA TakenForReason ==
  ASSUME IInv, Locks, \A d \in Call : Confined(d),
         NEW c \in Call, NEW t \in todo[c],
         pc[c] = "boundary", cx[c] = "no", ~ EntryFree(c, t)
  PROVE  \E d \in Call \ {c} : orphan[d] \/ pc[d] = "leaving" \/ cx[d] = "preamble"
<1>1. \A d \in Call : /\ Places(d) /\ Holds(d) /\ Pinned(d) /\ Seated(d)
                      /\ Forked(d) /\ Unlocks(d)
  BY DEF IInv, Locks, Pinnings, Seats, Entries
<1>2. GateExcludes /\ LeftByAbort /\ Types
  BY DEF IInv, Locks, Seats, Pointers
<1>3. t \in plan[c] /\ ~ orphan[c] /\ t \in Template
  BY <1>1 DEF Pinned, Locks, Shape
<1>4. InSession(c) => c \in writing /\ reading = {}
  BY <1>1, <1>2 DEF Seated, GateExcludes
<1>5. ~ InSession(c) => /\ Live(c) /\ c \in reading /\ writing = {}
                        /\ key[c] = t /\ rridLock[t] = c
  <2> SUFFICES ASSUME ~ InSession(c)
               PROVE  /\ Live(c) /\ c \in reading /\ writing = {}
                      /\ key[c] = t /\ rridLock[t] = c
    OBVIOUS
  <2>1. Scoped(c) /\ Live(c)
    BY <1>3 DEF InSession, Live, InTask
  <2>2. c \in reading /\ writing = {}
    BY <1>1, <1>2, <2>1 DEF Holds, GateExcludes
  <2>3. key[c] = t
    BY <1>3, <2>1 DEF Confined
  <2> QED
    BY <1>1, <2>1, <2>2, <2>3 DEF Forked
<1>6. CASE \E d \in Call : cx[d] = "unlock" /\ at[d] = t
  <2>1. PICK d \in Call : cx[d] = "unlock" /\ at[d] = t
    BY <1>6
  <2>2. d # c /\ d \in reading /\ rridLock[t] = d
    BY <1>1, <2>1 DEF Unlocks
  <2> QED
    BY <1>4, <1>5, <2>2
<1>7. CASE \E d \in Call \ {c} : fork[d] = t
  <2>1. PICK d \in Call \ {c} : fork[d] = t
    BY <1>7
  <2>2. fork[d] # None
    BY <1>3, <2>1, SessionAssumption
  <2>3. CASE orphan[d] \/ pc[d] = "leaving"
    BY <2>3
  <2>4. CASE ~ orphan[d] /\ pc[d] # "leaving"
    <3>1. Live(d) /\ Scoped(d) /\ t \in plan[d]
      BY <1>1, <2>1, <2>2, <2>4 DEF Forked, Live
    <3>2. key[d] = t /\ d \in reading /\ rridLock[t] = d
      BY <1>1, <3>1 DEF Confined, Holds, Forked
    <3> QED
      BY <1>4, <1>5, <3>2
  <2> QED
    BY <2>3, <2>4
<1>8. CASE Scoped(c) /\ canon = t
  <2>1. ~ InSession(c) /\ canon # None
    BY <1>3, <1>8, SessionAssumption DEF InSession
  <2>2. mutex \notin Call
    BY <1>1, <1>5, <2>1 DEF Seated
  <2>3. PICK d \in Call : cx[d] = "preamble"
    BY <1>2, <2>1, <2>2 DEF LeftByAbort, Locks, Shape
  <2> QED
    BY <2>3
<1> QED
  BY <1>6, <1>7, <1>8 DEF EntryFree

(* They do so only with an entry that somebody else has.                   *)
LEMMA PassesAreBusy ==
  ASSUME IInv, Shape, NEW c \in Call, NEW t \in todo[c] \ todo'[c],
         Skip(c) \/ Activate(c), group[t] = "home", Guard(c)' # t
  PROVE  cx[c] = "no" /\ ~ EntryFree(c, t)
<1>1. cx[c] = "no"
  BY DEF Skip, Activate, CancelRequested
<1>2. CASE Skip(c)
  <2>1. PICK u \in todo[c] : Hostless(c, u) /\ todo' = [todo EXCEPT ![c] = @ \ {u}]
    BY <1>2 DEF Skip
  <2>2. t = u
    BY <2>1 DEF Shape
  <2> QED
    BY <1>1, <2>1, <2>2 DEF Hostless
<1>3. CASE Activate(c)
  <2>1. PICK u \in todo[c] :
          LET guard == IF EntryFree(c, u) THEN u ELSE None
          IN /\ todo' = [todo EXCEPT ![c] = @ \ {u}]
             /\ IF Scoped(c)
                THEN fork' = [fork EXCEPT ![c] = guard] /\ UNCHANGED <<canon, active>>
                ELSE canon' = guard /\ active' = u /\ UNCHANGED fork
    BY <1>3 DEF Activate
  <2>2. t = u
    BY <2>1 DEF Shape
  <2>3. Scoped(c)' <=> Scoped(c)
    BY <1>3 DEF Activate, Scoped
  <2>4. EntryFree(c, t) => Guard(c)' = t
    BY <2>1, <2>2, <2>3 DEF Guard, Shape
  <2> QED
    BY <1>1, <2>4
<1> QED
  BY <1>2, <1>3

(* A dispatch passes over a template that has its hosts only for an        *)
(* aborted task, a fork that is restoring its pointer, a cancel whose      *)
(* preamble is due, or a fork that has outgrown its lock: activate's       *)
(* try_lock fails against nothing else (fan_out, activate, job_cancel).    *)
THEOREM PassedOverOnlyForReason == Spec => PassedOverForReason
<1>1. IInv /\ Locks /\ [Next]_vars
      => [\A c \in Call : \A t \in todo[c] \ todo'[c] :
            /\ pc[c] = "boundary" /\ pc'[c] \in {"boundary", "body"}
            /\ group[t] = "home" /\ Guard(c)' # t
            => \E d \in Call :
                 \/ ~ Confined(d)
                 \/ d # c /\ (orphan[d] \/ pc[d] = "leaving" \/ cx[d] = "preamble")]_vars
  <2> SUFFICES ASSUME IInv, Locks, [Next]_vars, NEW c \in Call,
                      NEW t \in todo[c] \ todo'[c], pc[c] = "boundary",
                      pc'[c] \in {"boundary", "body"}, group[t] = "home",
                      Guard(c)' # t, \A d \in Call : Confined(d)
               PROVE  \E d \in Call : d # c /\ (orphan[d] \/ pc[d] = "leaving"
                                                  \/ cx[d] = "preamble")
    OBVIOUS
  <2>1. Shape
    BY DEF Locks
  <2>2. cx[c] = "no" /\ ~ EntryFree(c, t)
    BY <2>1, OnlyPasses, PassesAreBusy
  <2> QED
    BY <2>2, TakenForReason
<1> QED
  BY LocksHold, <1>1, PTL DEF Spec, PassedOverForReason

-----------------------------------------------------------------------------
(* The history of finished jobs.                                           *)

Evicting == {c \in Call : pc[c] = "evict" \/ cx[c] \notin Settled}

(* A step of c that does not evict keeps who owes an eviction; one that    *)
(* adds a record makes c owe one.                                          *)
Accounts(c) ==
  \/ /\ UNCHANGED history
     /\ c \in Evicting => c \in Evicting'
  \/ /\ history' = Append(history, c)
     /\ c \notin Evicting /\ c \in Evicting'
  \/ history' \in Seq(Call) /\ Len(history') <= MaxCompleted

(* evict_completed returns a list that is within its bound.                *)
LEMMA EvictingCompletes ==
  ASSUME history \in Seq(Call), EvictCompleted
  PROVE  history' \in Seq(Call) /\ Len(history') <= MaxCompleted
<1> DEFINE gone == Len(history) - MaxCompleted
<1>1. Len(history) \in Nat /\ MaxCompleted \in Nat \ {0}
  BY SessionAssumption, LenProperties
<1>2. CASE gone <= 0
  BY <1>1, <1>2 DEF EvictCompleted
<1>3. CASE ~ gone <= 0
  <2>1. history' = SubSeq(history, gone + 1, Len(history))
    BY <1>3 DEF EvictCompleted
  <2>2. gone + 1 \in 1 .. Len(history) + 1 /\ Len(history) \in gone .. Len(history)
    BY <1>1, <1>3
  <2>3. /\ SubSeq(history, gone + 1, Len(history)) \in Seq(Call)
        /\ Len(SubSeq(history, gone + 1, Len(history))) =
             IF gone + 1 <= Len(history) THEN Len(history) - (gone + 1) + 1 ELSE 0
    BY <2>2, SubSeqProperties
  <2> QED
    BY <1>1, <1>3, <2>1, <2>3
<1> QED
  BY <1>2, <1>3

(* The steps of each group account for what they add to the history.       *)
LEMMA EnteringAccounts ==
  ASSUME Types, Shape, NEW c \in Call, Pinned(c), history \in Seq(Call),
         Resolve(c) \/ EnterShared(c) \/ LockRrid(c) \/ EnterExclusive(c) \/
         Ask(c)
  PROVE  Accounts(c)
<1> USE DEF Accounts, Evicting, Settled, Pinned, Types, Shape, Mutator,
    Scoped, InTask, registry, hosts, gate, locks, dispatch, request, job,
    cancel
<1>1. CASE Resolve(c)
  BY <1>1 DEF Resolve, Resolved, Goto, Gate!Queue, Gate!Away
<1>2. CASE EnterShared(c)
  BY <1>2 DEF EnterShared, Goto, Gate!Read, Gate!Away
<1>3. CASE LockRrid(c)
  BY <1>3 DEF LockRrid, Begin, Resolved, Goto
<1>4. CASE EnterExclusive(c)
  BY <1>4 DEF EnterExclusive, Begin, Resolved, Goto, Gate!Write
<1>5. CASE Ask(c)
  BY <1>5 DEF Ask, Goto
<1> QED
  BY <1>1, <1>2, <1>3, <1>4, <1>5

LEMMA RunningAccounts ==
  ASSUME Types, Shape, NEW c \in Call, Pinned(c), history \in Seq(Call),
         Skip(c) \/ Activate(c) \/ BodyFails(c) \/ Select(c) \/
         LockHosts(c) \/ LockRefused(c) \/ Work(c) \/ Finish(c) \/ Leave(c)
  PROVE  Accounts(c)
<1> USE DEF Accounts, Evicting, Settled, Pinned, Types, Shape, Mutator,
    Scoped, InTask, registry, hosts, gate, locks, dispatch, request, job,
    cancel
<1>1. CASE Skip(c)
  BY <1>1 DEF Skip, AtBoundary
<1>2. CASE Activate(c)
  BY <1>2 DEF Activate, AtBoundary, Goto, EntryFree
<1>3. CASE BodyFails(c)
  BY <1>3 DEF BodyFails, GroupGone, Goto
<1>4. CASE Select(c)
  BY <1>4 DEF Select, Goto
<1>5. CASE LockHosts(c)
  BY <1>5 DEF LockHosts, Goto
<1>6. CASE LockRefused(c)
  BY <1>6 DEF LockRefused, Goto
<1>7. CASE Work(c)
  BY <1>7 DEF Work, Goto
<1>8. CASE Finish(c)
  BY <1>8 DEF Finish, Over, AtBoundary, DropGate, Forget, Goto, EntryFree
<1>9. CASE Leave(c)
  BY <1>9 DEF Leave, DropGate, DropRrid, Forget, Goto
<1> QED
  BY <1>1, <1>2, <1>3, <1>4, <1>5, <1>6, <1>7, <1>8, <1>9

LEMMA MutatingAccounts ==
  ASSUME Types, Shape, NEW c \in Call, Pinned(c), history \in Seq(Call),
         Load(c) \/ Unload(c)
  PROVE  Accounts(c)
<1> USE DEF Accounts, Evicting, Settled, Pinned, Types, Shape, Mutator,
    Scoped, InTask, registry, hosts, gate, locks, dispatch, request, job,
    cancel
<1>1. CASE Load(c)
  BY <1>1 DEF Load, TornDown, Released, Goto, EntryFree
<1>2. CASE Unload(c)
  BY <1>2 DEF Unload, TornDown, Released, Goto, EntryFree
<1> QED
  BY <1>1, <1>2

LEMMA RecordingAccounts ==
  ASSUME Types, Shape, NEW c \in Call, Pinned(c), history \in Seq(Call),
         Record(c) \/ Evict(c) \/ Cancel(c) \/ Joined(c) \/ Reply(c)
  PROVE  Accounts(c)
<1> USE DEF Accounts, Evicting, Settled, Pinned, Types, Shape, Mutator,
    Scoped, InTask, registry, hosts, gate, locks, dispatch, request, job,
    cancel
<1>1. CASE Record(c)
  BY <1>1 DEF Record, Goto
<1>2. CASE Evict(c)
  BY <1>2, EvictingCompletes DEF Evict
<1>3. CASE Cancel(c)
  BY <1>3 DEF Cancel
<1>4. CASE Joined(c)
  BY <1>4 DEF Joined
<1>5. CASE Reply(c)
  BY <1>5, EvictingCompletes DEF Reply
<1> QED
  BY <1>1, <1>2, <1>3, <1>4, <1>5

LEMMA AbortingAccounts ==
  ASSUME Types, Shape, NEW c \in Call, Pinned(c), history \in Seq(Call),
         Abort(c) \/ DropTask(c)
  PROVE  Accounts(c)
<1> USE DEF Accounts, Evicting, Settled, Pinned, Types, Shape, Mutator,
    Scoped, InTask, registry, hosts, gate, locks, dispatch, request, job,
    cancel
<1>1. CASE Abort(c)
  BY <1>1 DEF Abort, DropGate, DropRrid, DropGroup, GroupGone, Forget, Goto
<1>2. CASE DropTask(c)
  BY <1>2 DEF DropTask, DropGroup, GroupGone, Forget, Goto
<1> QED
  BY <1>1, <1>2

LEMMA UnlockingAccounts ==
  ASSUME Types, Shape, NEW c \in Call, Pinned(c), history \in Seq(Call),
         Preamble(c) \/ Stall(c) \/ PassGate(c) \/ PassRrid(c) \/
         PassEntry(c) \/ PassUnlock(c) \/ PassExpires(c)
  PROVE  Accounts(c)
<1> USE DEF Accounts, Evicting, Settled, Pinned, Types, Shape, Mutator,
    Scoped, InTask, registry, hosts, gate, locks, dispatch, request, job,
    cancel
<1>1. CASE Preamble(c)
  BY <1>1 DEF Preamble, Pass
<1>2. CASE Stall(c)
  BY <1>2 DEF Stall
<1>3. CASE PassGate(c)
  BY <1>3 DEF PassGate, Gate!Read, Gate!Away
<1>4. CASE PassRrid(c)
  BY <1>4 DEF PassRrid
<1>5. CASE PassEntry(c)
  BY <1>5 DEF PassEntry, EntryFree
<1>6. CASE PassUnlock(c)
  BY <1>6 DEF PassUnlock, Released, DropGate, DropRrid, Pass
<1>7. CASE PassExpires(c)
  BY <1>7 DEF PassExpires, DropGate, DropRrid, Pass
<1> QED
  BY <1>1, <1>2, <1>3, <1>4, <1>5, <1>6, <1>7

(* Who has yet to evict can be counted.                                    *)
LEMMA EvictingFinite ==
  /\ IsFiniteSet(Evicting) /\ Cardinality(Evicting) \in Nat
  /\ IsFiniteSet(Evicting') /\ Cardinality(Evicting') \in Nat
BY SessionAssumption, FS_Subset, FS_CardinalityType DEF Evicting

(* What is above the bound is matched by an eviction to come.              *)
LEMMA HistoryStep ==
  ASSUME IInv, Shape, Pinnings, history \in Seq(Call), HistoryBounded,
         [Next]_vars
  PROVE  history' \in Seq(Call) /\ HistoryBounded'
<1> USE DEF HistoryBounded
<1>0. Len(history) \in Nat /\ MaxCompleted \in Nat
  BY SessionAssumption, LenProperties
<1>1. CASE UNCHANGED history /\ Evicting \subseteq Evicting'
  <2>1. Cardinality(Evicting) <= Cardinality(Evicting')
    BY <1>1, EvictingFinite, FS_Subset
  <2> QED
    BY <1>0, <1>1, <2>1, EvictingFinite DEF Evicting
<1>2. ASSUME NEW c \in Call, Moves(c) PROVE history' \in Seq(Call) /\ HistoryBounded'
  <2>1. Accounts(c)
    <3>1. Types /\ Pinned(c)
      BY DEF IInv, Pinnings
    <3> QED
      BY <1>2, <3>1, EnteringAccounts, RunningAccounts, MutatingAccounts,
         RecordingAccounts, AbortingAccounts, UnlockingAccounts
         DEF Moves, Advance, Body, CancelStep
  <2>2. \A d \in Call \ {c} : d \in Evicting <=> d \in Evicting'
    BY <1>2, MoveAside DEF Aside, Same, Evicting
  <2>3. CASE UNCHANGED history /\ (c \in Evicting => c \in Evicting')
    <3>1. Evicting \subseteq Evicting'
      BY <2>2, <2>3 DEF Evicting
    <3> QED
      BY <1>1, <2>3, <3>1
  <2>4. CASE history' = Append(history, c) /\ c \notin Evicting /\ c \in Evicting'
    <3>1. /\ Cardinality(Evicting \cup {c}) = Cardinality(Evicting) + 1
          /\ IsFiniteSet(Evicting \cup {c})
      BY <2>4, EvictingFinite, FS_AddElement
    <3>2. Evicting \cup {c} \subseteq Evicting'
      BY <2>2, <2>4 DEF Evicting
    <3>3. Cardinality(Evicting) + 1 <= Cardinality(Evicting')
      BY <3>1, <3>2, EvictingFinite, FS_Subset
    <3>4. history' \in Seq(Call) /\ Len(history') = Len(history) + 1
      BY <2>4
    <3> QED
      BY <1>0, <3>3, <3>4, EvictingFinite DEF Evicting
  <2>5. CASE history' \in Seq(Call) /\ Len(history') <= MaxCompleted
    <3>1. Len(history') \in Nat
      BY <2>5, LenProperties
    <3> QED
      BY <1>0, <2>5, <3>1, EvictingFinite DEF Evicting
  <2> QED
    BY <2>1, <2>3, <2>4, <2>5 DEF Accounts
<1>3. CASE StartJobs
  <2>1. \A c \in Call : Hired(c) \/ Unhired(c)
    BY <1>3, Minting
  <2>2. UNCHANGED <<cancel, history>>
    BY <1>3, Minting
  <2>3. \A c \in Call : c \in Evicting => c \in Evicting'
    BY <2>1, <2>2 DEF Hired, Unhired, Evicting, Pinnings, Pinned, cancel,
       Settled
  <2> QED
    BY <1>1, <2>2, <2>3 DEF Evicting
<1>4. CASE UNCHANGED vars
  BY <1>1, <1>4 DEF vars, job, cancel, Evicting
<1> QED
  BY <1>2, <1>3, <1>4 DEF Next, Quiet, Moves

Remembered == IInv /\ Locks /\ history \in Seq(Call) /\ HistoryBounded

(* The bound of the history, with the types it needs, is an invariant.     *)
LEMMA RememberedHolds == Spec => []Remembered
<1>1. Init => Remembered
  <2> SUFFICES ASSUME Init PROVE Remembered
    OBVIOUS
  <2>1. IInv /\ Locks
    BY InitIInv, InitShape, InitSeats, InitEntries, InitHoldings DEF Locks
  <2>2. history = <<>>
    BY DEF Init
  <2>3. Len(history) = 0 /\ history \in Seq(Call)
    BY <2>2
  <2> QED
    BY <2>1, <2>3, EvictingFinite, SessionAssumption
       DEF Remembered, HistoryBounded, Evicting
<1>2. Remembered /\ [Next]_vars => Remembered'
  BY Step, ShapeStep, SeatsStep, EntriesStep, HoldingsStep, HistoryStep
     DEF Remembered, Locks
<1> QED
  BY <1>1, <1>2, PTL DEF Spec

(* The history of finished jobs stays within max_completed_jobs, but for   *)
(* the evictions that are under way: each end of a job, by its worker or   *)
(* by a cancel, is followed by one (evict_completed).                      *)
THEOREM HistoryStaysBounded == Spec => []HistoryBounded
<1>1. Remembered => HistoryBounded
  BY DEF Remembered
<1> QED
  BY RememberedHolds, <1>1, PTL

(* The variables have their types: the active pointer and the guard of the *)
(* canonical session name loaded templates (Registry::set_active, remove). *)
THEOREM TypesCorrect == Spec => []TypeOK
<1>1. Remembered => TypeOK
  <2> SUFFICES ASSUME Remembered PROVE TypeOK
    OBVIOUS
  <2>1. Types /\ Shape /\ Pointers /\ history \in Seq(Call)
    BY DEF Remembered, Locks, IInv, Seats
  <2> QED
    BY <2>1 DEF TypeOK, Types, Shape, Pointers, Place, Stage, Passing,
       Status, Command, Argument
<1> QED
  BY RememberedHolds, <1>1, PTL

=============================================================================
