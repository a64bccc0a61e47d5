----------------------------- MODULE McpSession -----------------------------
(***************************************************************************)
(* One session of mtui-mcp: tool calls and background jobs that dispatch   *)
(* commands on the loaded templates (crates/mtui-mcp/src/session.rs, with  *)
(* activation and fan-out of crates/mtui-core).                            *)
(*                                                                         *)
(* A Call is one run of run_command, used once: a foreground call, or the  *)
(* worker of a job.  It resolves its templates, waits for the registry     *)
(* gate (and a per-RRID lock), and dispatches: on a fork of the session in *)
(* a task of its own (Scoped), or on the canonical session behind the      *)
(* session mutex.  A dispatch activates a template by try-locking its      *)
(* report entry and falls back to the null report.  job_cancel of a call   *)
(* is modelled with the call: a grace, an abort, and an unlock pass.       *)
(*                                                                         *)
(* Left out: get/put and the testreport tools, which take the same locks;  *)
(* regenerate as a job; the close of an evicted session.                   *)
(***************************************************************************)
EXTENDS Integers, FiniteSets, Sequences

CONSTANTS
  Call, Template,
  Requests,     \* what clients ask for: [cmd, arg, background]
  MaxActive,    \* [mcp] max_active_jobs, not 0
  MaxCompleted, \* [mcp] max_completed_jobs, not 0
  None

VARIABLES
  loaded, active,             \* the canonical TemplateRegistry
  group,                      \* the HostsGroup of a template: in its report
                              \* ("home"), with a dispatch ("out"), or dropped
  lockedBy,                   \* whose operation lock is on its hosts
  reading, writing, queued,   \* the registry gate
  mutex, rridLock, canon,     \* session mutex, per-RRID locks, and the entry
                              \* the canonical session's active_guard holds
  cmd, arg, pc,               \* per call: its request and place
  key,                        \* the RRID lock of a Scoped dispatch
  plan, todo, ptr, fork,      \* resolved templates, those still to run, the
                              \* pointer to restore, the fork's active_guard
  orphan,                     \* the worker is gone, its dispatch not yet
  state, scope,               \* the Job record
  history,                    \* its finished order, for the eviction
  cx, at, left, told          \* job_cancel: place, template and those still
                              \* to unlock, those reported as not released

registry == <<loaded, active>>
hosts == <<group, lockedBy>>
gate == <<reading, writing, queued>>
locks == <<mutex, rridLock, canon>>
dispatch == <<key, plan, todo, ptr, fork, orphan>>
request == <<cmd, arg>>
job == <<state, scope, history>>
cancel == <<cx, at, left, told>>
vars == <<registry, hosts, gate, locks, dispatch, request, job, cancel, pc>>

Gate == INSTANCE ReadersWriters WITH Task <- Call

Unscoped == "unscoped"
AllTemplates == "all"
Lost == "lost"        \* a lock on the hosts that no HostsGroup knows of

ASSUME SessionAssumption ==
  /\ IsFiniteSet(Call) /\ IsFiniteSet(Template)
  /\ None \notin Call \cup Template \cup {Lost} /\ Lost \notin Call
  /\ Template \cap {Unscoped, AllTemplates} = {}
  /\ MaxActive \in Nat \ {0} /\ MaxCompleted \in Nat \ {0}
  /\ Requests \subseteq [cmd: {"run", "update", "load", "unload"},
                         arg: Template \cup {Unscoped, AllTemplates},
                         background: BOOLEAN]
  /\ \A r \in Requests : r.cmd \in {"load", "unload"}
                           => r.arg \in Template /\ ~ r.background

(* A session to which some templates have been loaded.                     *)
Init ==
  /\ loaded \in SUBSET Template
  /\ active \in (IF loaded = {} THEN {None} ELSE loaded)
  /\ group = [t \in Template |-> "home"]
  /\ lockedBy = [t \in Template |-> None]
  /\ Gate!Init
  /\ mutex = None /\ canon = None
  /\ rridLock = [t \in Template |-> None]
  /\ cmd = [c \in Call |-> "run"] /\ arg = [c \in Call |-> Unscoped]
  /\ pc = [c \in Call |-> "idle"]
  /\ key = [c \in Call |-> None]
  /\ plan = [c \in Call |-> {}] /\ todo = [c \in Call |-> {}]
  /\ ptr = [c \in Call |-> None] /\ fork = [c \in Call |-> None]
  /\ orphan = [c \in Call |-> FALSE]
  /\ state = [c \in Call |-> "none"] /\ scope = [c \in Call |-> {}]
  /\ history = <<>>
  /\ cx = [c \in Call |-> "no"] /\ at = [c \in Call |-> None]
  /\ left = [c \in Call |-> {}] /\ told = [c \in Call |-> {}]

CancelRequested(c) == cx[c] # "no"   \* the CancellationToken

Goto(c, label) == pc' = [pc EXCEPT ![c] = label]

Mutator(c) == cmd[c] \in {"load", "unload"}   \* mutates_registry
Scoped(c) == key[c] # None

(* resolve_templates in a session that is not a REPL.                      *)
Resolved(command, argument) ==
  IF command \in {"load", "unload"} THEN {active} \ {None}   \* Scope::Single
  ELSE IF argument \in Template THEN {argument} \cap loaded
  ELSE loaded

-----------------------------------------------------------------------------
(* Requests and the job table                                              *)

(* A tool call in the foreground.                                          *)
Ask(c) ==
  /\ pc[c] = "idle"
  /\ \E r \in Requests :
       /\ ~ r.background
       /\ cmd' = [cmd EXCEPT ![c] = r.cmd]
       /\ arg' = [arg EXCEPT ![c] = r.arg]
  /\ Goto(c, "start")
  /\ UNCHANGED <<registry, hosts, gate, locks, dispatch, job, cancel>>

Running == {c \in Call : state[c] = "running"}
Terminal == {"ended", "cancelled"}

Admitted(n) == Cardinality(Running) + n <= MaxActive

(* Mutant: the job is recorded for one template and dispatched unpinned.   *)
ScopedArgUnpinned(argument, t) == argument

(* scope_argv: prepends -T, unless the argv names its templates.           *)
ScopedArg(argument, t) == IF argument = Unscoped THEN t ELSE argument

(* mint_job and its worker's argv; without a template, the client's own.   *)
Mint(r, worker) ==
  LET For(c) == CHOOSE t \in DOMAIN worker : worker[t] = c
      Minted(c) == \E t \in DOMAIN worker : worker[t] = c
  IN /\ pc' = [c \in Call |-> IF Minted(c) THEN "start" ELSE pc[c]]
     /\ cmd' = [c \in Call |-> IF Minted(c) THEN r.cmd ELSE cmd[c]]
     /\ arg' = [c \in Call |-> IF ~ Minted(c) THEN arg[c]
                               ELSE IF For(c) = None THEN r.arg
                               ELSE ScopedArg(r.arg, For(c))]
     /\ state' = [c \in Call |-> IF Minted(c) THEN "running" ELSE state[c]]
     /\ scope' = [c \in Call |-> IF Minted(c) THEN {For(c)} \ {None} ELSE scope[c]]

(* One job per resolved template, or one with an empty scope.              *)
Targets(r) ==
  LET found == Resolved(r.cmd, r.arg) IN IF found = {} THEN {None} ELSE found

(* start_jobs.  Resolving and minting is one step: a template that goes in *)
(* between looks to the worker like one that goes after it.                *)
StartJobs ==
  /\ mutex = None
  /\ \E r \in Requests :
       /\ r.background
       /\ Admitted(Cardinality(Targets(r)))
       /\ \E worker \in [Targets(r) -> {c \in Call : pc[c] = "idle"}] :
            /\ \A t, u \in Targets(r) : worker[t] = worker[u] => t = u
            /\ Mint(r, worker)
  /\ UNCHANGED <<registry, hosts, gate, locks, dispatch, cancel, history>>

(* evict_completed keeps the newest terminal records.                      *)
EvictCompleted ==
  LET gone == Len(history) - MaxCompleted
  IN IF gone <= 0
     THEN UNCHANGED <<history, state>>
     ELSE /\ history' = SubSeq(history, gone + 1, Len(history))
          /\ state' = [c \in Call |->
               IF \E i \in 1..gone : history[i] = c THEN "evicted" ELSE state[c]]

(* Mutant: the worker does not look at the state of the record.            *)
RecordOver(c) ==
  /\ pc[c] = "record"
  /\ state' = [state EXCEPT ![c] = IF @ = "none" THEN @ ELSE "ended"]
  /\ history' = IF state[c] = "running" THEN Append(history, c) ELSE history
  /\ Goto(c, IF state[c] = "none" THEN "end" ELSE "evict")
  /\ UNCHANGED <<registry, hosts, gate, locks, dispatch, request, scope,
                 cancel>>

(* The worker writes its outcome, done or failed, unless a cancel has      *)
(* claimed the record.                                                     *)
Record(c) ==
  /\ pc[c] = "record"
  /\ IF state[c] = "running"
     THEN /\ state' = [state EXCEPT ![c] = "ended"]
          /\ history' = Append(history, c)
     ELSE UNCHANGED <<state, history>>
  /\ Goto(c, IF state[c] = "none" THEN "end" ELSE "evict")
  /\ UNCHANGED <<registry, hosts, gate, locks, dispatch, request, scope,
                 cancel>>

Evict(c) ==
  /\ pc[c] = "evict"
  /\ EvictCompleted
  /\ Goto(c, "end")
  /\ UNCHANGED <<registry, hosts, gate, locks, dispatch, request, scope,
                 cancel>>

-----------------------------------------------------------------------------
(* command_lock                                                            *)

(* The templates are resolved before any lock is held.                     *)
Resolve(c) ==
  /\ pc[c] = "start" /\ (Mutator(c) \/ mutex = None)
  /\ LET found == Resolved(cmd[c], arg[c])
     IN IF ~ Mutator(c) /\ Cardinality(found) = 1
        THEN /\ \E t \in found : key' = [key EXCEPT ![c] = t]
             /\ Goto(c, "shared")
             /\ UNCHANGED gate
        ELSE /\ Gate!Queue(c)
             /\ Goto(c, "queued")
             /\ UNCHANGED key
  /\ UNCHANGED <<registry, hosts, locks, request, job, cancel, plan, todo, ptr,
                 fork, orphan>>

EnterShared(c) ==
  /\ pc[c] = "shared"
  /\ Gate!Read(c)
  /\ Goto(c, "rrid")
  /\ UNCHANGED <<registry, hosts, locks, dispatch, request, job, cancel>>

DropGate(c) ==
  /\ reading' = reading \ {c}
  /\ writing' = writing \ {c}
  /\ queued' = queued \ {c}

DropRrid(c) == rridLock' = [t \in Template |->
                              IF rridLock[t] = c THEN None ELSE rridLock[t]]

-----------------------------------------------------------------------------
(* Dispatch: Command::run on a fork, or on the canonical session           *)

Begin(c) ==
  LET found == Resolved(cmd[c], arg[c])
  IN /\ plan' = [plan EXCEPT ![c] = found]
     /\ todo' = [todo EXCEPT ![c] = found]
     /\ ptr' = [ptr EXCEPT ![c] = active]

(* Mutant: the shared guard is dropped where it is bound.                  *)
LockRridLeavingGate(c) ==
  /\ pc[c] = "rrid" /\ rridLock[key[c]] = None /\ mutex = None
  /\ rridLock' = [rridLock EXCEPT ![key[c]] = c]
  /\ reading' = reading \ {c}
  /\ Begin(c)
  /\ Goto(c, "boundary")
  /\ UNCHANGED <<registry, hosts, writing, queued, mutex, canon, request, job,
                 cancel, key, fork, orphan>>

(* The RRID lock, then fork_for_call under the session mutex, which nobody *)
(* keeps while c is in the gate, and the spawn of the dispatch.            *)
LockRrid(c) ==
  /\ pc[c] = "rrid" /\ rridLock[key[c]] = None /\ mutex = None
  /\ rridLock' = [rridLock EXCEPT ![key[c]] = c]
  /\ Begin(c)
  /\ Goto(c, "boundary")
  /\ UNCHANGED <<registry, hosts, gate, mutex, canon, request, job, cancel,
                 key, fork, orphan>>

(* The gate, then the session mutex.  A guard left behind goes with the    *)
(* first activation.                                                       *)
EnterExclusive(c) ==
  /\ pc[c] = "queued" /\ mutex = None
  /\ Gate!Write(c)
  /\ mutex' = c /\ canon' = None
  /\ Begin(c)
  /\ Goto(c, IF Mutator(c) THEN "body" ELSE "boundary")
  /\ UNCHANGED <<registry, hosts, rridLock, request, job, cancel, key, fork,
                 orphan>>

(* try_lock_owned would succeed for c, whose own guard is dropped first.   *)
EntryFree(c, t) ==
  /\ \A d \in Call : ~ (cx[d] = "unlock" /\ at[d] = t)
  /\ \A d \in Call \ {c} : fork[d] # t
  /\ Scoped(c) => canon # t

FanOut(c) == Cardinality(plan[c]) > 1

(* is_hostless: a busy entry counts as one without hosts, and is skipped.  *)
Hostless(c, t) == ~ EntryFree(c, t) \/ group[t] # "home"

(* A task that is aborted before it is polled does not run.                *)
AtBoundary(c) == pc[c] = "boundary" /\ (orphan[c] => todo[c] # plan[c])

Skip(c) ==
  /\ AtBoundary(c) /\ ~ CancelRequested(c) /\ FanOut(c)
  /\ \E t \in todo[c] : /\ Hostless(c, t)
                        /\ todo' = [todo EXCEPT ![c] = @ \ {t}]
  /\ UNCHANGED <<registry, hosts, gate, locks, request, job, cancel, key, plan,
                 ptr, fork, orphan, pc>>

(* activate: the guard is None, the null report, if the entry is busy.     *)
Activate(c) ==
  /\ AtBoundary(c) /\ ~ CancelRequested(c) /\ ~ Mutator(c)
  /\ \E t \in todo[c] :
       LET guard == IF EntryFree(c, t) THEN t ELSE None
       IN /\ FanOut(c) => ~ Hostless(c, t)
          /\ todo' = [todo EXCEPT ![c] = @ \ {t}]
          /\ IF Scoped(c)
             THEN /\ fork' = [fork EXCEPT ![c] = guard]
                  /\ UNCHANGED <<canon, active>>
             ELSE /\ canon' = guard /\ active' = t
                  /\ UNCHANGED fork
  /\ Goto(c, "body")
  /\ UNCHANGED <<loaded, hosts, gate, mutex, rridLock, request, job, cancel,
                 key, plan, ptr, orphan>>

Guard(c) == IF Scoped(c) THEN fork[c] ELSE canon

(* A group that is dropped takes with it who holds the locks of its hosts. *)
GroupGone(dropped) ==
  /\ group' = [t \in Template |-> IF t \in dropped THEN "gone" ELSE group[t]]
  /\ lockedBy' = [t \in Template |->
       IF t \in dropped /\ lockedBy[t] # None THEN Lost ELSE lockedBy[t]]

(* The null report, a report without hosts, or a bad argument.  A host     *)
(* that update does not know costs the report its group: select_split      *)
(* consumes it.                                                            *)
BodyFails(c) ==
  /\ pc[c] = "body"
  /\ UNCHANGED hosts \/ (cmd[c] = "update" /\ GroupGone({Guard(c)}))
  /\ Goto(c, "boundary")
  /\ UNCHANGED <<registry, gate, locks, request, job, cancel, key, plan, todo,
                 ptr, fork, orphan>>

(* update splits the group out of the report before its first await.       *)
Select(c) ==
  /\ pc[c] = "body" /\ ~ Mutator(c)
  /\ Guard(c) # None /\ group[Guard(c)] = "home"
  /\ group' = [group EXCEPT ![Guard(c)] =
                 IF cmd[c] = "update" THEN "out" ELSE @]
  /\ Goto(c, "locking")
  /\ UNCHANGED <<registry, lockedBy, gate, locks, dispatch, request, job,
                 cancel>>

LockHosts(c) ==
  /\ pc[c] = "locking"
  /\ lockedBy' = [lockedBy EXCEPT ![Guard(c)] = c]
  /\ Goto(c, "working")
  /\ UNCHANGED <<registry, group, gate, locks, dispatch, request, job, cancel>>

(* The lock is refused, or rolled back; the group goes back.               *)
LockRefused(c) ==
  /\ pc[c] = "locking"
  /\ group' = [group EXCEPT ![Guard(c)] = "home"]
  /\ Goto(c, "boundary")
  /\ UNCHANGED <<registry, lockedBy, gate, locks, request, job, cancel, key,
                 plan, todo, ptr, fork, orphan>>

(* The work ends, is found wanting or observes the cancel; every one of    *)
(* these paths unlocks and puts the group back.                            *)
Work(c) ==
  /\ pc[c] = "working"
  /\ group' = [group EXCEPT ![Guard(c)] = "home"]
  /\ lockedBy' = [lockedBy EXCEPT ![Guard(c)] = None]
  /\ Goto(c, "boundary")
  /\ UNCHANGED <<registry, gate, locks, request, job, cancel, key, plan, todo,
                 ptr, fork, orphan>>

Released(t) == [lockedBy EXCEPT ![t] =
                  IF group[t] = "home" /\ @ # Lost THEN None ELSE @]

(* teardown waits for the entry; closing the group releases its locks.     *)
TornDown(c, t) ==
  /\ EntryFree(c, t)
  /\ lockedBy' = Released(t)

(* load_template: add_or_replace, set_active and refresh_active_guard.     *)
Load(c) ==
  LET t == arg[c]
  IN /\ pc[c] = "body" /\ cmd[c] = "load"
     /\ TornDown(c, t)
     /\ loaded' = loaded \cup {t} /\ active' = t /\ canon' = t
     /\ group' = [group EXCEPT ![t] = "home"]
     /\ Goto(c, "boundary")
     /\ UNCHANGED <<gate, mutex, rridLock, request, job, cancel, key, plan,
                    todo, ptr, fork, orphan>>

(* Mutant: the active pointer stays on the template that is gone.          *)
UnloadUnderPointer(c) ==
  /\ pc[c] = "body" /\ cmd[c] = "unload" /\ arg[c] \in loaded
  /\ TornDown(c, arg[c])
  /\ loaded' = loaded \ {arg[c]}
  /\ Goto(c, "boundary")
  /\ UNCHANGED <<active, group, gate, locks, request, job, cancel, key, plan,
                 todo, ptr, fork, orphan>>

Unload(c) ==
  LET t == arg[c]
      rest == loaded \ {t}
  IN /\ pc[c] = "body" /\ cmd[c] = "unload" /\ t \in loaded
     /\ TornDown(c, t)
     /\ loaded' = rest
     /\ active' \in (IF active # t THEN {active}
                     ELSE IF rest = {} THEN {None} ELSE rest)
     /\ Goto(c, "boundary")
     /\ UNCHANGED <<group, gate, locks, request, job, cancel, key, plan, todo,
                    ptr, fork, orphan>>

Over(c) == AtBoundary(c) /\ (Mutator(c) \/ todo[c] = {} \/ CancelRequested(c))

Forget(c) ==
  /\ key' = [key EXCEPT ![c] = None]
  /\ plan' = [plan EXCEPT ![c] = {}]
  /\ todo' = [todo EXCEPT ![c] = {}]
  /\ ptr' = [ptr EXCEPT ![c] = None]

(* The end of run: stopped at a boundary or through, then restore_active.  *)
Finish(c) ==
  /\ Over(c)
  /\ IF Scoped(c)
     THEN /\ fork' = [fork EXCEPT ![c] =
                        IF todo[c] # plan[c] /\ ptr[c] # None /\ EntryFree(c, ptr[c])
                        THEN ptr[c] ELSE None]
          /\ Goto(c, "leaving")
          /\ UNCHANGED <<registry, locks, gate, key, plan, todo, ptr>>
     ELSE /\ active' = IF ptr[c] \in loaded THEN ptr[c] ELSE active
          /\ canon' = None /\ mutex' = None
          /\ DropGate(c) /\ Forget(c)
          /\ Goto(c, "record")
          /\ UNCHANGED <<loaded, rridLock, fork>>
  /\ UNCHANGED <<hosts, request, job, cancel, orphan>>

(* The fork is dropped with its guard, then the worker drops its holds.    *)
Leave(c) ==
  /\ pc[c] = "leaving"
  /\ fork' = [fork EXCEPT ![c] = None]
  /\ IF orphan[c]
     THEN Goto(c, "end") /\ UNCHANGED <<gate, rridLock>>
     ELSE Goto(c, "record") /\ DropGate(c) /\ DropRrid(c)
  /\ orphan' = [orphan EXCEPT ![c] = FALSE]
  /\ Forget(c)
  /\ UNCHANGED <<registry, hosts, mutex, canon, request, job, cancel>>

-----------------------------------------------------------------------------
(* job_cancel                                                              *)

(* Claims the record, and signals the dispatch.                            *)
Cancel(c) ==
  /\ state[c] = "running"
  /\ state' = [state EXCEPT ![c] = "cancelled"]
  /\ history' = Append(history, c)
  /\ cx' = [cx EXCEPT ![c] = "grace"]
  /\ UNCHANGED <<registry, hosts, gate, locks, dispatch, request, scope, at,
                 left, told, pc>>

(* The worker ends in time.                                                *)
Joined(c) ==
  /\ cx[c] = "grace" /\ pc[c] = "end"
  /\ cx' = [cx EXCEPT ![c] = "evict"]
  /\ UNCHANGED <<registry, hosts, gate, locks, dispatch, request, job, at,
                 left, told, pc>>

InTask(c) == Scoped(c) /\ pc[c] \in {"boundary", "body", "locking", "working",
                                    "leaving"}

DropGroup(c) == GroupGone({t \in {Guard(c)} \ {None} : group[t] = "out"})

(* An aborted worker is dropped where it waits, if it has not ended.  With *)
(* it go its holds; the task of a Scoped dispatch is aborted too, and      *)
(* dropped later.                                                          *)
Abort(c) ==
  /\ cx[c] = "grace"
  /\ cx' = [cx EXCEPT ![c] = "preamble"]
  /\ DropGate(c) /\ DropRrid(c)
  /\ \/ /\ InTask(c)
        /\ orphan' = [orphan EXCEPT ![c] = TRUE]
        /\ UNCHANGED <<hosts, mutex, pc, key, plan, todo, ptr>>
     \/ /\ pc[c] \in {"start", "shared", "rrid", "queued", "end"}
        /\ Goto(c, "end") /\ Forget(c)
        /\ UNCHANGED <<hosts, mutex, orphan>>
     \/ /\ ~ Scoped(c) /\ pc[c] \in {"locking", "working"}
        /\ mutex' = None      \* but canon stays
        /\ DropGroup(c)
        /\ Goto(c, "end") /\ Forget(c)
        /\ UNCHANGED orphan
  /\ UNCHANGED <<registry, canon, request, job, fork, at, left, told>>

DropTask(c) ==
  /\ orphan[c]
  /\ pc[c] \in {"locking", "working"} \/ (pc[c] = "boundary" /\ todo[c] = plan[c])
  /\ DropGroup(c)
  /\ fork' = [fork EXCEPT ![c] = None]
  /\ orphan' = [orphan EXCEPT ![c] = FALSE]
  /\ Goto(c, "end") /\ Forget(c)
  /\ UNCHANGED <<registry, gate, locks, request, job, cancel>>

-----------------------------------------------------------------------------
(* unlock_after_abort                                                      *)

Pass(c, stage) == cx' = [cx EXCEPT ![c] = IF left'[c] = {} THEN "evict" ELSE stage]

(* Mutant: a job without a scope has nothing to unlock.                    *)
PreambleScopeOnly(c) ==
  /\ cx[c] = "preamble" /\ mutex = None
  /\ canon' = None
  /\ left' = [left EXCEPT ![c] = scope[c]]
  /\ Pass(c, "gate")
  /\ UNCHANGED <<registry, hosts, gate, mutex, rridLock, dispatch, request,
                 job, at, told, pc>>

Preamble(c) ==
  /\ cx[c] = "preamble" /\ mutex = None
  /\ canon' = None
  /\ left' = [left EXCEPT ![c] = IF scope[c] = {} THEN loaded ELSE scope[c]]
  /\ Pass(c, "gate")
  /\ UNCHANGED <<registry, hosts, gate, mutex, rridLock, dispatch, request,
                 job, at, told, pc>>

(* Mutant: the deadline is armed after the preamble.                       *)
StallForGood(c) == cx[c] = "preamble" /\ mutex # None /\ UNCHANGED vars

(* The budget runs out on a session that is busy: nothing is released.     *)
Stall(c) ==
  /\ cx[c] = "preamble" /\ mutex # None
  /\ told' = [told EXCEPT ![c] = Template]
  /\ cx' = [cx EXCEPT ![c] = "evict"]
  /\ UNCHANGED <<registry, hosts, gate, locks, dispatch, request, job, at,
                 left, pc>>

PassGate(c) ==
  /\ cx[c] = "gate"
  /\ Gate!Read(c)
  /\ \E t \in left[c] : at' = [at EXCEPT ![c] = t]
  /\ cx' = [cx EXCEPT ![c] = "rrid"]
  /\ UNCHANGED <<registry, hosts, locks, dispatch, request, job, left, told,
                 pc>>

(* Mutant: the RRID guard is dropped where it is bound.                    *)
PassRridUnheld(c) ==
  /\ cx[c] = "rrid" /\ rridLock[at[c]] = None
  /\ cx' = [cx EXCEPT ![c] = "entry"]
  /\ UNCHANGED <<registry, hosts, gate, locks, dispatch, request, job, at,
                 left, told, pc>>

PassRrid(c) ==
  /\ cx[c] = "rrid" /\ rridLock[at[c]] = None
  /\ rridLock' = [rridLock EXCEPT ![at[c]] = c]
  /\ cx' = [cx EXCEPT ![c] = "entry"]
  /\ UNCHANGED <<registry, hosts, gate, mutex, canon, dispatch, request, job,
                 at, left, told, pc>>

PassEntry(c) ==
  /\ cx[c] = "entry" /\ at[c] \in loaded
  /\ EntryFree(c, at[c]) /\ fork[c] # at[c] /\ canon # at[c]
  /\ cx' = [cx EXCEPT ![c] = "unlock"]
  /\ UNCHANGED <<registry, hosts, gate, locks, dispatch, request, job, at,
                 left, told, pc>>

(* unlock_held, or a template that is no longer loaded.                    *)
PassUnlock(c) ==
  /\ cx[c] = "unlock" \/ (cx[c] = "entry" /\ at[c] \notin loaded)
  /\ lockedBy' = IF cx[c] = "unlock" THEN Released(at[c]) ELSE lockedBy
  /\ DropGate(c) /\ DropRrid(c)
  /\ left' = [left EXCEPT ![c] = @ \ {at[c]}]
  /\ at' = [at EXCEPT ![c] = None]
  /\ Pass(c, "gate")
  /\ UNCHANGED <<registry, group, mutex, canon, dispatch, request, job, told,
                 pc>>

(* The deadline passes in the pass of a template: it is reported as        *)
(* unknown.                                                                *)
PassExpires(c) ==
  /\ cx[c] \in {"gate", "rrid", "entry", "unlock"}
  /\ \E t \in left[c] :
       /\ at[c] \in {None, t}
       /\ told' = [told EXCEPT ![c] = @ \cup {t}]
       /\ left' = [left EXCEPT ![c] = @ \ {t}]
  /\ DropGate(c) /\ DropRrid(c)
  /\ at' = [at EXCEPT ![c] = None]
  /\ Pass(c, "gate")
  /\ UNCHANGED <<registry, hosts, mutex, canon, dispatch, request, job, pc>>

(* Mutant: an aborted worker cannot evict, and nobody does it for it.      *)
ReplyKeeping(c) ==
  /\ cx[c] = "evict"
  /\ cx' = [cx EXCEPT ![c] = "replied"]
  /\ UNCHANGED <<registry, hosts, gate, locks, dispatch, request, job, at,
                 left, told, pc>>

Reply(c) ==
  /\ cx[c] = "evict"
  /\ EvictCompleted
  /\ cx' = [cx EXCEPT ![c] = "replied"]
  /\ UNCHANGED <<registry, hosts, gate, locks, dispatch, request, scope, at,
                 left, told, pc>>

-----------------------------------------------------------------------------
Advance(c) ==
  \/ Resolve(c) \/ EnterShared(c) \/ LockRrid(c) \/ EnterExclusive(c) \/ Skip(c)
  \/ Activate(c) \/ Finish(c) \/ Leave(c)
  \/ Select(c) \/ (BodyFails(c) /\ ~ Mutator(c)) \/ Record(c) \/ Evict(c)

(* What waits for hosts.                                                   *)
Body(c) ==
  \/ LockHosts(c) \/ LockRefused(c) \/ Work(c)
  \/ Load(c) \/ Unload(c) \/ (BodyFails(c) /\ Mutator(c))

CancelStep(c) ==
  \/ Joined(c) \/ Abort(c) \/ DropTask(c)
  \/ Preamble(c) \/ Stall(c) \/ PassGate(c) \/ PassRrid(c) \/ PassEntry(c)
  \/ PassUnlock(c) \/ PassExpires(c) \/ Reply(c)

(* All calls have been used, or nobody asks for anything.                  *)
Quiet ==
  /\ \A c \in Call : pc[c] \in {"idle", "end"} /\ cx[c] \in {"no", "replied"}
  /\ UNCHANGED vars

Next ==
  \/ StartJobs
  \/ \E c \in Call : Ask(c) \/ Cancel(c) \/ Advance(c) \/ Body(c) \/ CancelStep(c)
  \/ Quiet

Spec == Init /\ [][Next]_vars

(* What is ready goes on; a body may hang on its hosts.                    *)
FairSpec == Spec /\ \A c \in Call : WF_vars(Advance(c)) /\ WF_vars(CancelStep(c))

-----------------------------------------------------------------------------
TypeOK ==
  /\ loaded \subseteq Template /\ active \in loaded \cup {None}
  /\ group \in [Template -> {"home", "out", "gone"}]
  /\ lockedBy \in [Template -> Call \cup {None, Lost}]
  /\ reading \subseteq Call /\ writing \subseteq Call /\ queued \subseteq Call
  /\ mutex \in Call \cup {None} /\ canon \in loaded \cup {None}
  /\ rridLock \in [Template -> Call \cup {None}]
  /\ cmd \in [Call -> {"run", "update", "load", "unload"}]
  /\ arg \in [Call -> Template \cup {Unscoped, AllTemplates}]
  /\ pc \in [Call -> {"idle", "start", "shared", "rrid", "queued",
                     "boundary", "body", "locking", "working", "leaving", "record",
                     "evict", "end"}]
  /\ key \in [Call -> Template \cup {None}]
  /\ plan \in [Call -> SUBSET Template] /\ todo \in [Call -> SUBSET Template]
  /\ ptr \in [Call -> Template \cup {None}] /\ fork \in [Call -> Template \cup {None}]
  /\ orphan \in [Call -> BOOLEAN]
  /\ state \in [Call -> {"none", "running", "ended", "cancelled", "evicted"}]
  /\ scope \in [Call -> SUBSET Template]
  /\ history \in Seq(Call)
  /\ cx \in [Call -> {"no", "grace", "preamble", "gate", "rrid", "entry",
                     "unlock", "evict", "replied"}]
  /\ at \in [Call -> Template \cup {None}]
  /\ left \in [Call -> SUBSET Template] /\ told \in [Call -> SUBSET Template]

(* max_active_jobs is never exceeded, not even by a fan-out.               *)
AdmissionBound == Cardinality(Running) <= MaxActive

Settled == {"no", "replied"}

(* Whatever mix of ends and cancels, each end is followed by an eviction:  *)
(* the records beyond the cap are those whose own eviction is still due.   *)
HistoryBounded ==
  Len(history) <= MaxCompleted
    + Cardinality({c \in Call : pc[c] = "evict" \/ cx[c] \notin Settled})

(* A job ends once: a late worker does not overwrite a cancel, and a       *)
(* cancel does not claim a job that has ended.                             *)
JobEndsOnce ==
  [][\A c \in Call : state[c] \in Terminal => state'[c] \in {state[c], "evicted"}]_vars

(* The registry does not change under a dispatch on a fork: the templates  *)
(* of its snapshot stay loaded until its worker is gone.                   *)
SnapshotCurrent == \A c \in Call : InTask(c) /\ ~ orphan[c] => plan[c] \subseteq loaded

(* A job acts on the template its record names, though templates come and  *)
(* go between its start and its dispatch.                                  *)
JobStaysInScope ==
  \A c \in Call : scope[c] # {} /\ arg[c] # AllTemplates => plan[c] \subseteq scope[c]

(* A fork runs on the template whose RRID lock it holds, and on no other:  *)
(* it resolves again, and finds more if one was loaded since its lock was  *)
(* chosen.                                                                 *)
Confined(c) == Scoped(c) => plan[c] \subseteq {key[c]}

(* A dispatch passes over a template that has its hosts, by a skip or on   *)
(* the null report, only if an aborted task, or a fork that is restoring   *)
(* its pointer, has the entry, or a cancel has not come to its preamble,   *)
(* or a fork has outgrown its lock: while locks are honoured, never        *)
(* because of a command that works on it, an unlock pass, or a guard left  *)
(* on the canonical session for good.                                      *)
PassedOverForReason ==
  [][\A c \in Call : \A t \in todo[c] \ todo'[c] :
       /\ pc[c] = "boundary" /\ pc'[c] \in {"boundary", "body"}
       /\ group[t] = "home" /\ Guard(c)' # t
       => \E d \in Call :
            \/ ~ Confined(d)
            \/ d # c /\ (orphan[d] \/ pc[d] = "leaving" \/ cx[d] = "preamble")]_vars

(* Once a call is over and its cancel answered, the locks it took on hosts *)
(* are released or reported, if the job was scoped to them and their group *)
(* is still there.                                                         *)
NoStrandedLock ==
  \A t \in Template : \A c \in Call :
    lockedBy[t] = c /\ pc[c] = "end" /\ cx[c] \in Settled
      => t \in told[c] \/ (scope[c] # {} /\ t \notin scope[c])

(* job_cancel answers, though bodies hang on their hosts.                  *)
CancelReplies == \A c \in Call : cx[c] = "grace" ~> cx[c] = "replied"

(* "The forced arm therefore releases it on the job's behalf": what the    *)
(* doc comment of job_cancel says of a lock that an abort leaves behind.   *)
ForcedCancelReleases ==
  \A t \in Template : lockedBy[t] = Lost
    => \E c \in Call : cx[c] \notin Settled \/ t \in told[c]
=============================================================================
