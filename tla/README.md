# A formal model of mtui

mtui is a maintenance-test tool: it loads *templates* (test reports of update
requests), connects a group of *reference hosts* for each of them over SSH, and
runs package transactions on those hosts. Several people, several `mtui`
processes and, inside `mtui-mcp`, several concurrent jobs share one pool of
hosts. This directory models the parts of mtui that have to keep them apart:
TLA+ modules translated from the source, TLC configurations that check them on
small instances, and theorems checked by TLAPS for every value of the constants.

`PROJECT.json` lists components, runs, mutants, findings, hazards and theorems,
and maps every modelled definition to the lines it stands for.

## The system

Paths are relative to `src/crates/`.

| part | state | operations | what has to be right |
|---|---|---|---|
| **Operation lock** `mtui-hosts/.../locks.rs` (`TargetLock`) | `/var/lock/mtui.lock` on each host; in memory the parsed line and `held` | `lock`, `unlock(force)`, `reap_if_stale`, `wait_for_lock` | at most one process is told it has the lock; a foreign line is never overwritten; only stale lines are reaped; calls end |
| **Pool-claim lock** `locks.rs` (`PoolLock`) | `/var/lock/mtui-pool.lock`, owned by RRID | `try_claim`, `unlock`, `reap_if_stale` | a host is claimed for one RRID; a claim outlives its process |
| **Host arbiter** `mtui-hosts/.../arbiter.rs` | process-wide map host -> owner, a `Notify` | `try_acquire`, `acquire_any`, `release`, `release_owner` | no theft, no lost wake-up, bounded wait |
| **Pool selection** `mtui-core/src/session.rs` | per report `targets`, `pool_claims`, `slot_candidates` | load, `add_host`, sibling fallback, `remove_host`, unload | what the arbiter holds is used, recorded and in the end given back |
| **Registry gate** `mtui-mcp/src/concurrency.rs` | `readers`, `writers_waiting`, `writer_active`, a `Notify` | `shared`, `exclusive`, drops of the guards at any await | exclusion, writers first, no leaked counter, no lost wake-up |
| **MCP session registry** `mtui-mcp/src/provider.rs`, `runner.rs` | the live set of weak handles, the last use of each, the sweeper | mint under a cap, touch, the guard of a dropped server, idle sweep, shutdown | no pool claim outlives the process unnoticed; the process exits; idle sessions are reclaimed |
| **MCP session and jobs** `mtui-mcp/src/session.rs` | session mutex, per-RRID locks, gate, job table | `run_command`, `start_job`, `job_cancel`, `close_with_timeout` | commands of one template are serialised; a job ends in exactly one state; an aborted job leaves no lock |
| **Template registry, dispatch** `template_registry.rs`, `command.rs`, `engine.rs` | entries (each behind its own lock), the active RRID | `add_or_replace`, `remove`, `activate`, fan-out | a command acts on the template it was resolved to |
| **Host group and target** `target/mod.rs`, `hostgroup.rs` | connection, lock objects, boot id of every host | fan-out `run`, `update_lock`, `lock_where`, `set_repo`, `reboot` | a partial failure leaves no host locked, or unlocks no foreign one; a reboot is believed only when it can be |
| **Operation engine, update flow** `operation.rs`, `update_flow.rs` | results per host, the verdict of a body | lock - repository - run - check - reboot - unlock; rollback of a failed update | every exit path unlocks; success means what it says; a body does not boot what its own failed command staged |
| **QAM workflow commands** `commands/` | assignment, the locks of a PI | `assign`, `approve`, `reject`, `regenerate` | a reservation lives as long as the assignment |
| **Data sources** `mtui-datasources` | refhosts cache, HTTP clients | fetch with retries, cache refresh | bounded retries, stale cache only as a fallback |
| **Types, parsers, config, REPL** | values | parsing, comparison | pure functions |

How they interact: a command runs against one *report*, behind its entry lock.
Loading a report asks the arbiter for one host per slot, connects the hosts
(each connect reaps a stale operation lock, then takes the remote pool lock) and
adds them to the report's group. A transaction takes the operation lock of every
host of the group. The REPL runs one command at a time; `mtui-mcp` runs commands
of different templates in parallel, and lets commands that change the registry
run alone by means of the gate. Over HTTP one such session exists per
client; a registry holds weak handles on them, sweeps the idle ones and closes
what is left at shutdown.

The hard behaviours are therefore: several processes over one lockfile, one SFTP
round trip at a time; several tasks over one in-process map; futures dropped at
any await, because a job is cancelled by aborting its task; processes that die
between two round trips; hosts that fail to connect in the middle of a batch;
wait budgets that race releases; hosts that vanish, reboot late or not at all in
the middle of a transaction, while a cancel may arrive between any two of its steps.

## Modules

### TargetLock: the operation lock

One `file` (the host), many `Instance`s (a `TargetLock` object each) that belong
to `Process`es. The file is `Absent`, `Blank` (created, not yet written: the
code reads it as "not locked"), `Garbled` (refused by `from_lockfile`) or a line
of owner, stamp and comment. Every action is **one SFTP round trip**, named
after what it does:

    lock(c)    StartLock -> Create -+-> Stamp -> Ok            (exclusive create won)
                                    +-> Load -+-> Retry        (freed meanwhile)
                                              +-> Restamp -> Stamp -> Ok   (ours)
                                              +-> Age -> Poll -> Retry     (foreign, wait > 0)
                                              +-> TargetLocked
    unlock(f)  StartUnlock -> Look -> Remove
    connect    StartConnect -> Age -> Look -> Remove           (check_stale_lock)

`Age` and the `Look`/`Remove` after it are `reap_if_stale` and the forced
`unlock` it calls: the age is decided on one read, the removal happens two round
trips later. `fd` records whether an instance has the file open for its write,
and whether that file has been unlinked since, because then the write goes
nowhere. `Overlay` is the write at offset 0 of a file opened without truncation
under the writer. `Fail` is a transport error or a dropped future at any await,
with or without the effect of the request; `Crash` kills every instance of a
process. `seized` is a history variable: some instance has removed a file that
was not its own.

`HostMutex` is the promise: a set of holders, all of one process.
`ImplementsMutex` states that the detailed protocol implements it.

### HostArbiter: the in-process map

A `Task` is a caller of `acquire_any`. Registering for the wake-up, the scan of
the map, and the sleep are separate steps, as on a multi-threaded runtime;
`Notified` futures hear `notify_waiters` from their creation on, which is what
`notified` records. The deadline is `due`, set by `Elapse` at any point.
`Drop` is a caller that goes away.

### PoolSelection: from slots to connected hosts and back

One state machine per `Report`: `select` (`pool_select`, one `SelectSlot` per
slot), `Record`, `connect` (`connect_one` for each host of the batch, in any
order), `Fold`, `backups` with `try` and `dial` (`connect_pool_backups`), then
`idle`; `RemoveHost`, `CloseRemoved`, `ReleaseRemoved` for one host; and `release`
and `close` for the unload. Where no inventory can be built (`StartWithoutStore`)
nothing is selected or recorded and only the hosts the template names are dialled.
Steps of different reports interleave, those of one report do not, because of its
entry lock. The arbiter is the map of `HostArbiter` with its waiting abstracted (a
busy candidate is either got or not); the remote pool lock is one cell per host.
`Abort` is the drop of a command's future at one of its awaits (`Awaits`): the loop
of `connect_pool_backups` has one before its first slot, and then those of the
dials. A cut between two hosts of one release counts as before or after it.
`Unclaimed` has the outcome "the link is down, the file stays". Both are bounded by
`MaxFaults`.

### HostsGroup and GroupCommands: the commands that change hosts

HostsGroup is the group and its fan-outs, GroupCommands extends it with the
commands. A fan-out waits for every host, and what happens at one host does not
depend on another, so **one fan-out is one step** that picks an outcome for every
host; between two steps the `Environment` moves: a host is lost or comes back,
another tester takes or drops a free lock. `Hosts` is the part of the group that
the `-t` of the command selects.

Of a host the model keeps whether it answers, its lockfile (this process's line
with or without a comment, a foreign one, a blank file, none), the packages of the
update it *runs* (`root`) and, on a transactional host, what is *staged* for its next
boot (`snap`) and whether the command that staged it ended well.

A command's end is one of the classes the checks of the code tell apart (`Ends`),
and an end **says little of what was done**. The package managers exit 0 when there
is nothing to do and when they did a part, and a command that failed may have
been applied all the same. So `Fanout` picks an end and an effect for every host
independently: any part of what the command aims at (`Between`), or no new snapshot
at all. Ruled out is only what the code's own commands rule out: an updater that
never started, or that has no test repository to find a patch in, changes nothing, and
a snapshot left by a failed command is not good. In the same way the version probe of
a downgrade names versions per host *and package* (`known`), often not for all; its
second query may go unanswered on a live host (`unread`); and the report knows the
required version of some packages only (`Required`, a constant: none at all is the
standalone downgrade). A lock() that fails may have got as far as the open that
empties the file, or as its line.

    Begin -> Enter -> Lock -+-> Repo -> ... -> Judge -> ids -> dispatch -> reconnect
                            |                             -> verify -> Settle -> Unlock
                            +-> Undo                      (update_lock refused)
    update:     Repo -> Gate -+-> Work            prepare:    Repo -> Work | PrepareOne*
                              +-> Abandon         downgrade:  Repo -> Probe -> DowngradeOne* -> Stage
    reboot:     EnterSelected -> ids .. verify -> Relock -> RebootDone    (takes no lock)

`update` is up to four bodies, each with its own lock: `first` (the prepare),
`update`, and then `rollback` (a downgrade with the cancel suspended) or `newpkg`
and `sweep`. `Follows` says which, from the verdict of the one before. `Assign` and
`Unassign` are the reservation that these commands put on the hosts
(`pi_autolock`), with the review calls around it left out.

The reboot is four phases, in `HostsGroup`: `BootIds`, `Dispatch`, `Reconnect`,
`Verify`; `cause` records the first failure that counts, `blind` the hosts whose
boot ids could not be compared. `fresh` (hosts with a snapshot this body staged) and
`dealt` (how its commands on a host have ended) are history variables, and
so are `stuck` and `patched`: the properties read them, the flow does not.

### RwGate: the registry gate of an MCP session

The three counters, and for each task whether it wants shared or exclusive
access and where it is: `register` (arm the wake-up), `check`, `parked`, `held`,
`notify`. The last one is the window of every guard's `drop` between the
decrement under the mutex and `notify_waiters` after it. `Cancel` drops a waiting
future. A task that holds may leave at any time: finished, failed or aborted.
`ReadersWriters` is the abstract lock: no reader enters while a writer queues.

### McpSession: tool calls, jobs and their cancellation

A `Call` is one run of `run_command`, used once: a tool call, or the worker of a
job. The gate is `ReadersWriters`, which RwGate is shown to implement.

    Ask | StartJobs -> Resolve -+-> EnterShared -> LockRrid (fork) -+
                                +-> EnterExclusive (canonical) -----+-> boundary
    boundary -> Skip | Activate -> body -> Select -> LockHosts -> Work -> boundary
                                   body -> Load | Unload | BodyFails
    boundary -> Finish -> (Leave) -> Record -> Evict
    Cancel -> Joined -> Reply
           -> Abort -> (DropTask) -> Preamble -> PassGate -> PassRrid -> PassEntry
                                              -> PassUnlock | PassExpires -> Reply

The templates are resolved twice, before the locks (`Resolve`) and by the
dispatch (`Begin`); what changed in between is what several properties are about.
An entry has no variable of its own: `EntryFree` asks who holds a guard on it (a
fork, the canonical session, an unlock pass). `group` says where the host group
of a report is: `update` takes it out (`Select`), and a dispatch that is dropped
then drops the group (`GroupGone`), after which nobody knows of the locks on its
hosts (`Lost`). `orphan` is the window in which the worker of a fork has been
aborted and its spawned task not yet dropped: the unlock pass runs meanwhile.
`run` stands for the commands that work on the group in place, `update` for those
that split it off. Bodies of one template are one or three steps; how they lock
host by host is TargetLock's matter.

Left out: the file-transfer and testreport tools, which take the same locks as an
exclusive dispatch, and `regenerate` as a job. The close of a session is in the
next module.

### SessionRegistry: minting, sweeping and closing sessions

What a session holds is, per template, whether it has pool claims: in the arbiter
(`held`), and as lines on the hosts (`lines`). The two part because a release is
best-effort (`Release`): the arbiter's claim goes in any case, the line stays on a host
that the unlock does not reach or that is no longer in the group. A dispatch is
`fork[s][t]` or `excl[s]`, in the foreground (on a clone of the server) or by a job;
McpSession has how they wait for each other, here they begin and end, and `Claim`,
`GiveUp`, `Load` and `Unload` happen while they last. `Touch` is a step of its own: a
request is stamped when it comes in, whatever it then waits for, and so are the
requests that dispatch nothing. A session is `Alive` as long as its server, a job or a
closer refers to it; the live set (`tracked`) does not keep it.

    Mint .. Disconnect -> GuardDrop                    a client comes and goes
    Wake -> Revalidate* -> closing -> Rest             the sweeper
    Signal -> Drained -> Stop -> CloseAll -> closing -> Exit     serve_http
    closing:  StartClose -> TakeHandles -> CloseEntry* -> Closed | Lapse
              Deadline | Stop drop the whole batch

The sweeper and the shutdown share `close_sessions`: at most `Parallel` closes at a
time, each with a timeout that runs from the session mutex on, and one deadline for
the batch. Two history variables say why a line may stay. `stuck`: the templates of
which a release did not reach a host. `astray`: the claims nobody was going to release
any more, because the session fell out of the live set unclosed, its close was cut
short, or they were made behind it. `NothingLeftBehind` says that nothing else outlives
the process: after a close that ran to its end only lines in `stuck` remain.

`HostMutex` and `ReadersWriters` are abstract specifications and map to no code.
The `MC*` modules give the constants of the runs (RwGate needs none); the `*Proofs` modules hold the
theorems. Definitions whose comment starts with *Mutant* are deliberately wrong
variants; a property is kept only if one of them violates it.

## Runs

| run | question | bounds |
|---|---|---|
| `lock_exclusion` | Is `lock()` a mutex if nothing is removed by force? Is what a caller relies on visible on the host? | 3 processes, 2 comments, any leftover, 2 rounds, 1 fault, crashes |
| `lock_reap` | With reaping and `unlock -f`, what alone can break the exclusion, and does every call end? | 2 processes, ticking clock, 1 fault, fairness |
| `arbiter` | Is a wake-up lost, a host stolen, a caller left without an answer? | 3 callers, 2 owners, 2 hosts in different orders, fairness |
| `pool_single` | Is what the arbiter holds used and one host per slot connected, and does every command end? | 2 reports, 2 slots, 3 hosts, with and without an inventory, no further `add_host` after the load, no fault, fairness |
| `pool_again` | Are claims right over a second `add_host`, a named one, and a fault? | 2 reports, 2 slots, 2 hosts, 1 more `add_host`, 1 fault |
| `gate` | No lost wake-up, a readers-writers lock; are writers, and then readers, served? | 3 tasks, fairness |
| `mcp_session` | Does a job end once and stay on its templates, do templates outlive the dispatches on them, are locks released or reported after a cancel and cancels answered, is a template ever passed over without a reason? | 2 calls or jobs, scoped and unscoped, 2 templates, one of them loaded and unloaded, 1 record, fairness |
| `commands` | Do hosts change only under the lock, is a snapshot ever booted that a failed command of the body left, or left staged by a body that reports success, does a downgrade that reports success leave a host it could read at the update, does an abort leave anything, does every command answer? | 8 commands with their longest options, one transactional and one ordinary host, 2 packages, required versions known for both on one host and for one on the other, cancel at any step, 1 mishap, 1 foreign lock, fairness |
| `sessions` | What is left on the hosts when the process exits, does it exit, does the sweep spare who came back, are idle sessions reclaimed? | 2 sessions, 1 template, cap 2, one close at a time, 2 dispatches, releases of 1 session out of reach, fairness |

Why these bounds: the lock protocol looks at one foreign line at a time, so two
competitors show every pair of steps and the third shows a lock that changes
hands between two others; two rounds of the reconcile loop show a round that
starts over, the code has eight. Two slots over three hosts are the least that
have a sibling left for one of two slots and, when they overlap, a host that
could serve both. Three tasks at the gate are one inside or on its way out and
two asleep, of the same or of different kinds. In a session two calls and the cancel
of one are three actors, enough for each pairing of a dispatch, an unlock pass and a
registry change, each of which concerns one template; the second template is what
a fan-out needs. The cap on active jobs is left to its theorem.

In `commands` a transactional and an ordinary host are the two kinds the flow
tells apart, and each verdict is about "some host" against "all hosts", which two
show; two packages make the per-package loop overwrite an exit and stop half way.
One mishap is a lost host, a failed command, a lost boot id or a missed
repository; the foreign lock is a second, independent disturbance. A command starts
from any leftover: the update installed or not, a failed snapshot staged or not,
hosts reserved or not, and so a second command adds nothing but length. `OptionSets`
is a bound too: an update runs all its bodies, a prepare goes package by package from
the test repository. An update without the prepare is the same flow from its second
body on; the bulk prepare is the one at the start of every update. What each command
may do is so wide (see `Fanout`) that this is the largest run, with 903,123 states.
The theorems below lift all its safety properties to every option and to any number
of hosts, packages, mishaps and commands.

In `sessions` two sessions over one place in the batch are one that closes and one
that waits; two dispatches are a job that outlives its client and a claim that comes
behind a close. A second template would only add a second entry to the loop of
one close. The cap equals the number of sessions, so that a refusal of `Mint`
needs both. No run uses symmetry.

### Runs that disagree with a document

Each of these has one property that states what a comment or a page of the
documentation says, and TLC finds the code doing otherwise.

- `bug_reap_race`: A decides that a stale line may be reaped; before A's forced
  removal B reaps it too, and locks. A removes B's fresh line. (It follows that
  `NoBlindOverwrite`, which `lock_exclusion` checks without reaping, fails with
  it: the owner of a removed line may be about to re-stamp it.)
- `bug_second_add`: `live` contains the hosts of this batch only. A second
  `add_host` takes the served slots for dead, releases their claims in the
  arbiter while the hosts stay connected, and connects siblings.
- `bug_forced_cancel`: a job that runs `update` is aborted while it holds the
  operation lock. Its host group is dropped with its future, the unlock pass finds
  a report without hosts, and the reply says nothing of the lock that stays.

Met while modelling and not stated by a run, because no document says otherwise or
because it is only a line of the models:

- A process that dies between the exclusive create and the write of the lockfile
  leaves an empty file, which `unlock -f` takes for no lock.
- Two templates of one process that share a host are both granted its operation
  lock, because ownership is user and pid.
- When slots have a common candidate, the claim of a host that failed to connect
  stays in the arbiter if the slot counts as served by the other slot's host.
- A host selection that fails, as in `update -t` with an unknown host, loses the
  group of the report: `select_split` consumes it (`hostgroup.rs:386`) and `drive`
  returns the error without restoring one (`perform.rs:81`).
- An `update_lock` refused by another tester's lock gives `update` the verdict of a
  failed check, so a group on which nothing was patched is rolled back.
- `update` succeeds on hosts that did not get the update. It does not look at how adding
  the test repository went, and an updater without it finds nothing to patch and exits 0;
  with it, one that is not offered all patches exits 0 as well. Such a transactional host
  is rebooted and activates what was staged before.
- The comment in `update_flow.rs:1633-1640` has the downgrade skip the reboot of a
  host on which nothing was staged, so that a rollback does not boot the failed update's
  snapshot. The code skips hosts it sent no command. One whose command exits 0 with
  nothing to do is rebooted, into that snapshot. `LeftOutNotBooted` is what holds.
- A downgrade passes over packages that the report has no required version for, and hosts
  whose second query fails, and answers ok with the update's version on them.
  `DowngradedMeansReverted` says what its answer does mean.
- A lock() that fails between the truncating open and the write leaves a blank file. The
  code reads it as unlocked, yet no exclusive create succeeds on it.
- `run` gives up if it cannot lock all its hosts and unlocks those it locked. A host whose
  lock() failed *after* it wrote the line keeps it; the host is named in the answer.
- The per-package prepare of a transactional host makes one transaction per package. If
  each starts from the running system, as the model has it, only the last is activated.
- Every body writes its own line over a reservation of the same process and removes
  it when it ends: what `lock -c` or `assign` had reserved is free afterwards.
- `reboot` takes no operation lock; it is the exception in `ChangesUnderLock`.
- `command_lock` resolves the templates before it waits for the gate
  (`mtui-mcp/src/session.rs:694`), the dispatch resolves again when it runs. An
  unscoped call that found one template, and so got the shared gate and the RRID lock of
  that template, fans out over two if a `load_template` came in between: over the second
  one without its RRID lock, and without the exclusive gate that `session.rs` wants for
  an unscoped fan-out. Its guard is then what an unlock pass or a command with the
  right lock can run into and pass over the template. TLC shows it with three calls;
  `mcp_session` has two, too few for a third to be passed over. It came up in the proof of
  `PassedOverForReason`, which now names it (`Confined`) as one of its reasons.
- A client that disconnects drops its server, and the guard only takes the session
  out of the live set: nobody closes it. `docs/src/mcp.md:102-104` has the sweep
  release what a vanished client held, but the sweep does not see it any more. A
  sweep that the shutdown cuts short loses its batch in the same way. These, and the
  claims made behind a close, are the members of `astray`.

## Fairness

Every run with a liveness property assumes that an await that can return does
return (weak fairness of every step): the async runtime polls ready futures, and
each SFTP call has a time-out that turns a dead link into an error. Nothing is
assumed about the order in which callers are served, about competitors giving
up, or about new calls being made. `arbiter` adds that time passes (`Elapse`).
`gate` adds that a holder of the gate leaves: commands end, which is what
`CallsReturn` and `CommandsEnd` conclude of the parts of a command modelled here.
`mcp_session` assumes less: a dispatch goes on where it waits for nothing but this
process (`Advance`), the cancel goes on, but what waits for hosts (`Body`) may hang
for ever, for that is when somebody cancels. Weak fairness of the cancel as a whole
does not let it wait for the gate for ever, because its deadline is always enabled.
`commands` assumes that `Flow` goes on: commands, dials and lock waits carry
timeouts, so every fan-out ends. The environment owes nothing: a lost host may stay
lost, a foreign lock may stay.
`sessions` assumes the server's own tasks and timers (`Wake`, `Revalidate`, `Rest`,
`Stop`, `CloseAll`, `Exit`, `GuardDrop`, `Deadline`, and the closes where nothing is
in their way). Clients, jobs and hosts owe nothing: a job may keep its entry or the
mutex of its session for ever, and `Drained`, which waits for open streams, need
never happen; `ShutdownEnds` therefore starts after it.

## Proofs

All theorems hold for every number of processes, hosts, packages, templates, slots,
tasks and sessions, and every budget; groups of hosts and sets of sessions are
finite.

- **TargetLockProofs.** `ExclusionCorrect` is proved from `ExclusionInv`, the
  strengthening in `TargetLock.tla`: as long as nothing was seized, (`GrantIsAlone`)
  an instance with a grant is the only one
  with a grant or an open handle and the file is its own, (`WriterIsAlone`) the
  one open handle is on a linked and still blank file, (`ReadStaysTrue`) what
  was read as one's own stays so until it is acted on. The exclusion is not
  inductive by itself: the step that grants is the write, and only the second
  part says that nobody else can be about to write. The assumption `Apart` says
  that every instance is a process of its own; two of one process
  would both be granted the lock. `MutualExclusionCorrect` and
  `MutexImplemented` add `NothingForced` and the invariant that then nothing is
  ever seized. `GrantedIsVisibleCorrect` needs one more part, `GrantIsStamped`:
  outside the window between the truncating open of its own re-stamp and the write,
  the line of whoever has a grant is on the host. `NoBlindOverwriteCorrect` is
  `ReadStaysTrue` read at the step that opens the file for the re-stamp.
- **HostArbiterProofs.** `NoLostWakeup` is inductive with the types: only a
  release opens a host to a sleeper, and a release sets its `notified`.
- **PoolSelectionProofs.** `ClaimsCorrect` and `UnloadCorrect` share one
  invariant, `ClaimInv`, which adds that a report that is unloaded or closing owns
  nothing. `RecordCorrect` comes from `AgreeKept` (what the arbiter has for a report
  is recorded or chosen), `NoOrphanCorrect` from what each step does to the remote
  cell. These hold without any hypothesis, over any number of `add_host`s.
  The others hold for the hosts of *one load* over slots that share no candidate
  (`OneLoad`, `SlotsApart`), and the code needs it: `bug_second_add` is the
  counterexample without the first, and with a common candidate the claim of a host that
  failed to connect stays in the arbiter (above). Along the load `LoadKept` says that
  no host of a slot still to be looked at is connected but by the batch, and that no
  host is dialled twice; hence `LiveSlotCorrect`, with any number of faults: it is the
  boundary of the finding `bug_second_add`, a second `add_host` being what `OneLoad` rules
  out.
  A load without an inventory is one with nothing chosen. `SlotKept`
  (one host per slot held, none while a sibling is looked for), `OwnKept` and `UsedKept`
  (what is used is owned, and the other way round but for the host being dialled) give
  `OwnedIsUsedCorrect`, `ClaimBackedCorrect` and `OneHostPerSlotCorrect`. A host that a
  template names itself (`RefHosts`) bypasses the arbiter; where some do, the
  last two need an RRID to be loaded once (`RridsApart`), which the registry of one
  session sees to and two sessions of one server do not.
- **RwGateProofs.** The counters are exact and writers are alone, together: the
  code excludes by looking at counters, and the counters stay right because every drop
  gives back what was taken. From it the refinement, one abstract action per
  step that moves a task. `NoWakeupIsLost` covers the window between decrement
  and notification.
- **McpSessionProofs.** `SnapshotsCurrent` needs `IInv`: where a call is when it
  has an RRID lock, that an aborted call is out of its worker, that a forked
  dispatch holds the gate shared and a mutator at work holds it alone. The last
  two, and that readers and a writer exclude each other, keep the templates of a
  fork loaded. The part about one call is preserved by a step of another because
  the step leaves that call alone (`SameKeeps`), so each action is looked at once.
  `JobsEndOnce` follows from what a step may do to a record (`Fate`) and that a
  call with a record is used; `JobsAdmitted` from the cardinality of what
  `start_jobs` mints.
- **McpSessionLockProofs.** The rest of McpSession in four layers, each an invariant
  over those before it. (1) `Shape` and `Pinned`: types, and what the request of a call
  has to do with its record; `JobsStayInScope` needs no more. (2) `Seated`,
  `Pointers`: who has the session mutex, and that a guard left on the canonical
  session is that of an aborted command whose unlock pass has not begun. (3)
  `Forked`, `Unlocks`, `Apart`: RRID locks, and that no two calls have one entry, since
  whatever a step takes was free (`Grabs`). (4) `Owned`, `Taken`: every lock on
  hosts is that of a command at work, or is due to a cancel that has the template
  before it or has reported it (`Due`), and a group is out of its report only with a
  dispatch that has the entry. The last layer at the end of a call is
  `NoLockStranded`. Each layer is proved twice over: a call keeps its own part in every
  step (one lemma per group of actions: entering, running, mutating, recording,
  aborting, unlocking), and a step leaves the part of every other call alone (`Aside`,
  `Yields`, `Touches`).
  `PassedOverOnlyForReason` is an action property over the layers: only `Skip` and
  `Activate` take a template off the list unused (`OnlyPasses`), then the entry is
  somebody's, and layers 1 to 3 leave only the reasons named. `HistoryStaysBounded`
  counts: what is above the cap is matched by an eviction to come (`Accounts`).


- **GroupCommandsProofs.** Nine theorems over one reading of the flow. `Control`
  says which bodies take which steps. `Held` (from a granted `update_lock` to the
  reboot every line is this session's, because others take only free locks) gives
  `ChangesUnderLock`; `Noted` accounts for every line of the session outside that
  part. `Dispatched` and `Untroubled` are the two halves of `AbortLeavesNothing`.
  The properties of the reboot rest on what the body can know, since an exit tells
  nothing of the effect: `Traced` says of every snapshot the body staged that it is good
  or that a command on its host failed, and `EndedWell` that a host the body is about to
  reboot was sent commands which all ended well. Together they give `NoFailedBoot` and
  `LeftOutNotBooted`. `EndedWell` needs the failures of all packages, which is where a
  loop that keeps the last exit only would break it. `Followed` carries "staged by this
  body" through the four phases of the reboot to the verdict: the host is excluded by a
  reported failure, or was asked to boot and has done so, or could not be compared, or
  has a cause; hence `NoInertSnapshot`. `DowngradedMeansReverted` (`RevertedStep`) is
  settled in the step that reads the versions, because nothing changes a host between it
  and the end of the body. `RollbackNotCut` is proved only.
- **SessionRegistryProofs.** `NothingLeftBehind` speaks of the exit and is inductive
  once it is said of every moment (`Accounted`): a line is that of a claim still held, or
  in `stuck`; and a session with claims is in the live set, or in a batch whose close
  will still see them, or they are in `astray`. That needs the live set and the batch to
  be disjoint (`Apart`) and the order in which the shutdown empties them (`Ending`).
  `SweepSpares` gives `SparesTheActive`.

Proved and not in a run as well: the types of every module but McpSession (whose
`TypeOK` is in `mcp_session`), `MutualExclusion` and the parts of `ExclusionInv`,
`CountersExact` and `WriterAlone` of the gate, `AdmissionBound`. They are what the
checked properties rest on, and the runs check those.

Every invariant and every action property of the passing runs is stated by a theorem.
Only model-checked are the liveness properties, which are out of the prover's reach:
`CallsReturn`, `CallsAnswered`, `CommandsEnd`, `WritersServed`, `ReadersServed`,
`CancelReplies`, `CommandEnds`, `ShutdownEnds`, `IdleReclaimed`.

## Plan

Done: TargetLock, HostArbiter, PoolSelection, RwGate, McpSession, HostsGroup,
GroupCommands, SessionRegistry and their proofs. What is left, in the order of
importance:

1. **PoolLock**: RRID ownership over the file protocol of TargetLock; the remote
   cell of PoolSelection as its abstract specification.
2. A module that composes McpSession with the pool: what of a template survives its
   unload by one session while another has it loaded.
3. **ReviewWorkflow**: the review calls around the reservation in `assign`,
   `approve` and `reject`, and `add_host` under an assignment.
4. **Refhosts** and **HttpRetry**: cache freshness and fallback, bounded retries.
5. Pure operators: `rpm` version comparison, the lockfile line, UTC dates.

## Not modelled

- HostsGroup, GroupCommands: the YUM product families, whose flow is that of the
  zypper ones; disabled hosts; file transfers, history rows, the notes
  `package_check` makes for the report; the exits with nothing to do (an update
  without packages, an empty plan). A product without a command table is a plan
  that fails, on any host.
- SessionRegistry: the order of the entries inside one close, the guards a forced
  cancel leaves (McpSession has them), and the stdio transport, which has
  one session and no sweeper.

Not modelled on purpose: parsing and rendering of templates, exports, completion,
logging, the REPL's terminal, and the HTTP interfaces of external services,
which are functions of their input and share no state.
