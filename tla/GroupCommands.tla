---------------------------- MODULE GroupCommands ----------------------------
(***************************************************************************)
(* The commands that change the reference hosts, one at a time, as the     *)
(* entry lock of a template makes them: install and uninstall (operation.  *)
(* rs), prepare, update with its rollback, downgrade (update_flow.rs), run *)
(* and reboot (commands/), and the automatic reservation around assign and *)
(* unassign (apicall.rs).                                                  *)
(*                                                                         *)
(* A command runs one or more bodies; update runs up to four of them:      *)
(*     first (the prepare), update, then                                   *)
(*         rollback (a downgrade)     when the update can be repaired, or  *)
(*         newpkg, sweep              when it succeeded.                   *)
(* Each body takes the operation lock on every host, works in fan-outs,    *)
(* reboots the transactional hosts and unlocks.  One fan-out, or one phase *)
(* of the reboot, is one step; the environment moves between any two.      *)
(*                                                                         *)
(* An exit code tells little of what a command did: the package managers   *)
(* answer 0 when there is nothing to do and when they did only a part, and *)
(* a failed command may have done all of it.  A fan-out therefore picks an *)
(* exit and an effect per host, and only a few combinations are ruled out. *)
(***************************************************************************)
EXTENDS HostsGroup

CONSTANTS
    Commands,       \* the commands the operator may give
    MaxCommands,    \* bound: commands given
    OptionSets,     \* bound: the combinations of options they come with
    Required        \* Required[h]: the packages whose required version the report knows for h

VARIABLES
    repo,      \* hosts on which the test repository is configured
    reserved,  \* the report's lock_comment is set
    given,     \* commands given so far
    cmd,       \* the command running, or the last that ran
    opts,      \* its options
    op,        \* the body running
    pc,        \* its next step
    cancel,    \* the cancel token
    result,    \* the verdict of the body
    answer,    \* the verdict of the command
    out,       \* out[h]: how the last command on h ended (the `last*` record)
    dealt,     \* history: how the commands of this body on h have ended so far
    fresh,     \* history: hosts whose staged snapshot is this body's work
    todo,      \* packages the per-package loop has not dispatched
    known,     \* known[h]: the packages the version probe named a version for
    able,      \* hosts for which the body has a command
    failed,    \* hosts that must not be rebooted (inert, failed_downgrade)
    reported,  \* hosts named in the body's failures
    cut,       \* the loop was left at a cancel checkpoint (cancelled_at)
    unread,    \* hosts the second version query of a downgrade got no answer from
    patched    \* the updater was dispatched by this command

fanVars  == <<out, dealt, fresh>>
bodyVars == <<fanVars, todo, known, able, failed, reported, cut, unread>>
flowVars == <<repo, reserved, given, cmd, opts, op, pc, cancel, result, answer,
              bodyVars, patched>>
vars == <<groupVars, flowVars>>

CommandNames == {"install", "run", "prepare", "update", "downgrade", "reboot",
                 "assign", "unassign"}
Prepares   == {"prepare", "first", "newpkg"}
Downgrades == {"downgrade", "rollback"}
Ops == Prepares \cup Downgrades \cup {"install", "run", "update", "sweep", "reboot", "none"}
Steps == {"idle", "enter", "lock", "undo", "repo", "gate", "abandon", "work", "probe", "loop",
          "stage", "judge", "ids", "dispatch", "reconnect", "verify", "settle",
          "relock", "rebooted", "unlock"}
Results == {"none", "ok", "failed", "didnotrun", "reported", "cancelled", "missing",
            "check", "notrun", "probefailed", "reboot", "nottaken"}

\* How a command ends at a host: ok; exit 0 with progress on stderr (noisy);
\* a failed exit or a failure marker behind exit 0 (bad, marked); -1, the host
\* is gone or a timeout passed (lost); the updater found out nothing (probe);
\* an exit the downgrade check does not know, with nothing done (soft).
Ends   == {"ok", "noisy", "bad", "marked", "lost", "probe", "soft"}
Broken == {"bad", "marked", "lost"}

ASSUME CommandsAssumption ==
    /\ Commands \subseteq CommandNames /\ MaxCommands \in Nat
    /\ Required \in [Hosts -> SUBSET Pkgs]

AllOptions == {"noprepare", "newpackage", "installedOnly", "testing"}
Options(c) == {o \cap (CASE c = "update"  -> {"noprepare", "newpackage"}
                         [] c = "prepare" -> {"installedOnly", "testing"}
                         [] OTHER         -> {}) : o \in OptionSets}

TypeOK ==
    /\ GroupTypeOK
    /\ repo \subseteq Hosts /\ reserved \in BOOLEAN
    /\ given \in 0 .. MaxCommands
    /\ cmd \in CommandNames \cup {"none"} /\ opts \subseteq AllOptions
    /\ op \in Ops /\ pc \in Steps
    /\ cancel \in BOOLEAN /\ cut \in BOOLEAN /\ patched \in BOOLEAN
    /\ result \in Results /\ answer \in Results
    /\ out \in [Hosts -> Ends] /\ dealt \in [Hosts -> {"none", "clean", "broken"}]
    /\ known \in [Hosts -> SUBSET Pkgs] /\ todo \subseteq Pkgs
    /\ able \subseteq Hosts /\ failed \subseteq Hosts /\ reported \subseteq Hosts
    /\ fresh \subseteq Hosts /\ unread \subseteq Hosts

NewBody ==
    /\ out' = [h \in Hosts |-> "ok"] /\ dealt' = [h \in Hosts |-> "none"] /\ fresh' = {}
    /\ todo' = Pkgs /\ known' = [h \in Hosts |-> {}]
    /\ able' = {} /\ failed' = {} /\ reported' = {}
    /\ cut' = FALSE /\ unread' = {}

Init ==
    /\ GroupInit
    /\ repo = {} /\ reserved = FALSE /\ given = 0
    /\ cmd = "none" /\ opts = {} /\ op = "none" /\ pc = "idle"
    /\ cancel = FALSE /\ result = "none" /\ answer = "none"
    /\ out = [h \in Hosts |-> "ok"] /\ dealt = [h \in Hosts |-> "none"] /\ fresh = {}
    /\ todo = Pkgs /\ known = [h \in Hosts |-> {}]
    /\ able = {} /\ failed = {} /\ reported = {} /\ cut = FALSE /\ unread = {}
    /\ patched = FALSE

\* Where the step leads, and the verdict it settles on the way.
Goto(step)     == pc' = step /\ UNCHANGED result
End(step, res) == pc' = step /\ result' = res
ctlVars == <<repo, reserved, given, cmd, opts, op, cancel, answer, patched>>

-----------------------------------------------------------------------------
(***************************************************************************)
(* Commands and the order of their bodies.                                 *)
(***************************************************************************)
FirstBody(c, o) ==
    IF c = "update" THEN (IF "noprepare" \in o THEN "update" ELSE "first") ELSE c

Begin ==
    /\ pc = "idle" /\ given < MaxCommands
    /\ \E c \in Commands \ {"assign", "unassign"} : \E o \in Options(c) :
          /\ cmd' = c /\ opts' = o /\ op' = FirstBody(c, o)
    /\ given' = given + 1
    /\ End("enter", "none") /\ answer' = "none"
    /\ cancel' = FALSE /\ patched' = FALSE
    /\ UNCHANGED <<groupVars, repo, reserved, bodyVars>>

\* pi_autolock: reserve the hosts under a comment, or give them back.  Only a
\* command that works on the hosts counts as given.
Assign ==
    /\ pc = "idle" /\ "assign" \in Commands /\ given < MaxCommands
    /\ \E got \in SUBSET Hosts : LockWhere(Hosts, "kept", got)
    /\ reserved' = TRUE
    /\ UNCHANGED <<alive, root, snap, bootVars, stuck, foreigners, repo, given, cmd, opts, op, pc,
                   cancel, result, answer, bodyVars, patched>>

Unassign ==
    /\ pc = "idle" /\ "unassign" \in Commands /\ given < MaxCommands
    /\ UnlockWhere(Hosts) /\ reserved' = FALSE
    /\ UNCHANGED <<alive, root, snap, bootVars, stuck, envVars, repo, given, cmd, opts, op, pc, cancel,
                   result, answer, bodyVars, patched>>

Cancel ==
    /\ pc # "idle" /\ ~cancel
    /\ cancel' = TRUE
    /\ UNCHANGED <<groupVars, repo, reserved, given, cmd, opts, op, pc, result, answer,
                   bodyVars, patched>>

\* Mutant: a rollback that could not start is tried again.
FollowsRetrying(res) ==
    CASE op = "first" /\ res \in {"ok", "reported"}     -> "update"
      [] op = "update" /\ res \in {"check", "nottaken"} -> "rollback"
      [] op = "rollback" /\ res = "failed"              -> "rollback"
      [] op = "update" /\ res = "ok" -> IF "newpackage" \in opts THEN "newpkg" ELSE "sweep"
      [] op = "newpkg" -> "sweep"
      [] OTHER -> "none"

\* Which body follows when `op` ended with `res`: perform_update goes on after
\* a prepare that ran, perform_update_with_rollback repairs two failures.
Follows(res) ==
    CASE op = "first" /\ res \in {"ok", "reported"}     -> "update"
      [] op = "update" /\ res \in {"check", "nottaken"} -> "rollback"
      [] op = "update" /\ res = "ok" -> IF "newpackage" \in opts THEN "newpkg" ELSE "sweep"
      [] op = "newpkg" -> "sweep"
      [] OTHER -> "none"

\* The later bodies of an update are best effort: its answer is settled.
Afterwards == {"rollback", "newpkg", "sweep"}

Return(res) ==
    /\ result' = res
    /\ answer' = IF op \in Afterwards \/ Follows(res) = "update" THEN answer ELSE res
    /\ op' = Follows(res)
    /\ pc' = IF Follows(res) = "none" THEN "idle" ELSE "enter"
    /\ cancel' = (cancel /\ pc' # "idle")
    /\ NewBody
    /\ UNCHANGED <<repo, reserved, given, cmd, opts, patched>>

\* The entry gates of update and of install/uninstall; the bodies that
\* follow in an update have none.
EntryGate == op = "install" \/ (cmd = "update" /\ op = FirstBody(cmd, opts))

\* A body whose plans or reboot map cannot be built ends before the lock;
\* update builds its maps under the lock, the other three need none.
Plans == op \in Prepares \cup Downgrades \cup {"install"}

Enter ==
    /\ pc = "enter" /\ op \notin {"run", "reboot"}
    /\ \/ EntryGate /\ cancel /\ Return("cancelled")
       \/ Plans /\ ~(EntryGate /\ cancel)
          /\ Return(IF op \in Prepares THEN "didnotrun" ELSE "failed")
       \/ ~(EntryGate /\ cancel) /\ Goto("lock") /\ UNCHANGED <<ctlVars, bodyVars>>
    /\ UNCHANGED groupVars

\* run and reboot work on the hosts their -t selects.
EnterSelected ==
    /\ pc = "enter"
    /\ \E hs \in SUBSET Hosts \ {{}} :
          \/ /\ op = "run" /\ able' = hs /\ Goto("lock")
             /\ UNCHANGED asked
          \/ /\ op = "reboot" /\ asked' = hs /\ Goto("ids")
             /\ UNCHANGED able
    /\ UNCHANGED <<hostVars, oldId, booted, sent, cause, blind, stuck, envVars, ctlVars,
                   fanVars, todo, known, failed, reported, cut, unread>>

-----------------------------------------------------------------------------
(***************************************************************************)
(* The lock around a body: update_lock takes all hosts or gives them back. *)
(***************************************************************************)
LockScope == IF op = "run" THEN able ELSE Hosts

AfterLock == IF op \in {"install", "run"} THEN "work" ELSE "repo"

\* Mutant: the body goes on with the hosts it could lock.
LockWhatIsFree ==
    /\ pc = "lock"
    /\ \E got \in SUBSET LockScope :
          /\ LockWhere(LockScope, "own", got)
          /\ able' = got
          /\ stuck' = stuck \cup ((LockScope \cap Lockable) \ got)
          /\ Goto(IF got # {} THEN AfterLock ELSE "undo")
    /\ UNCHANGED <<alive, root, snap, bootVars, foreigners, ctlVars, fanVars, todo, known, failed,
                   reported, cut, unread>>

\* One host that is not acquired and the body gives back the others.  A host
\* whose lock() failed is named in the answer of run, which leaves it alone.
Lock ==
    /\ pc = "lock"
    /\ \E got \in SUBSET LockScope :
          /\ LockWhere(LockScope, "own", got)
          /\ able' = got
          /\ stuck' = stuck \cup ((LockScope \cap Lockable) \ got)
          /\ Goto(IF got = LockScope THEN AfterLock ELSE "undo")
    /\ UNCHANGED <<alive, root, snap, bootVars, foreigners, ctlVars, fanVars, todo, known, failed,
                   reported, cut, unread>>

\* Hosts that keep a line of ours because the unlock did not reach them.
UnlockAndNote(hs) ==
    /\ UnlockWhere(hs)
    /\ stuck' = (stuck \ (hs \cap Alive)) \cup (hs \ Alive)

\* A contended group: update gives the same verdict as for a failed check.
Contended == CASE op \in Prepares -> "didnotrun"
               [] op = "update"   -> "check"
               [] OTHER           -> "failed"

\* Mutant: a refused update_lock keeps the locks it did get.
UndoNothing ==
    /\ pc = "undo"
    /\ UNCHANGED <<hostVars, stuck, envVars>>
    /\ QuietBoot
    /\ Return(Contended)

Undo ==
    /\ pc = "undo"
    /\ UnlockAndNote(IF op = "run" THEN able ELSE Hosts)
    /\ UNCHANGED <<alive, root, snap, asked, envVars>>
    /\ QuietBoot
    /\ Return(Contended)

Unlock ==
    /\ pc = "unlock"
    /\ UnlockAndNote(LockScope)
    /\ UNCHANGED <<alive, root, snap, envVars>>
    /\ QuietBoot
    /\ Return(result)

-----------------------------------------------------------------------------
(***************************************************************************)
(* The test repository: added for update and a testing prepare, removed    *)
(* otherwise.  Only the last of the commands per host is looked at, so the *)
(* change may be missed without a trace.                                   *)
(***************************************************************************)
RepoAdded == op \in {"update", "newpkg"} \/ (op = "prepare" /\ "testing" \in opts)

SetRepo(add, missed) ==
    /\ Hosts \ Alive \subseteq missed
    /\ Mishaps(missed \cap Alive)
    /\ repo' = IF add THEN repo \cup (Hosts \ missed) ELSE repo \cap missed
    /\ UNCHANGED <<hostVars, bootVars, stuck, foreigners>>

Repo ==
    /\ pc = "repo"
    /\ \E missed \in SUBSET Hosts : \E seen \in SUBSET missed :
          /\ Hosts \ Alive \subseteq seen
          /\ SetRepo(RepoAdded, missed)
          /\ \/ /\ op \in Prepares
                /\ \/ seen # {} /\ End("unlock", "didnotrun") /\ UNCHANGED <<able, reported>>
                   \/ /\ seen = {}
                      /\ able' \in SUBSET Hosts      \* hosts the preparer has a command for
                      /\ Goto(IF op = "prepare" /\ "installedOnly" \in opts THEN "loop" ELSE "work")
                      /\ UNCHANGED reported
             \/ /\ op \in Downgrades
                /\ reported' = seen /\ Goto("probe") /\ UNCHANGED able
             \/ /\ op = "update" /\ Goto("gate") /\ UNCHANGED <<able, reported>>
             \/ /\ op = "sweep" /\ End("unlock", "ok") /\ UNCHANGED <<able, reported>>
    /\ UNCHANGED <<reserved, given, cmd, opts, op, cancel, answer, patched, fanVars, todo, known,
                   failed, cut, unread>>

\* Mutant: the last checkpoint unlocks without taking the repository away.
GateLeavingRepo ==
    /\ pc = "gate"
    /\ \/ End("abandon", "missing")
       \/ cancel /\ End("unlock", "cancelled")
       \/ ~cancel /\ Goto("work")
    /\ UNCHANGED <<groupVars, ctlVars, bodyVars>>

\* build_update_maps, then the last cancel checkpoint before the dispatch.
Gate ==
    /\ pc = "gate"
    /\ \/ End("abandon", "missing")
       \/ cancel /\ End("abandon", "cancelled")
       \/ ~cancel /\ Goto("work")
    /\ UNCHANGED <<groupVars, ctlVars, bodyVars>>

\* Both aborts take the repository away again.
Abandon ==
    /\ pc = "abandon"
    /\ \E missed \in SUBSET Hosts : SetRepo(FALSE, missed)
    /\ Goto("unlock")
    /\ UNCHANGED <<reserved, given, cmd, opts, op, cancel, answer, patched, bodyVars>>

-----------------------------------------------------------------------------
(***************************************************************************)
(* Fan-outs.                                                               *)
(***************************************************************************)
\* What a host may run after a command that was to take it from a to b.
Between(a, b) == {s \in SUBSET (a \cup b) : a \cap b \subseteq s}

\* What a command leaves behind that ended with o[h] and changed these hosts to
\* now[h]: a host with a read-only root works on a new snapshot of what it runs.
Outcome(hs, o, changed, now) ==
    /\ Mishaps({h \in hs \cap Alive : o[h] # "ok"})
    /\ out' = [h \in Hosts |-> IF h \in hs THEN o[h] ELSE out[h]]
    /\ dealt' = [h \in Hosts |->
          IF h \notin hs THEN dealt[h]
          ELSE IF o[h] \in Broken \cup {"probe"} \/ dealt[h] = "broken" THEN "broken" ELSE "clean"]
    /\ root' = [h \in Hosts |-> IF h \in changed \ Transactional THEN now[h] ELSE root[h]]
    /\ snap' = [h \in Hosts |-> IF h \in changed \cap Transactional
                                THEN Snap(now[h], o[h] \notin Broken) ELSE snap[h]]
    /\ fresh' = fresh \cup (changed \cap Transactional)
    /\ UNCHANGED <<alive, lock, bootVars, stuck, foreigners>>

\* The command of the body runs on hs and aims at goal[h].  At any exit it may
\* have done all of it, a part or nothing (an updater that never started did
\* nothing, and without the test repository it finds no patch).
Fanout(hs, goal, ends) ==
    \E o \in [hs -> ends] :
    \E changed \in SUBSET {h \in hs \cap Alive : o[h] # "probe" /\ (op = "update" => h \in repo)} :
    \E now \in [changed -> SUBSET Pkgs] :
        /\ \A h \in changed : now[h] \in Between(root[h], goal[h])
        /\ \A h \in hs \ Alive : o[h] = "lost"
        /\ Outcome(hs, o, changed, now)

BrokenNow(hs) == {h \in hs : out'[h] \in Broken}

\* What a bulk command aims at: only the updater and a prepare from the test
\* repository install the update's packages.
Goal == [h \in Hosts |-> IF op = "update" \/ (RepoAdded /\ h \in repo) THEN Pkgs ELSE root[h]]

BulkEnds == CASE op = "update" -> {"ok", "bad", "lost", "probe"}
              [] op \in Prepares -> {"ok", "noisy", "bad", "marked", "lost"}
              [] OTHER -> {"ok", "bad", "lost"}

\* What the operator runs is not known to change packages; a non-zero exit
\* of it is shown and is no failure.
RunCommand ==
    /\ pc = "work" /\ op = "run"
    /\ End("unlock", "ok")
    /\ UNCHANGED <<groupVars, ctlVars, bodyVars>>

\* The updater's script drops the test repository on its way out, if it gets
\* there.
Work ==
    /\ pc = "work" /\ op # "run"
    /\ Fanout(able, Goal, BulkEnds)
    /\ IF op = "update"
       THEN \E gone \in SUBSET {h \in able \cap Alive : out'[h] # "probe"} : repo' = repo \ gone
       ELSE UNCHANGED repo
    /\ failed' = BrokenNow(able) \cup {h \in able : out'[h] = "probe"}
    /\ todo' = {}
    /\ patched' = (patched \/ op = "update")
    /\ Goto("judge")
    /\ UNCHANGED <<reserved, given, cmd, opts, op, cancel, answer, known, able, reported, cut,
                   unread>>

\* The version probe of a downgrade fails the hosts it gets nothing from.  Of
\* the others it names the packages that have a released version to go back
\* to, often not all of them; a host it names none for is left out.
Probe ==
    /\ pc = "probe"
    /\ \E dead \in SUBSET Hosts :
          /\ Hosts \ Alive \subseteq dead
          /\ Mishaps(Alive \cap dead)
          /\ known' \in [Hosts -> SUBSET Pkgs]
          /\ \A h \in dead : known'[h] = {}
          /\ able' = {h \in Hosts : known'[h] # {}}
          /\ reported' = reported \cup dead
          /\ IF dead = Hosts THEN End("unlock", "failed") ELSE Goto("loop")
    /\ UNCHANGED <<hostVars, bootVars, stuck, foreigners, ctlVars, fanVars, todo, failed, cut, unread>>

\* A rollback runs with the cancel token suspended.
Interrupted == cancel /\ op # "rollback"

AfterLoop == IF op \in Downgrades THEN "stage" ELSE "judge"

LoopEnds ==
    /\ pc = "loop" /\ (todo = {} \/ Interrupted)
    /\ cut' = (todo # {})
    /\ Goto(AfterLoop)
    /\ UNCHANGED <<groupVars, ctlVars, fanVars, todo, known, able, failed, reported, unread>>

\* Mutant: only the last package's command decides about the reboot.
PrepareOneLast ==
    /\ pc = "loop" /\ op \in Prepares /\ ~Interrupted
    /\ \E p \in todo :
          /\ todo' = todo \ {p}
          /\ Fanout(able, [h \in Hosts |-> IF RepoAdded /\ h \in repo THEN root[h] \cup {p} ELSE root[h]],
                    {"ok", "noisy", "bad", "marked", "lost"})
    /\ failed' = BrokenNow(able)
    /\ Goto("loop")
    /\ UNCHANGED <<ctlVars, known, able, reported, cut, unread>>

\* The failures add up over the packages: the last command is often one with
\* nothing to do.
PrepareOne ==
    /\ pc = "loop" /\ op \in Prepares /\ ~Interrupted
    /\ \E p \in todo :
          /\ todo' = todo \ {p}
          /\ Fanout(able, [h \in Hosts |-> IF RepoAdded /\ h \in repo THEN root[h] \cup {p} ELSE root[h]],
                    {"ok", "noisy", "bad", "marked", "lost"})
    /\ failed' = failed \cup BrokenNow(able)
    /\ Goto("loop")
    /\ UNCHANGED <<ctlVars, known, able, reported, cut, unread>>

\* One package taken back on the hosts the probe named a version of it for.
DowngradeOne ==
    /\ pc = "loop" /\ op \in Downgrades /\ ~Interrupted
    /\ \E p \in todo :
          LET hs == {h \in able \ Transactional : p \in known[h]} IN
          /\ todo' = todo \ {p}
          /\ Fanout(hs, [h \in Hosts |-> root[h] \ {p}], {"ok", "bad", "lost", "soft"})
          /\ reported' = reported \cup BrokenNow(hs)
    /\ Goto("loop")
    /\ UNCHANGED <<ctlVars, known, able, failed, cut, unread>>

\* Transactional hosts take all they have versions for back in one snapshot;
\* the list of versions is not read after this.
Stage ==
    /\ pc = "stage"
    /\ Fanout(able \cap Transactional, [h \in Hosts |-> root[h] \ known[h]], {"ok", "bad", "lost"})
    /\ failed' = BrokenNow(able \cap Transactional)
    /\ reported' = reported \cup failed'
    /\ known' = [h \in Hosts |-> {}]
    /\ Goto("judge")
    /\ UNCHANGED <<ctlVars, todo, able, cut, unread>>

-----------------------------------------------------------------------------
(***************************************************************************)
(* Verdicts, and the hosts to reboot.                                      *)
(***************************************************************************)
\* Hosts a command of the body was dispatched to.
Reached == IF todo = Pkgs /\ op \in Prepares THEN {} ELSE able

RebootOr(hs) ==
    /\ asked' = hs
    /\ Goto(IF hs = {} THEN "settle" ELSE "ids")

\* prepare_body: a host no command could be built for fails by name, unless
\* the cancel came before the first package.
JudgePrepare ==
    /\ op \in Prepares
    /\ LET unreached == IF cut /\ todo = Pkgs THEN {} ELSE Hosts \ Reached IN
          reported' = failed \cup unreached \cup {h \in Hosts : out[h] = "noisy"}
    /\ RebootOr((Transactional \cap Reached) \ failed)

\* Mutant: every transactional host that did not fail reboots, whether a
\* downgrade was staged on it or not.
JudgeDowngradeAll ==
    /\ op \in Downgrades
    /\ RebootOr(Transactional \ failed)
    /\ UNCHANGED reported

JudgeDowngrade ==
    /\ op \in Downgrades
    /\ RebootOr((Transactional \cap able) \ failed)
    /\ UNCHANGED reported

JudgeInstall ==
    /\ op = "install"
    /\ reported' = failed
    /\ RebootOr(Transactional \ failed)

\* update_run_phase: one failed check and no host reboots; the rollback is
\* for a host that a downgrade can repair.
JudgeUpdate ==
    /\ op = "update"
    /\ \/ failed = {} /\ RebootOr(Transactional)
       \/ /\ failed # {} /\ UNCHANGED asked
          /\ End("unlock", IF \E h \in failed : out[h] \notin {"lost", "probe"} THEN "check"
                           ELSE IF \A h \in failed : out[h] = "probe" THEN "probefailed"
                           ELSE "notrun")
    /\ UNCHANGED reported

Judge ==
    /\ pc = "judge"
    /\ JudgePrepare \/ JudgeDowngrade \/ JudgeInstall \/ JudgeUpdate
    /\ UNCHANGED <<hostVars, oldId, booted, sent, cause, blind, stuck, envVars, ctlVars,
                   fanVars, todo, known, able, failed, cut, unread>>

\* The four phases of the reboot.
Reboot ==
    /\ \/ pc = "ids" /\ BootIds /\ Goto("dispatch")
       \/ pc = "dispatch" /\ Dispatch /\ Goto("reconnect")
       \/ pc = "reconnect" /\ Reconnect /\ Goto("verify")
       \/ pc = "verify" /\ Verify /\ Goto(IF op = "reboot" THEN "relock" ELSE "settle")
    /\ UNCHANGED <<ctlVars, bodyVars>>

\* reboot_selected puts the reservation back on the hosts it rebooted.
Relock ==
    /\ pc = "relock"
    /\ \/ reserved /\ \E got \in SUBSET asked : LockWhere(asked, "kept", got)
       \/ ~reserved /\ UNCHANGED <<lock, faults>>
    /\ Goto("rebooted")
    /\ UNCHANGED <<alive, root, snap, bootVars, stuck, foreigners, ctlVars, bodyVars>>

SettlePrepare ==
    /\ op \in Prepares
    /\ End("unlock", IF reported \cup RebootFailed # {} THEN "reported"
                     ELSE IF cut THEN "cancelled" ELSE "ok")
    /\ UNCHANGED <<unread, faults>>

\* The second version query of a downgrade, which a live host may fail too.
Requery ==
    /\ unread' \in SUBSET Hosts /\ Hosts \ Alive \subseteq unread'
    /\ Mishaps(unread' \cap Alive)

\* Mutant: the verdict trusts the commands and looks at no version.
SettleUnverified ==
    /\ op \in Downgrades
    /\ Requery
    /\ End("unlock", IF reported \cup RebootFailed # {} THEN "failed"
                     ELSE IF cut THEN "cancelled" ELSE "ok")

\* downgrade_verdict: a host that still runs a package at its required version
\* fails the downgrade; one that was not read, or a package whose required
\* version the report does not know, is passed over.
SettleDowngrade ==
    /\ op \in Downgrades
    /\ Requery
    /\ LET kept == {h \in Hosts \ unread' : root[h] \cap Required[h] # {}} IN
       End("unlock", IF reported \cup RebootFailed \cup kept # {} THEN "failed"
                     ELSE IF cut THEN "cancelled" ELSE "ok")

\* Rolling back is for hosts that are all still there.
SettleUpdate ==
    /\ op = "update"
    /\ End("unlock", IF RebootFailed = {} THEN "ok"
                     ELSE IF \A h \in RebootFailed : StillReachable(cause[h]) THEN "nottaken"
                     ELSE "reboot")
    /\ UNCHANGED <<unread, faults>>

SettleInstall ==
    /\ op = "install"
    /\ End("unlock", IF reported \cup RebootFailed # {} THEN "failed" ELSE "ok")
    /\ UNCHANGED <<unread, faults>>

Settle ==
    /\ pc = "settle"
    /\ SettlePrepare \/ SettleDowngrade \/ SettleUpdate \/ SettleInstall
    /\ UNCHANGED <<hostVars, bootVars, stuck, foreigners, ctlVars, fanVars, todo, known, able, failed,
                   reported, cut>>

\* The reboot command takes no lock, so it has none to give back.
RebootDone ==
    /\ pc = "rebooted"
    /\ Return(IF RebootFailed = {} THEN "ok" ELSE "failed")
    /\ QuietBoot
    /\ UNCHANGED <<hostVars, stuck, envVars>>

-----------------------------------------------------------------------------
Flow == \/ Enter \/ EnterSelected \/ Lock \/ Undo \/ Unlock \/ Repo \/ Gate \/ Abandon \/ Work
        \/ RunCommand \/ Probe \/ LoopEnds \/ PrepareOne \/ DowngradeOne \/ Stage \/ Judge \/ Reboot
        \/ Relock \/ RebootDone \/ Settle

Next == Begin \/ Assign \/ Unassign \/ Cancel \/ Flow
        \/ (Environment /\ UNCHANGED flowVars)

Spec == Init /\ [][Next]_vars

\* Every fan-out ends: its commands, dials and lock waits carry timeouts.
FairSpec == Spec /\ WF_vars(Flow)

-----------------------------------------------------------------------------
(***************************************************************************)
(* Properties.                                                             *)
(***************************************************************************)
\* No command changes what a host runs, or stages, unless the session holds
\* the operation lock of every host of the group (update_lock fails closed);
\* the reboot command is the one that asks for no lock.
ChangesUnderLock ==
    [][(root' # root \/ snap' # snap) /\ op # "reboot" => \A h \in Hosts : lock[h] = "own"]_vars

\* The reboot of a body never activates a snapshot that a failed transaction
\* of the same body left, also when a later command of it exits 0 and does
\* nothing: the exits of all its packages count, not the last one's.
NoFailedBoot ==
    [][pc = "dispatch" /\ op # "reboot" => \A h \in booted' \cap fresh : snap[h].ok]_vars

\* A host on which the body staged nothing boots whatever an earlier body left
\* there, the failed update's snapshot in a rollback.  It is rebooted only if
\* the body sent it commands and all of them ended well (with nothing to do):
\* a host that was left out, or where one failed, keeps its snapshot unbooted.
LeftOutNotBooted ==
    [][pc = "dispatch" /\ op # "reboot" => \A h \in booted' \ fresh : dealt[h] = "clean"]_vars

\* A body that ends well leaves no host with its own work staged but not
\* booted, except where the boot ids could not be compared.
NoInertSnapshot ==
    pc = "unlock" /\ result \in {"ok", "cancelled"} => \A h \in fresh \ blind : ~snap[h].some

\* A downgrade or rollback that reports no failure left no host it could read
\* with a package at the required version: not with a dead first probe, a list
\* that was short, a command that did nothing or a boot of the old snapshot.
DowngradedMeansReverted ==
    pc = "unlock" /\ op \in Downgrades /\ result \in {"ok", "cancelled"} =>
        \A h \in Hosts \ unread : root[h] \cap Required[h] = {}

\* An update that answers cancelled, or that it could not start, has not
\* dispatched a patch, whenever the cancel arrived; if nothing went wrong at
\* the hosts, the repository it had added is gone when it unlocks.
AbortLeavesNothing ==
    /\ pc = "idle" /\ cmd = "update" /\ answer \in {"cancelled", "didnotrun", "missing"} => ~patched
    /\ pc = "unlock" /\ op = "update" /\ result \in {"cancelled", "missing"} /\ faults = 0 => repo = {}

\* A rollback is never cut short by the cancel that its update ignored.
RollbackNotCut == op = "rollback" => ~cut /\ result # "cancelled"

\* Between commands no host keeps this session's operation lock unless the
\* unlock could not reach it, which the command warned about.
LockLeftIsNoted == pc = "idle" => \A h \in Hosts : lock[h] = "own" => h \in stuck

\* Every command answers, and the hosts' trouble cannot stop it.
CommandEnds == pc # "idle" ~> pc = "idle"

=============================================================================
