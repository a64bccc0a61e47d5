----------------------------- MODULE TargetLock -----------------------------
(***************************************************************************)
(* The lockfile of one host and the TargetLock objects that compete for it *)
(* (crates/mtui-hosts/src/target/locks.rs over connection/ssh.rs).         *)
(*                                                                         *)
(* An Instance is one TargetLock object: one Target of one host group of   *)
(* one mtui process.  Identity[i] is the (user, pid) pair i writes into    *)
(* the file, so two instances of one process share it.  Every action is    *)
(* one SFTP round trip: whatever sits between two awaits of the code is    *)
(* one step, and everything else may happen between two steps.             *)
(***************************************************************************)
EXTENDS Integers, FiniteSets

CONSTANTS
  Instance,      \* the TargetLock objects
  Process,       \* the (user, pid) pairs that appear in lockfiles
  Identity,      \* [Instance -> Process]
  Comment,       \* the comments a caller may stamp
  Unmarked,      \* the empty comment, one of Comment
  Leftover,      \* what earlier processes may have left on the host
  Absent,        \* no lockfile
  Blank,         \* an empty lockfile, read as RemoteLock::default()
  Garbled,       \* a lockfile from_lockfile refuses
  NotHeld,       \* the value None of the field `held`
  ReapStale,     \* [lock] reap_stale
  StaleAge,      \* [lock] stale_age, in ticks
  LockWait,      \* [lock] wait, in polls; 0 fails fast
  Retries,       \* RECONCILE_RETRIES
  ForceAllowed,  \* do operators run `unlock -f`?
  StartTime,     \* the clock when the run starts
  MaxTime,       \* bound: the clock stops here
  MaxFaults      \* bound: transport errors and dropped calls

VARIABLES
  file,     \* content of /var/lock/mtui.lock on the host
  now,      \* the wall clock, in ticks of the stale age
  pc,       \* the await each instance has reached, "idle" between calls
  task,     \* the call it is in, "none" between calls
  line,     \* the line lock() built before its loop
  fd,       \* its open handle on the file
  tries,    \* iterations left of the reconcile loop
  polls,    \* polls left of the wait budget
  held,     \* the field `held`
  granted,  \* lock() has returned Ok and unlock() was not called since
  seized,   \* some instance has removed a file that was not its own
  faults    \* transport errors so far

vars == <<file, now, pc, task, line, fd, tries, polls, held, granted, seized,
          faults>>
call == <<task, line, tries, polls>>

Line    == [owner : Process, stamp : 0 .. MaxTime, comment : Comment]
Content == Line \cup {Absent, Blank, Garbled}

ASSUME ConstantsAssumption ==
  /\ Identity \in [Instance -> Process]
  /\ Unmarked \in Comment
  /\ NotHeld \notin Comment
  /\ StaleAge \in Nat /\ LockWait \in Nat /\ MaxTime \in Nat
  /\ StartTime \in 0 .. MaxTime
  /\ MaxFaults \in Nat /\ Retries \in Nat \ {0}
  /\ ReapStale \in BOOLEAN /\ ForceAllowed \in BOOLEAN

ASSUME ContentAssumption ==
  /\ Absent \notin Line /\ Blank \notin Line /\ Garbled \notin Line
  /\ Absent # Blank /\ Absent # Garbled /\ Blank # Garbled
  /\ Leftover \subseteq Content /\ Leftover # {}

PcValue == {"idle", "create", "stamp", "load", "restamp", "age", "poll",
            "look", "remove", "dead"}
TaskValue == {"none", "lock", "unlock", "unlock -f", "connect"}
FdValue == {"none", "linked", "unlinked"}

----------------------------------------------------------------------------
(* Reading the file.                                                       *)

Mine(i, f)   == f \in Line /\ f.owner = Identity[i]
Unlocked(f)  == f \in {Absent, Blank}
Stale(f)     == /\ ReapStale /\ StaleAge > 0
                /\ f \in Line
                /\ now - f.stamp > StaleAge

(* A write lands at offset 0 of what the handle's file holds: over a       *)
(* longer line of the same process the tail, its comment, survives.        *)
Overlay(l, f) == IF f \in Line /\ l.comment = Unmarked
                 THEN [l EXCEPT !.comment = f.comment] ELSE l

(* What the request i has reached does to the file.                        *)
Effect(i) ==
  CASE pc[i] = "create"  -> IF file = Absent THEN Blank ELSE file
    [] pc[i] = "stamp"   -> IF fd[i] = "linked" THEN Overlay(line[i], file)
                                                ELSE file
    [] pc[i] = "restamp" -> Blank
    [] pc[i] = "remove"  -> Absent
    [] OTHER             -> file

(* Removing the file leaves every open handle on an unlinked one.          *)
Unlinked(h) == [k \in Instance |-> IF h[k] = "linked" THEN "unlinked" ELSE h[k]]

----------------------------------------------------------------------------
Init ==
  /\ file \in Leftover
  /\ now = StartTime
  /\ pc = [i \in Instance |-> "idle"]
  /\ task = [i \in Instance |-> "none"]
  /\ line = [i \in Instance |->
               [owner |-> Identity[i], stamp |-> 0, comment |-> Unmarked]]
  /\ fd = [i \in Instance |-> "none"]
  /\ tries = [i \in Instance |-> 0]
  /\ polls = [i \in Instance |-> 0]
  /\ held = [i \in Instance |-> NotHeld]
  /\ granted = [i \in Instance |-> FALSE]
  /\ seized = FALSE
  /\ faults = 0

Goto(i, l) == pc' = [pc EXCEPT ![i] = l]

(* The call is over, with Ok or an error.                                  *)
Return(i) ==
  /\ Goto(i, "idle")
  /\ task'  = [task  EXCEPT ![i] = "none"]
  /\ tries' = [tries EXCEPT ![i] = 0]
  /\ polls' = [polls EXCEPT ![i] = 0]

Continue(i, l) == Goto(i, l) /\ UNCHANGED <<task, tries, polls>>

(* Mutant: the iterations of the loop are not counted.                     *)
RetryForever(i) ==
  /\ Goto(i, "create")
  /\ polls' = [polls EXCEPT ![i] = 0]
  /\ UNCHANGED <<task, tries>>

(* The next iteration of lock()'s loop, or TargetLocked after the last.    *)
Retry(i) ==
  \/ tries[i] <= 1 /\ Return(i)
  \/ /\ tries[i] > 1
     /\ Goto(i, "create")
     /\ tries' = [tries EXCEPT ![i] = @ - 1]
     /\ polls' = [polls EXCEPT ![i] = 0]
     /\ UNCHANGED task

(* unlock(): `unlock -f`, and the removal of a stale lock, go over owners. *)
Forced(i) == task[i] # "unlock"

----------------------------------------------------------------------------
(* lock(comment).                                                          *)

StartLock(i, c) ==
  /\ pc[i] = "idle"
  /\ line' = [line EXCEPT ![i] =
                [owner |-> Identity[i], stamp |-> now, comment |-> c]]
  /\ tries' = [tries EXCEPT ![i] = Retries]
  /\ task' = [task EXCEPT ![i] = "lock"]
  /\ Goto(i, "create")
  /\ UNCHANGED <<file, now, fd, polls, held, granted, seized, faults>>

(* Mutant: an open without O_EXCL.                                         *)
CreateTruncating(i) ==
  /\ pc[i] = "create"
  /\ file' = Blank
  /\ fd' = [fd EXCEPT ![i] = "linked"]
  /\ Continue(i, "stamp")
  /\ UNCHANGED <<now, line, held, granted, seized, faults>>

(* The exclusive open.  The file exists, empty, until the write arrives.   *)
Create(i) ==
  /\ pc[i] = "create"
  /\ file' = Effect(i)
  /\ IF file = Absent
     THEN fd' = [fd EXCEPT ![i] = "linked"] /\ Continue(i, "stamp")
     ELSE Continue(i, "load") /\ UNCHANGED fd
  /\ UNCHANGED <<now, line, held, granted, seized, faults>>

(* The write of either path: after it lock() returns Ok.                   *)
Stamp(i) ==
  /\ pc[i] = "stamp"
  /\ file' = Effect(i)
  /\ fd' = [fd EXCEPT ![i] = "none"]
  /\ held' = [held EXCEPT ![i] = line[i].comment]
  /\ granted' = [granted EXCEPT ![i] = TRUE]
  /\ Return(i)
  /\ UNCHANGED <<now, line, seized, faults>>

(* Mutant: a lock already ours is granted without a new stamp.             *)
LoadKeeping(i) ==
  /\ pc[i] = "load"
  /\ \/ ~ Mine(i, file) /\ Retry(i) /\ UNCHANGED <<held, granted>>
     \/ /\ Mine(i, file)
        /\ held' = [held EXCEPT ![i] = line[i].comment]
        /\ granted' = [granted EXCEPT ![i] = TRUE]
        /\ Return(i)
  /\ UNCHANGED <<file, now, line, fd, seized, faults>>

(* The create collided: read the file and decide.                          *)
Load(i) ==
  /\ pc[i] = "load"
  /\ \/ Unlocked(file) /\ Retry(i)
     \/ Mine(i, file) /\ Continue(i, "restamp")
     \/ /\ file \in Line /\ ~ Mine(i, file) /\ LockWait > 0
        /\ polls' = [polls EXCEPT ![i] = LockWait]
        /\ Goto(i, "age")
        /\ UNCHANGED <<task, tries>>
     \/ /\ ~ Unlocked(file) /\ ~ Mine(i, file)
        /\ file = Garbled \/ LockWait = 0
        /\ Return(i)
  /\ UNCHANGED <<file, now, line, fd, held, granted, seized, faults>>

(* The truncating open of the re-stamp.                                    *)
Restamp(i) ==
  /\ pc[i] = "restamp"
  /\ file' = Effect(i)
  /\ fd' = [fd EXCEPT ![i] = "linked"]
  /\ Continue(i, "stamp")
  /\ UNCHANGED <<now, line, held, granted, seized, faults>>

(* reap_if_stale, at the head of the wait loop and on connect: the age is  *)
(* decided on this read, the removal is the forced unlock that follows.    *)
Age(i) ==
  /\ pc[i] = "age"
  /\ LET unread == ReapStale /\ StaleAge > 0 /\ file = Garbled IN
     \/ Stale(file) /\ Continue(i, "look")
     \/ ~ Stale(file) /\ ~ unread /\ task[i] = "lock" /\ Continue(i, "poll")
     \/ ~ Stale(file) /\ (unread \/ task[i] = "connect") /\ Return(i)
  /\ UNCHANGED <<file, now, line, fd, held, granted, seized, faults>>

(* Mutant: the lock that came free is written over, not created anew.      *)
PollOverwriting(i) ==
  /\ pc[i] = "poll"
  /\ \/ Unlocked(file) /\ Continue(i, "restamp")
     \/ ~ Unlocked(file) /\ Return(i)
  /\ UNCHANGED <<file, now, line, fd, held, granted, seized, faults>>

(* The sleep of the wait loop and the read after it.                       *)
Poll(i) ==
  /\ pc[i] = "poll"
  /\ \/ (Unlocked(file) \/ Mine(i, file)) /\ Retry(i)
     \/ /\ file \in Line /\ ~ Mine(i, file) /\ polls[i] > 1
        /\ polls' = [polls EXCEPT ![i] = @ - 1]
        /\ Goto(i, "age")
        /\ UNCHANGED <<task, tries>>
     \/ /\ ~ Unlocked(file) /\ ~ Mine(i, file)
        /\ file = Garbled \/ polls[i] <= 1
        /\ Return(i)
  /\ UNCHANGED <<file, now, line, fd, held, granted, seized, faults>>

----------------------------------------------------------------------------
(* unlock(force), and the connect-time check_stale_lock.                   *)

StartUnlock(i, f) ==
  /\ pc[i] = "idle"
  /\ f => ForceAllowed
  /\ task' = [task EXCEPT ![i] = IF f THEN "unlock -f" ELSE "unlock"]
  /\ granted' = [granted EXCEPT ![i] = FALSE]
  /\ Goto(i, "look")
  /\ UNCHANGED <<file, now, line, fd, tries, polls, held, seized, faults>>

StartConnect(i) ==
  /\ pc[i] = "idle" /\ ~ granted[i] /\ held[i] = NotHeld
  /\ task' = [task EXCEPT ![i] = "connect"]
  /\ Goto(i, "age")
  /\ UNCHANGED <<file, now, line, fd, tries, polls, held, granted, seized,
                 faults>>

(* unlock() has returned Ok: to the caller, or to lock()'s wait loop.      *)
Released(i) ==
  /\ held' = [held EXCEPT ![i] = NotHeld]
  /\ IF task[i] = "lock" THEN Retry(i) ELSE Return(i)

(* Mutant: unlock() forgets to ask whose the lock is.                      *)
LookAnyone(i) ==
  /\ pc[i] = "look"
  /\ \/ Unlocked(file) /\ Released(i)
     \/ ~ Unlocked(file) /\ Continue(i, "remove") /\ UNCHANGED held
  /\ UNCHANGED <<file, now, line, fd, granted, seized, faults>>

Look(i) ==
  /\ pc[i] = "look"
  /\ \/ Unlocked(file) /\ Released(i)
     \/ /\ file \in Line /\ (Mine(i, file) \/ Forced(i))
        /\ Continue(i, "remove") /\ UNCHANGED held
     \/ /\ ~ Unlocked(file) /\ ~ Mine(i, file)
        /\ file = Garbled \/ ~ Forced(i)
        /\ Return(i) /\ UNCHANGED held
  /\ UNCHANGED <<file, now, line, fd, granted, seized, faults>>

(* sftp_remove.  ssh.rs maps "no such file" to a plain Sftp error, so a    *)
(* file that has gone since the look makes unlock() fail.                  *)
Remove(i) ==
  /\ pc[i] = "remove"
  /\ file' = Effect(i)
  /\ IF file = Absent
     THEN Return(i) /\ UNCHANGED <<fd, held, seized>>
     ELSE /\ fd' = Unlinked(fd)
          /\ seized' = (seized \/ ~ Mine(i, file))
          /\ Released(i)
  /\ UNCHANGED <<now, line, granted, faults>>

----------------------------------------------------------------------------
(* A transport error, or the caller dropping the future at this await: the *)
(* request may have reached the host or not.                               *)
Fail(i) ==
  /\ pc[i] \notin {"idle", "dead"} /\ faults < MaxFaults
  /\ faults' = faults + 1
  /\ \/ file' = file /\ fd' = [fd EXCEPT ![i] = "none"] /\ UNCHANGED seized
     \/ /\ file' = Effect(i)
        /\ IF pc[i] = "remove"
           THEN /\ fd' = Unlinked(fd)
                /\ seized' = (seized \/ (file # Absent /\ ~ Mine(i, file)))
           ELSE fd' = [fd EXCEPT ![i] = "none"] /\ UNCHANGED seized
  /\ Return(i)
  /\ UNCHANGED <<now, line, held, granted>>

(* SIGKILL, panic or power loss of a whole mtui process.                   *)
Crash(p) ==
  LET gone(i) == Identity[i] = p IN
  /\ \E i \in Instance : gone(i) /\ pc[i] # "dead"
  /\ pc' = [i \in Instance |-> IF gone(i) THEN "dead" ELSE pc[i]]
  /\ fd' = [i \in Instance |-> IF gone(i) THEN "none" ELSE fd[i]]
  /\ held' = [i \in Instance |-> IF gone(i) THEN NotHeld ELSE held[i]]
  /\ granted' = [i \in Instance |-> ~ gone(i) /\ granted[i]]
  /\ UNCHANGED <<file, now, call, seized, faults>>

Tick ==
  /\ now < MaxTime
  /\ now' = now + 1
  /\ UNCHANGED <<file, pc, call, fd, held, granted, seized, faults>>

----------------------------------------------------------------------------
(* What an instance does once a call is under way.                         *)
Step(i) == \/ Create(i) \/ Stamp(i) \/ Load(i) \/ Restamp(i) \/ Age(i)
           \/ Poll(i) \/ Look(i) \/ Remove(i)

Next ==
  \/ \E i \in Instance : \/ \E c \in Comment : StartLock(i, c)
                         \/ \E f \in BOOLEAN : StartUnlock(i, f)
                         \/ StartConnect(i)
                         \/ Step(i)
                         \/ Fail(i)
  \/ \E p \in Process : Crash(p)
  \/ Tick

Spec == Init /\ [][Next]_vars

(* The async runtime polls every call that can make progress.              *)
FairSpec == Spec /\ \A i \in Instance : WF_vars(Step(i))

----------------------------------------------------------------------------
TypeOK ==
  /\ file \in Content
  /\ now \in 0 .. MaxTime
  /\ pc \in [Instance -> PcValue]
  /\ task \in [Instance -> TaskValue]
  /\ line \in [Instance -> Line]
  /\ \A i \in Instance : line[i].owner = Identity[i]
  /\ fd \in [Instance -> FdValue]
  /\ tries \in [Instance -> 0 .. Retries]
  /\ polls \in [Instance -> 0 .. LockWait]
  /\ held \in [Instance -> Comment \cup {NotHeld}]
  /\ granted \in [Instance -> BOOLEAN]
  /\ seized \in BOOLEAN
  /\ faults \in 0 .. MaxFaults

(* "mtui must not run two updates against one host at once": two callers   *)
(* that both have lock()'s Ok, and have not called unlock(), are in one    *)
(* process.                                                                *)
MutualExclusion ==
  \A i, j \in Instance : granted[i] /\ granted[j] => Identity[i] = Identity[j]

(* The promise behind it: each grant of lock() is a grant of HostMutex,    *)
(* and every other step a release or nothing.                              *)
Holders == {i \in Instance : granted[i]}
Mutex == INSTANCE HostMutex WITH holders <- Holders
ImplementsMutex == Mutex!Spec

(* Only a forced removal of somebody else's file can break the exclusion:  *)
(* no interleaving of creates, re-stamps, polls, failures and crashes can. *)
ExclusionUnlessSeized == ~ seized => MutualExclusion

(* Why: the strengthening that every step preserves when each instance is  *)
(* a process of its own.                                                   *)
Apart == \A i, j \in Instance : Identity[i] = Identity[j] => i = j

(* A caller with a grant, or with the file open for its line, is alone,    *)
(* and the file is its own.                                                *)
GrantIsAlone ==
  \A i \in Instance : granted[i] =>
    /\ file # Absent
    /\ file \in Line => file.owner = Identity[i]
    /\ pc[i] \notin {"age", "poll", "look", "remove"}
    /\ \A j \in Instance \ {i} : ~ granted[j] /\ fd[j] = "none"

WriterIsAlone ==
  \A i \in Instance :
    /\ pc[i] = "stamp" => fd[i] = "linked"
    /\ fd[i] # "none" =>
         /\ fd[i] = "linked" /\ file = Blank
         /\ \A j \in Instance \ {i} : fd[j] = "none"

(* What was read as one's own stays one's own until it is acted on.        *)
ReadStaysTrue ==
  \A i \in Instance :
    /\ pc[i] = "restamp" => Mine(i, file)
    /\ pc[i] = "remove"  => Mine(i, file) \/ Forced(i)

(* Without reaping and `unlock -f` nobody even tries to take a foreign     *)
(* file off the host.                                                      *)
NothingForced == ~ ReapStale /\ ~ ForceAllowed
UnforcedInv ==
  /\ ~ seized
  /\ \A i \in Instance : pc[i] \in {"look", "remove"} => task[i] = "unlock"

ExclusionInv == ~ seized => GrantIsAlone /\ WriterIsAlone /\ ReadStaysTrue

(* While nothing was seized and no call failed, a lock the caller relies   *)
(* on is on the host for all to see: its own line, with the comment the    *)
(* field `held` records.                                                   *)
GrantedIsVisible ==
  \A i \in Instance :
    granted[i] /\ pc[i] = "idle" /\ ~ seized /\ faults = 0
      => Mine(i, file) /\ file.comment = held[i]

(* Why: outside the window of its own re-stamp the caller's line stands.   *)
GrantIsStamped ==
  ~ seized /\ faults = 0 =>
    \A i \in Instance : granted[i] /\ pc[i] # "stamp" =>
      file \in Line /\ file.comment = held[i]

(* "a foreign lock is never blind-overwritten": the truncating open of the *)
(* re-stamp never hits a line of another process.                          *)
NoBlindOverwrite ==
  [][\A i \in Instance : /\ pc[i] = "restamp" /\ pc'[i] = "stamp"
                         /\ file \in Line
       => Mine(i, file)]_vars

(* A line is taken off the host by its own process, by the operator's      *)
(* `unlock -f`, or because it is older than the stale age.                 *)
OnlyStaleLinesReaped ==
  [][\A i \in Instance :
       pc[i] = "remove" /\ pc'[i] # "remove" /\ file \in Line
       /\ file' = Absent /\ task[i] # "unlock -f"
         => Mine(i, file) \/ Stale(file)]_vars

(* Every call returns, whatever the other instances do: the reconcile loop *)
(* and the wait budget are bounded.                                        *)
CallsReturn == \A i \in Instance : []<>(pc[i] \in {"idle", "dead"})
=============================================================================
