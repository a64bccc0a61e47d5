------------------------- MODULE GroupCommandsProofs -------------------------
(***************************************************************************)
(* For any group of hosts, any packages and any number of mishaps and      *)
(* commands: the group is changed only under its lock, an aborted update   *)
(* has patched nothing, a rollback is never cut short, a line of the       *)
(* session that outlives its command is one an unlock or a failed lock     *)
(* could not take back, a body that changes packages reboots only hosts on *)
(* which each of its commands ended well and leaves no good snapshot of    *)
(* its own staged, a downgrade reboots only hosts it named a version for,  *)
(* and one that reports success took back, on every host it did not        *)
(* report, what it had to and could look at.                               *)
(***************************************************************************)
EXTENDS GroupCommands, FiniteSetTheorems, TLAPS

-----------------------------------------------------------------------------
(***************************************************************************)
(* What the phases do to the state of the group.                           *)
(***************************************************************************)
LEMMA MishapsBound ==
  ASSUME NEW S \in SUBSET Hosts, faults \in 0 .. MaxFaults, Mishaps(S)
  PROVE  /\ faults' \in 0 .. MaxFaults
         /\ faults <= faults'
         /\ faults' = 0 => S = {}
<1>1. IsFiniteSet(S) /\ Cardinality(S) \in Nat
  BY GroupAssumption, FS_Subset, FS_CardinalityType
<1>2. Cardinality(S) = 0 => S = {}
  BY <1>1, FS_EmptySet
<1> QED
  BY <1>1, <1>2, GroupAssumption DEF Mishaps

LEMMA LocksType ==
  ASSUME lock \in [Hosts -> Locks], NEW hs \in SUBSET Hosts, UnlockWhere(hs)
  PROVE  lock' \in [Hosts -> Locks]
BY DEF UnlockWhere, Locks

LEMMA LockWhereType ==
  ASSUME GroupTypeOK, NEW hs \in SUBSET Hosts, NEW line, NEW got, LockWhere(hs, line, got)
  PROVE  lock' \in [Hosts -> Locks] /\ faults' \in 0 .. MaxFaults
<1>1. Mishaps((hs \cap Lockable) \ got) /\ (hs \cap Lockable) \ got \in SUBSET Hosts
  BY DEF LockWhere
<1> QED
  BY <1>1, MishapsBound DEF LockWhere, GroupTypeOK

LEMMA LockWhereFacts ==
  ASSUME NEW hs, NEW line, NEW got, LockWhere(hs, line, got), NEW h \in Hosts
  PROVE  /\ h \in got => lock'[h] = line
         /\ lock'[h] \in {lock[h], line, "blank"}
         /\ h \notin hs \cap Lockable => lock'[h] = lock[h]
BY DEF LockWhere

SnapSet == [pkgs : SUBSET Pkgs, ok : BOOLEAN, some : BOOLEAN]

LEMMA BootIdsType == ASSUME GroupTypeOK, BootIds PROVE GroupTypeOK'
<1>1. faults' \in 0 .. MaxFaults
  BY MishapsBound DEF BootIds, GroupTypeOK, Alive
<1> QED
  BY <1>1 DEF BootIds, GroupTypeOK, hostVars, Causes, Alive

LEMMA DispatchType == ASSUME GroupTypeOK, Dispatch PROVE GroupTypeOK'
<1>1. PICK took \in SUBSET (asked \cap Alive) : \E boots \in SUBSET took : \E gone \in SUBSET boots :
        /\ Mishaps((asked \cap Alive) \ (boots \ gone))
        /\ sent' = took
        /\ booted' = boots
        /\ root' = [h \in Hosts |-> IF h \in boots /\ snap[h].some THEN snap[h].pkgs ELSE root[h]]
        /\ snap' = [h \in Hosts |-> IF h \in boots THEN NoSnap ELSE snap[h]]
        /\ lock' = [h \in Hosts |-> IF h \in boots THEN "free" ELSE lock[h]]
        /\ alive' = [h \in Hosts |-> alive[h] /\ h \notin gone]
        /\ cause' = [h \in Hosts |-> IF h \in asked \ took THEN "undispatched" ELSE "none"]
        /\ UNCHANGED <<asked, oldId, blind, stuck, foreigners>>
  BY DEF Dispatch
<1>2. faults' \in 0 .. MaxFaults
  BY <1>1, MishapsBound DEF GroupTypeOK, Alive
<1>3. snap \in [Hosts -> SnapSet] /\ NoSnap \in SnapSet
  BY DEF GroupTypeOK, SnapSet, NoSnap
<1>4. snap' \in [Hosts -> SnapSet]
  BY <1>1, <1>3
<1>5. root' \in [Hosts -> SUBSET Pkgs]
  BY <1>1, <1>3 DEF GroupTypeOK, SnapSet
<1>6. lock' \in [Hosts -> Locks] /\ alive' \in [Hosts -> BOOLEAN] /\ cause' \in [Hosts -> Causes]
  BY <1>1 DEF GroupTypeOK, Locks, Causes
<1>7. /\ asked' \subseteq Hosts /\ oldId' \subseteq Hosts /\ booted' \subseteq Hosts
      /\ sent' \subseteq Hosts /\ blind' \subseteq Hosts /\ stuck' \subseteq Hosts
      /\ foreigners' \in 0 .. MaxForeign
  BY <1>1 DEF GroupTypeOK, Alive
<1> QED
  BY <1>2, <1>4, <1>5, <1>6, <1>7 DEF GroupTypeOK, SnapSet

LEMMA ReconnectType == ASSUME GroupTypeOK, Reconnect PROVE GroupTypeOK'
<1>1. cause' \in [Hosts -> Causes]
  BY DEF Reconnect, GroupTypeOK, Causes
<1> QED
  BY <1>1 DEF Reconnect, GroupTypeOK, hostVars, envVars

LEMMA VerifyType == ASSUME GroupTypeOK, Verify PROVE GroupTypeOK'
<1>1. faults' \in 0 .. MaxFaults
  BY MishapsBound DEF Verify, GroupTypeOK, Alive
<1>2. cause' \in [Hosts -> Causes]
  BY DEF Verify, GroupTypeOK, Causes
<1> QED
  BY <1>1, <1>2 DEF Verify, GroupTypeOK, hostVars

LEMMA EnvironmentType == ASSUME GroupTypeOK, Environment PROVE GroupTypeOK'
<1>1. PICK h \in Hosts : HostLost(h) \/ HostBack(h) \/ ForeignLock(h) \/ ForeignUnlock(h)
  BY DEF Environment
<1>2. CASE HostLost(h)
  <2>1. faults' \in 0 .. MaxFaults
    BY <1>2, MishapsBound DEF HostLost, GroupTypeOK
  <2> QED
    BY <1>2, <2>1 DEF HostLost, GroupTypeOK, bootVars
<1>3. CASE HostBack(h)
  BY <1>3 DEF HostBack, GroupTypeOK, bootVars, envVars
<1>4. CASE ForeignLock(h)
  BY <1>4, GroupAssumption DEF ForeignLock, GroupTypeOK, bootVars, Locks
<1>5. CASE ForeignUnlock(h)
  BY <1>5 DEF ForeignUnlock, GroupTypeOK, bootVars, envVars, Locks
<1> QED
  BY <1>1, <1>2, <1>3, <1>4, <1>5

LEMMA FanoutOutcome ==
  ASSUME NEW hs, NEW goal, NEW ends, Fanout(hs, goal, ends)
  PROVE  \E o \in [hs -> ends] : \E changed \in SUBSET (hs \cap Alive) :
         \E now \in [changed -> SUBSET Pkgs] :
            /\ \A h \in changed : o[h] # "probe" /\ (op = "update" => h \in repo)
            /\ Outcome(hs, o, changed, now)
<1>1. PICK o \in [hs -> ends] :
        \E changed \in SUBSET {h \in hs \cap Alive : o[h] # "probe" /\ (op = "update" => h \in repo)} :
        \E now \in [changed -> SUBSET Pkgs] : Outcome(hs, o, changed, now)
  BY DEF Fanout
<1>2. PICK changed \in SUBSET {h \in hs \cap Alive : o[h] # "probe" /\ (op = "update" => h \in repo)} :
        \E now \in [changed -> SUBSET Pkgs] : Outcome(hs, o, changed, now)
  BY <1>1
<1> QED
  BY <1>2

LEMMA FanoutType ==
  ASSUME TypeOK, NEW hs \in SUBSET Hosts, NEW goal,
         NEW ends \in SUBSET Ends, Fanout(hs, goal, ends)
  PROVE  /\ GroupTypeOK' /\ out' \in [Hosts -> Ends]
         /\ dealt' \in [Hosts -> {"none", "clean", "broken"}] /\ fresh' \subseteq Hosts
<1>a. PICK o \in [hs -> ends] : \E changed \in SUBSET (hs \cap Alive) :
        \E now \in [changed -> SUBSET Pkgs] :
           /\ \A h \in changed : o[h] # "probe" /\ (op = "update" => h \in repo)
           /\ Outcome(hs, o, changed, now)
  BY FanoutOutcome
<1>b. PICK changed \in SUBSET (hs \cap Alive) : \E now \in [changed -> SUBSET Pkgs] :
         /\ \A h \in changed : o[h] # "probe" /\ (op = "update" => h \in repo)
         /\ Outcome(hs, o, changed, now)
  BY <1>a
<1>1. PICK now \in [changed -> SUBSET Pkgs] :
         /\ \A h \in changed : o[h] # "probe" /\ (op = "update" => h \in repo)
         /\ Outcome(hs, o, changed, now)
  BY <1>b
<1>2. faults' \in 0 .. MaxFaults
  <2>1. {h \in hs \cap Alive : o[h] # "ok"} \in SUBSET Hosts
    OBVIOUS
  <2> QED
    BY <1>1, <2>1, MishapsBound DEF TypeOK, GroupTypeOK, Outcome
<1>3. out' \in [Hosts -> Ends] /\ dealt' \in [Hosts -> {"none", "clean", "broken"}]
  BY <1>1 DEF TypeOK, Outcome
<1>4. root' \in [Hosts -> SUBSET Pkgs]
  BY <1>1 DEF TypeOK, GroupTypeOK, Outcome
<1>5. \A g \in SUBSET Pkgs, b \in BOOLEAN : Snap(g, b) \in SnapSet
  BY DEF Snap, SnapSet
<1>6. snap' \in [Hosts -> SnapSet]
  <2>1. snap \in [Hosts -> SnapSet]
    BY DEF TypeOK, GroupTypeOK, SnapSet
  <2> DEFINE good(h) == o[h] \notin Broken
  <2>2. \A h : good(h) \in BOOLEAN
    OBVIOUS
  <2>3. snap' = [h \in Hosts |-> IF h \in changed \cap Transactional
                                 THEN Snap(now[h], good(h)) ELSE snap[h]]
    BY <1>1 DEF Outcome
  <2> HIDE DEF good
  <2>4. \A h \in changed : now[h] \in SUBSET Pkgs
    BY <1>1 DEF Outcome
  <2>5. \A h \in changed : Snap(now[h], good(h)) \in SnapSet
    BY <1>5, <2>2, <2>4
  <2> QED
    BY <2>1, <2>3, <2>5
<1>7. fresh' \subseteq Hosts
  BY <1>1, GroupAssumption DEF TypeOK, Outcome
<1> QED
  BY <1>1, <1>2, <1>3, <1>4, <1>6, <1>7 DEF TypeOK, GroupTypeOK, bootVars, SnapSet, Outcome

LEMMA QuietType ==
  ASSUME GroupTypeOK, QuietBoot
  PROVE  /\ asked' \subseteq Hosts /\ oldId' \subseteq Hosts /\ booted' \subseteq Hosts
         /\ sent' \subseteq Hosts /\ blind' \subseteq Hosts
         /\ cause' \in [Hosts -> Causes]
BY DEF QuietBoot, GroupTypeOK, Causes

-----------------------------------------------------------------------------
(***************************************************************************)
(* Type correctness.                                                       *)
(***************************************************************************)
CtlType ==
    /\ repo \subseteq Hosts /\ reserved \in BOOLEAN
    /\ given \in 0 .. MaxCommands
    /\ cmd \in CommandNames \cup {"none"} /\ opts \subseteq AllOptions
    /\ op \in Ops /\ cancel \in BOOLEAN /\ patched \in BOOLEAN
    /\ answer \in Results

BodyType ==
    /\ out \in [Hosts -> Ends] /\ dealt \in [Hosts -> {"none", "clean", "broken"}]
    /\ known \in [Hosts -> SUBSET Pkgs] /\ todo \subseteq Pkgs
    /\ able \subseteq Hosts /\ failed \subseteq Hosts /\ reported \subseteq Hosts
    /\ fresh \subseteq Hosts /\ unread \subseteq Hosts
    /\ cut \in BOOLEAN

LEMMA TypeParts ==
  ASSUME GroupTypeOK', CtlType', BodyType', pc' \in Steps, result' \in Results
  PROVE  TypeOK'
BY DEF TypeOK, CtlType, BodyType

LEMMA FollowsType == \A res : Follows(res) \in Ops /\ Follows(res) # "reboot" /\ Follows(res) # "run"
BY DEF Follows, Ops, Prepares, Downgrades

LEMMA ReturnType ==
  ASSUME TypeOK, NEW res \in Results, Return(res)
  PROVE  CtlType' /\ BodyType' /\ pc' \in Steps /\ result' \in Results
<1>1. CtlType'
  BY FollowsType DEF TypeOK, CtlType, Return
<1>2. BodyType'
  BY DEF TypeOK, BodyType, Return, NewBody, Ends
<1>3. pc' \in Steps /\ result' \in Results
  BY DEF Return, Steps
<1> QED
  BY <1>1, <1>2, <1>3

LEMMA BeginType == ASSUME TypeOK, Begin PROVE TypeOK'
<1>1. PICK c \in Commands \ {"assign", "unassign"} : \E o \in Options(c) :
         cmd' = c /\ opts' = o /\ op' = FirstBody(c, o)
  BY DEF Begin
<1>2. c \in CommandNames \ {"assign", "unassign"}
  BY CommandsAssumption
<1>3. PICK o \in Options(c) : cmd' = c /\ opts' = o /\ op' = FirstBody(c, o)
  BY <1>1
<1>4. opts' \subseteq AllOptions
  BY <1>3 DEF Options, AllOptions
<1>5. op' \in Ops
  BY <1>2, <1>3 DEF FirstBody, Ops, CommandNames, Prepares, Downgrades
<1>6. given' \in 0 .. MaxCommands
  BY CommandsAssumption DEF Begin, TypeOK
<1>7. answer' \in Results /\ cmd' \in CommandNames \cup {"none"}
  BY <1>2, <1>3 DEF Begin, Results
<1>8. CtlType'
  BY <1>4, <1>5, <1>6, <1>7 DEF Begin, CtlType, TypeOK
<1>9. pc' \in Steps /\ result' \in Results
  BY DEF Begin, End, Steps, Results
<1>10. GroupTypeOK'
  BY DEF Begin, TypeOK, GroupTypeOK, groupVars, hostVars, bootVars, envVars
<1>11. BodyType'
  BY DEF Begin, TypeOK, BodyType, bodyVars, fanVars
<1> QED
  BY <1>8, <1>9, <1>10, <1>11, TypeParts

LEMMA ReserveType == ASSUME TypeOK, Assign \/ Unassign PROVE TypeOK'
<1>1. Assign => lock' \in [Hosts -> Locks] /\ faults' \in 0 .. MaxFaults
  BY LockWhereType DEF TypeOK, Assign
<1>2. Unassign => lock' \in [Hosts -> Locks] /\ faults' = faults
  BY LocksType DEF TypeOK, GroupTypeOK, Unassign, envVars
<1> QED
  BY <1>1, <1>2 DEF TypeOK, GroupTypeOK, Assign, Unassign, bootVars, envVars, bodyVars, fanVars

LEMMA EnterType == ASSUME TypeOK, Enter PROVE TypeOK'
<1>1. CASE UNCHANGED <<ctlVars, bodyVars>> /\ Goto("lock")
  BY <1>1 DEF TypeOK, GroupTypeOK, Enter, Goto, ctlVars, bodyVars, fanVars, Steps,
              groupVars, hostVars, bootVars, envVars
<1>2. ASSUME NEW res \in Results, Return(res) PROVE TypeOK'
  <2>1. GroupTypeOK'
    BY DEF TypeOK, GroupTypeOK, Enter, groupVars, hostVars, bootVars, envVars
  <2> QED
    BY <1>2, <2>1, ReturnType, TypeParts
<1>3. {"cancelled", "didnotrun", "failed"} \subseteq Results
  BY DEF Results
<1> QED
  BY <1>1, <1>2, <1>3 DEF Enter

LEMMA LockType == ASSUME TypeOK, Lock PROVE TypeOK'
<1>1. LockScope \in SUBSET Hosts
  BY DEF LockScope, TypeOK
<1>2. PICK got \in SUBSET LockScope :
        /\ LockWhere(LockScope, "own", got)
        /\ able' = got
        /\ stuck' = stuck \cup ((LockScope \cap Lockable) \ got)
        /\ Goto(IF got = LockScope THEN AfterLock ELSE "undo")
  BY DEF Lock
<1>3. lock' \in [Hosts -> Locks] /\ faults' \in 0 .. MaxFaults
  BY <1>1, <1>2, LockWhereType DEF TypeOK
<1>4. pc' \in Steps /\ result' = result
  BY <1>2 DEF Goto, Steps, AfterLock
<1>5. able' \subseteq Hosts /\ stuck' \subseteq Hosts
  BY <1>1, <1>2 DEF TypeOK, GroupTypeOK
<1> QED
  BY <1>3, <1>4, <1>5 DEF Lock, TypeOK, GroupTypeOK, ctlVars, bootVars, fanVars

LEMMA UnlockType == ASSUME TypeOK, Undo \/ Unlock PROVE TypeOK'
<1>1. PICK hs \in SUBSET Hosts : UnlockAndNote(hs)
  BY DEF Undo, Unlock, LockScope, TypeOK
<1>2. lock' \in [Hosts -> Locks] /\ stuck' \subseteq Hosts
  BY <1>1, LocksType DEF UnlockAndNote, TypeOK, GroupTypeOK, Locks
<1>3. QuietBoot
  BY DEF Undo, Unlock
<1>4. GroupTypeOK'
  BY <1>2, <1>3, QuietType DEF TypeOK, GroupTypeOK, Undo, Unlock, envVars
<1>5. PICK res \in Results : Return(res)
  BY DEF Undo, Unlock, Contended, Results, TypeOK
<1> QED
  BY <1>4, <1>5, ReturnType, TypeParts

LEMMA RepoType == ASSUME TypeOK, Repo \/ Abandon PROVE TypeOK'
<1>1. PICK missed \in SUBSET Hosts : \E add \in BOOLEAN : SetRepo(add, missed)
  BY DEF Repo, Abandon, RepoAdded
<1>2. faults' \in 0 .. MaxFaults
  BY <1>1, MishapsBound DEF SetRepo, TypeOK, GroupTypeOK
<1>3. repo' \subseteq Hosts
  BY <1>1 DEF SetRepo, TypeOK
<1>4. GroupTypeOK'
  BY <1>1, <1>2 DEF SetRepo, TypeOK, GroupTypeOK, hostVars, bootVars
<1>5. CASE Repo
  <2>1. /\ able' \subseteq Hosts /\ reported' \subseteq Hosts
        /\ pc' \in Steps /\ result' \in Results
    BY <1>5 DEF Repo, TypeOK, End, Goto, Steps, Results
  <2> QED
    BY <1>3, <1>4, <1>5, <2>1 DEF Repo, TypeOK, fanVars
<1>6. CASE Abandon
  BY <1>3, <1>4, <1>6 DEF Abandon, TypeOK, bodyVars, fanVars, Goto, Steps
<1> QED
  BY <1>5, <1>6

\* What a fan-out keeps of the types.
FanType == /\ GroupTypeOK /\ out \in [Hosts -> Ends]
           /\ dealt \in [Hosts -> {"none", "clean", "broken"}] /\ fresh \subseteq Hosts

LEMMA WorkType == ASSUME TypeOK, Work \/ PrepareOne \/ DowngradeOne \/ Stage PROVE TypeOK'
<1>0. /\ BulkEnds \in SUBSET Ends
      /\ {"ok", "noisy", "bad", "marked", "lost"} \in SUBSET Ends
      /\ {"ok", "bad", "lost", "soft"} \in SUBSET Ends
      /\ {"ok", "bad", "lost"} \in SUBSET Ends
  BY DEF BulkEnds, Ends, Prepares
<1>1. \A hs : BrokenNow(hs) \subseteq hs
  BY DEF BrokenNow
<1>2. CASE Work
  <2>1. FanType'
    BY <1>0, <1>2, FanoutType DEF Work, TypeOK, FanType
  <2>2. failed' \subseteq Hosts /\ todo' \subseteq Pkgs /\ patched' \in BOOLEAN /\ repo' \subseteq Hosts
    BY <1>1, <1>2 DEF Work, TypeOK
  <2> QED
    BY <1>2, <2>1, <2>2 DEF Work, TypeOK, FanType, Goto, Steps
<1>3. CASE PrepareOne
  <2>1. PICK p \in todo : \E goal : todo' = todo \ {p} /\
          Fanout(able, goal, {"ok", "noisy", "bad", "marked", "lost"})
    BY <1>3 DEF PrepareOne
  <2>2. FanType'
    BY <1>0, <2>1, FanoutType DEF TypeOK, FanType
  <2>3. failed' \subseteq Hosts /\ todo' \subseteq Pkgs
    BY <1>1, <1>3, <2>1 DEF PrepareOne, TypeOK
  <2> QED
    BY <1>3, <2>2, <2>3 DEF PrepareOne, TypeOK, FanType, Goto, Steps, ctlVars
<1>4. CASE DowngradeOne
  <2>1. PICK p \in todo, hs \in SUBSET Hosts : \E goal :
          /\ todo' = todo \ {p} /\ reported' = reported \cup BrokenNow(hs)
          /\ Fanout(hs, goal, {"ok", "bad", "lost", "soft"})
    <3>1. PICK p \in todo :
            LET hs == {h \in able \ Transactional : p \in known[h]} IN
            /\ todo' = todo \ {p}
            /\ Fanout(hs, [h \in Hosts |-> root[h] \ {p}], {"ok", "bad", "lost", "soft"})
            /\ reported' = reported \cup BrokenNow(hs)
      BY <1>4 DEF DowngradeOne
    <3>2. {h \in able \ Transactional : p \in known[h]} \in SUBSET Hosts
      BY DEF TypeOK
    <3> QED
      BY <3>1, <3>2
  <2>2. FanType'
    BY <1>0, <2>1, FanoutType DEF FanType
  <2>3. reported' \subseteq Hosts /\ todo' \subseteq Pkgs
    BY <1>1, <2>1 DEF TypeOK
  <2> QED
    BY <1>4, <2>2, <2>3 DEF DowngradeOne, TypeOK, FanType, Goto, Steps, ctlVars
<1>5. CASE Stage
  <2>1. able \cap Transactional \in SUBSET Hosts
    BY DEF TypeOK
  <2>2. FanType'
    BY <1>0, <1>5, <2>1, FanoutType DEF Stage, FanType
  <2>3. failed' \subseteq Hosts /\ reported' \subseteq Hosts /\ known' \in [Hosts -> SUBSET Pkgs]
    BY <1>1, <1>5 DEF Stage, TypeOK
  <2> QED
    BY <1>5, <2>2, <2>3 DEF Stage, TypeOK, FanType, Goto, Steps, ctlVars
<1> QED
  BY <1>2, <1>3, <1>4, <1>5

LEMMA ProbeType == ASSUME TypeOK, Probe PROVE TypeOK'
<1>1. PICK dead \in SUBSET Hosts :
        /\ Mishaps(Alive \cap dead)
        /\ reported' = reported \cup dead
        /\ IF dead = Hosts THEN End("unlock", "failed") ELSE Goto("loop")
  BY DEF Probe
<1>2. known' \in [Hosts -> SUBSET Pkgs] /\ able' \subseteq Hosts
  BY DEF Probe
<1>3. faults' \in 0 .. MaxFaults
  BY <1>1, MishapsBound DEF TypeOK, GroupTypeOK, Alive
<1>4. reported' \subseteq Hosts /\ pc' \in Steps /\ result' \in Results
  BY <1>1 DEF TypeOK, End, Goto, Steps, Results
<1> QED
  BY <1>2, <1>3, <1>4 DEF Probe, TypeOK, GroupTypeOK, hostVars, bootVars, ctlVars, fanVars

LEMMA JudgeType == ASSUME TypeOK, Judge PROVE TypeOK'
<1>1. asked' \subseteq Hosts /\ reported' \subseteq Hosts /\ pc' \in Steps /\ result' \in Results
  BY GroupAssumption DEF Judge, JudgePrepare, JudgeDowngrade, JudgeInstall, JudgeUpdate, RebootOr, Reached,
     Goto, End, Steps, Results, TypeOK, GroupTypeOK
<1> QED
  BY <1>1 DEF Judge, TypeOK, GroupTypeOK, hostVars, envVars, ctlVars, fanVars

LEMMA RequeryFacts ==
  ASSUME TypeOK, Settle
  PROVE  /\ unread' \subseteq Hosts
         /\ UNCHANGED faults \/ Mishaps(unread' \cap Alive)
         /\ faults' \in 0 .. MaxFaults
<1>1. unread' \subseteq Hosts /\ (UNCHANGED faults \/ Mishaps(unread' \cap Alive))
  BY DEF Settle, SettlePrepare, SettleDowngrade, SettleUpdate, SettleInstall, Requery, TypeOK
<1>2. unread' \cap Alive \in SUBSET Hosts
  BY DEF Alive
<1> QED
  BY <1>1, <1>2, MishapsBound DEF TypeOK, GroupTypeOK

LEMMA SettleType == ASSUME TypeOK, Settle PROVE TypeOK'
<1>1. pc' \in Steps /\ result' \in Results
  BY DEF Settle, SettlePrepare, SettleDowngrade, SettleUpdate, SettleInstall, End, Steps, Results
<1> QED
  BY <1>1, RequeryFacts DEF Settle, TypeOK, GroupTypeOK, hostVars, bootVars, ctlVars, fanVars

LEMMA RebootType == ASSUME TypeOK, Reboot PROVE TypeOK'
<1>1. GroupTypeOK'
  BY BootIdsType, DispatchType, ReconnectType, VerifyType DEF Reboot, TypeOK
<1> QED
  BY <1>1 DEF Reboot, TypeOK, Goto, Steps, ctlVars, bodyVars, fanVars

LEMMA RebootDoneType == ASSUME TypeOK, Relock \/ RebootDone PROVE TypeOK'
<1>1. CASE Relock
  <2>1. asked \in SUBSET Hosts
    BY DEF TypeOK, GroupTypeOK
  <2>2. lock' \in [Hosts -> Locks] /\ faults' \in 0 .. MaxFaults
    BY <1>1, <2>1, LockWhereType DEF Relock, TypeOK, GroupTypeOK
  <2> QED
    BY <1>1, <2>2 DEF Relock, TypeOK, GroupTypeOK, Goto, Steps, bootVars, ctlVars, bodyVars, fanVars
<1>2. CASE RebootDone
  <2>1. GroupTypeOK'
    BY <1>2, QuietType DEF RebootDone, TypeOK, GroupTypeOK, hostVars, envVars
  <2>2. PICK res \in Results : Return(res)
    BY <1>2 DEF RebootDone, Results
  <2> QED
    BY <2>1, <2>2, ReturnType, TypeParts
<1> QED
  BY <1>1, <1>2

LEMMA SmallType ==
  ASSUME TypeOK, Cancel \/ EnterSelected \/ Gate \/ RunCommand \/ LoopEnds \/ UNCHANGED vars
  PROVE  TypeOK'
<1>1. CASE Cancel
  BY <1>1 DEF Cancel, TypeOK, GroupTypeOK, groupVars, hostVars, bootVars, envVars, bodyVars, fanVars
<1>2. CASE EnterSelected
  BY <1>2 DEF EnterSelected, TypeOK, GroupTypeOK, hostVars, envVars, ctlVars, fanVars, Goto, Steps
<1>3. CASE Gate \/ RunCommand \/ LoopEnds
  <2>1. pc' \in Steps /\ result' \in Results /\ cut' \in BOOLEAN
    BY <1>3 DEF Gate, RunCommand, LoopEnds, AfterLoop, Goto, End, Steps, Results, bodyVars, TypeOK
  <2>2. UNCHANGED <<groupVars, ctlVars, fanVars, todo, known, able, failed, reported, unread>>
    BY <1>3 DEF Gate, RunCommand, LoopEnds, bodyVars
  <2> QED
    BY <2>1, <2>2 DEF TypeOK, GroupTypeOK, groupVars, hostVars, bootVars, envVars, ctlVars, fanVars
<1>4. CASE UNCHANGED vars
  BY <1>4 DEF vars, flowVars, bodyVars, fanVars, TypeOK, GroupTypeOK, groupVars, hostVars, bootVars, envVars
<1> QED
  BY <1>1, <1>2, <1>3, <1>4

LEMMA EnvType == ASSUME TypeOK, Environment, UNCHANGED flowVars PROVE TypeOK'
BY EnvironmentType DEF TypeOK, flowVars, bodyVars, fanVars

LEMMA TypeStep == TypeOK /\ [Next]_vars => TypeOK'
<1> SUFFICES ASSUME TypeOK, [Next]_vars PROVE TypeOK'
  OBVIOUS
<1> QED
  BY BeginType, ReserveType, EnterType, LockType, UnlockType, RepoType, WorkType, ProbeType,
     JudgeType, SettleType, RebootType, RebootDoneType, SmallType, EnvType DEF Next, Flow

LEMMA InitType == Init => TypeOK
<1> SUFFICES ASSUME Init PROVE TypeOK
  OBVIOUS
<1>1. {NoSnap, Snap(Pkgs, FALSE)} \subseteq SnapSet
  BY DEF NoSnap, Snap, SnapSet
<1>4. given \in 0 .. MaxCommands
  BY CommandsAssumption DEF Init
<1>5. op \in Ops /\ pc \in Steps /\ result \in Results /\ answer \in Results
  BY DEF Init, Ops, Steps, Results
<1>6. BodyType
  BY DEF Init, Ends, BodyType
<1>2. snap \in [Hosts -> SnapSet]
  BY <1>1 DEF Init, GroupInit
<1>3. GroupTypeOK
  BY <1>2, GroupAssumption DEF Init, GroupInit, GroupTypeOK, SnapSet, Locks, Causes
<1> QED
  BY <1>3, <1>4, <1>5, <1>6 DEF Init, TypeOK, BodyType

\* The state of the commands keeps its type.
THEOREM TypeCorrect == Spec => []TypeOK
<1>1. Init => TypeOK
  BY InitType
<1>2. TypeOK /\ [Next]_vars => TypeOK'
  BY TypeStep
<1> QED
  BY <1>1, <1>2, PTL DEF Spec

-----------------------------------------------------------------------------
(***************************************************************************)
(* Which bodies take which steps.                                          *)
(***************************************************************************)
Control ==
    /\ op = "run" => pc \in {"enter", "lock", "undo", "work", "unlock"}
    /\ op = "reboot" => pc \in {"enter", "ids", "dispatch", "reconnect", "verify",
                                "relock", "rebooted"}
    /\ pc \in {"gate", "abandon"} => op = "update"
    /\ pc = "abandon" => result \in {"cancelled", "missing"}
    /\ pc \in {"probe", "stage"} => op \in Downgrades
    /\ pc = "loop" => op \in Prepares \cup Downgrades
    /\ pc = "work" => op \notin Downgrades
    /\ op = "sweep" => pc \in {"idle", "enter", "lock", "undo", "repo", "unlock"}

LEMMA ReturnFacts ==
  ASSUME NEW res, Return(res)
  PROVE  /\ pc' \in {"idle", "enter"} /\ op' = Follows(res) /\ op' \notin {"run", "reboot"}
         /\ result' = res /\ cut' = FALSE
         /\ repo' = repo /\ patched' = patched /\ cmd' = cmd
         /\ answer' = IF op \in Afterwards \/ Follows(res) = "update" THEN answer ELSE res
BY FollowsType DEF Return, NewBody

LEMMA ControlStep == ASSUME Control, [Next]_vars PROVE Control'
<1>1. ASSUME NEW res, Return(res) PROVE Control'
  BY <1>1, ReturnFacts DEF Control
<1>2. CASE Begin
  BY <1>2 DEF Begin, End, Control
<1>3. CASE Assign \/ Unassign \/ Cancel \/ UNCHANGED flowVars \/ UNCHANGED vars
  BY <1>3 DEF Assign, Unassign, Cancel, flowVars, vars, Control
<1>4. CASE Enter \/ EnterSelected
  BY <1>1, <1>4 DEF Enter, EnterSelected, Goto, ctlVars, Control
<1>5. CASE Lock \/ Undo \/ Unlock
  BY <1>1, <1>5 DEF Lock, Undo, Unlock, AfterLock, Goto, ctlVars, Control, Downgrades
<1>6. CASE Gate \/ Abandon \/ Work \/ RunCommand \/ Probe
  BY <1>6 DEF Gate, Abandon, Work, RunCommand, Probe, Goto, End, ctlVars, Control,
              Prepares, Downgrades
<1>10. CASE Repo
  <2>1. op' = op /\ op \notin {"run", "reboot"} /\ pc' \notin {"abandon", "stage"}
    BY <1>10 DEF Repo, Goto, End, Control
  <2>2. /\ pc' = "gate" => op = "update"
        /\ pc' = "probe" => op \in Downgrades
        /\ pc' \in {"loop", "work"} => op \in Prepares
        /\ pc' \in {"gate", "probe", "loop", "work", "unlock"}
    BY <1>10 DEF Repo, Goto, End
  <2> QED
    BY <2>1, <2>2 DEF Control, Prepares, Downgrades
<1>7. CASE LoopEnds \/ PrepareOne \/ DowngradeOne \/ Stage
  BY <1>7 DEF LoopEnds, PrepareOne, DowngradeOne, Stage, AfterLoop, Goto, ctlVars, Control,
              Prepares, Downgrades
<1>8. CASE Judge \/ Settle
  BY <1>8 DEF Judge, JudgePrepare, JudgeDowngrade, JudgeInstall, JudgeUpdate, RebootOr,
              Settle, SettlePrepare, SettleDowngrade, SettleUpdate, SettleInstall,
              Goto, End, ctlVars, Control, Prepares, Downgrades
<1>9. CASE Reboot \/ Relock \/ RebootDone
  BY <1>1, <1>9 DEF Reboot, Relock, RebootDone, Goto, ctlVars, Control
<1> QED
  BY <1>2, <1>3, <1>4, <1>5, <1>6, <1>7, <1>8, <1>9, <1>10 DEF Next, Flow

LEMMA ControlCorrect == Spec => []Control
<1>1. Init => Control
  BY DEF Init, Control
<1>2. Control /\ [Next]_vars => Control'
  BY ControlStep
<1> QED
  BY <1>1, <1>2, PTL DEF Spec

-----------------------------------------------------------------------------
(***************************************************************************)
(* The group changes only under its lock.  From the moment update_lock     *)
(* succeeds, every line is the session's until a host reboots or the body  *)
(* unlocks: others take only free locks.                                   *)
(***************************************************************************)
UnderLock == {"repo", "gate", "abandon", "work", "probe", "loop", "stage", "judge", "ids",
              "dispatch"}

Held == pc \in UnderLock /\ op \notin {"run", "reboot"} => \A h \in Hosts : lock[h] = "own"

LEMMA FanoutKeeps ==
  ASSUME NEW hs, NEW goal, NEW ends, Fanout(hs, goal, ends)
  PROVE  UNCHANGED <<alive, lock, bootVars, stuck, foreigners>>
BY FanoutOutcome DEF Outcome

LEMMA WorkKeeps ==
  ASSUME Work \/ PrepareOne \/ DowngradeOne \/ Stage
  PROVE  UNCHANGED <<alive, lock, bootVars, stuck, foreigners>>
<1>1. PICK hs, goal, ends : Fanout(hs, goal, ends)
  BY DEF Work, PrepareOne, DowngradeOne, Stage
<1> QED
  BY <1>1, FanoutKeeps

LEMMA RepoKeeps ==
  ASSUME Repo \/ Abandon
  PROVE  UNCHANGED <<hostVars, bootVars, stuck, foreigners>>
BY DEF Repo, Abandon, SetRepo

LEMMA HeldStep == ASSUME TypeOK, Control, Held, [Next]_vars PROVE Held'
<1>1. ASSUME pc' \notin UnderLock PROVE Held'
  BY <1>1 DEF Held
<1>2. ASSUME NEW res, Return(res) PROVE Held'
  BY <1>1, <1>2, ReturnFacts DEF UnderLock
<1>3. ASSUME UNCHANGED <<lock, op>>, pc \in UnderLock PROVE Held'
  BY <1>3 DEF Held
<1>4. CASE Begin \/ Assign \/ Unassign
  BY <1>1, <1>4 DEF Begin, Assign, Unassign, End, UnderLock
<1>5. CASE Cancel \/ UNCHANGED vars
  BY <1>5 DEF Cancel, groupVars, hostVars, vars, flowVars, Held
<1>6. CASE Environment /\ UNCHANGED flowVars
  <2>1. \A h \in Hosts : lock[h] = "own" => lock'[h] = "own"
    BY <1>6 DEF Environment, HostLost, HostBack, ForeignLock, ForeignUnlock, TypeOK, GroupTypeOK
  <2> QED
    BY <1>6, <2>1 DEF flowVars, Held
<1>7. CASE Enter \/ EnterSelected
  BY <1>1, <1>2, <1>7 DEF Enter, EnterSelected, Goto, ctlVars, Held, UnderLock
<1>8. CASE Lock
  <2>1. PICK got \in SUBSET LockScope :
          LockWhere(LockScope, "own", got) /\ Goto(IF got = LockScope THEN AfterLock ELSE "undo")
    BY <1>8 DEF Lock
  <2>2. op' = op
    BY <1>8 DEF Lock, ctlVars
  <2>3. CASE op = "run" \/ got # LockScope
    BY <1>1, <2>1, <2>2, <2>3 DEF Goto, Held, UnderLock
  <2>4. CASE op # "run" /\ got = LockScope
    BY <2>1, <2>4, LockWhereFacts DEF LockScope, Held
  <2> QED
    BY <2>3, <2>4
<1>9. CASE Undo \/ Unlock \/ RebootDone
  BY <1>2, <1>9 DEF Undo, Unlock, RebootDone
<1>10. CASE Repo \/ Gate \/ Abandon \/ RunCommand \/ Probe \/ LoopEnds
  BY <1>3, <1>10, RepoKeeps DEF Repo, Gate, Abandon, RunCommand, Probe, LoopEnds, ctlVars,
     groupVars, hostVars, UnderLock
<1>11. CASE Work \/ PrepareOne \/ DowngradeOne \/ Stage
  BY <1>3, <1>11, WorkKeeps DEF Work, PrepareOne, DowngradeOne, Stage, ctlVars, UnderLock
<1>12. CASE Judge
  BY <1>3, <1>12 DEF Judge, ctlVars, hostVars, UnderLock
<1>13. CASE Reboot \/ Relock \/ Settle
  <2>1. CASE pc = "ids"
    BY <1>3, <1>13, <2>1 DEF Reboot, Relock, Settle, BootIds, ctlVars, hostVars, UnderLock
  <2>2. CASE pc # "ids"
    BY <1>1, <1>13, <2>2 DEF Reboot, Relock, Settle, SettlePrepare, SettleDowngrade, SettleUpdate,
       SettleInstall, Goto, End, UnderLock
  <2> QED
    BY <2>1, <2>2
<1> QED
  BY <1>4, <1>5, <1>6, <1>7, <1>8, <1>9, <1>10, <1>11, <1>12, <1>13 DEF Next, Flow

LEMMA HeldCorrect == Spec => [](TypeOK /\ Control /\ Held)
<1>1. Init => Held
  BY DEF Init, Held, UnderLock
<1>2. TypeOK /\ Control /\ Held /\ [Next]_vars => Held'
  BY HeldStep
<1> QED
  BY <1>1, <1>2, TypeCorrect, ControlCorrect, PTL DEF Spec

LEMMA ChangeNeedsLock ==
  ASSUME TypeOK, Control, Held, [Next]_vars, root' # root \/ snap' # snap, op # "reboot"
  PROVE  \A h \in Hosts : lock[h] = "own"
<1>1. ASSUME pc \in UnderLock, op # "run" PROVE \A h \in Hosts : lock[h] = "own"
  BY <1>1 DEF Held
<1>2. CASE Work \/ PrepareOne \/ DowngradeOne \/ Stage
  BY <1>1, <1>2 DEF Work, PrepareOne, DowngradeOne, Stage, UnderLock, Control, Prepares, Downgrades
<1>3. CASE Reboot
  BY <1>1, <1>3 DEF Reboot, BootIds, Reconnect, Verify, hostVars, UnderLock, Control
<1>4. CASE Begin \/ Assign \/ Unassign \/ Cancel \/ UNCHANGED vars \/ Environment
  BY <1>4 DEF Begin, Assign, Unassign, Cancel, Environment, HostLost, HostBack, ForeignLock,
     ForeignUnlock, vars, groupVars, hostVars
<1>5. CASE \/ Enter \/ EnterSelected \/ Lock \/ Undo \/ Unlock \/ Repo \/ Gate \/ Abandon
           \/ RunCommand \/ Probe \/ LoopEnds \/ Judge \/ Relock \/ RebootDone \/ Settle
  BY <1>5, RepoKeeps DEF Enter, EnterSelected, Lock, Undo, Unlock, Gate, RunCommand, Probe,
     LoopEnds, Judge, Relock, RebootDone, Settle, groupVars, hostVars
<1> QED
  BY <1>2, <1>3, <1>4, <1>5 DEF Next, Flow

\* No body but the reboot command changes a host, or stages a change on it,
\* unless the session holds the operation lock on every host of the group.
THEOREM ChangedUnderLock == Spec => ChangesUnderLock
<1>1. TypeOK /\ Control /\ Held /\ [Next]_vars =>
        [(root' # root \/ snap' # snap) /\ op # "reboot" => \A h \in Hosts : lock[h] = "own"]_vars
  BY ChangeNeedsLock
<1> QED
  BY <1>1, HeldCorrect, PTL DEF Spec, ChangesUnderLock

-----------------------------------------------------------------------------
(***************************************************************************)
(* What is left behind.  Outside the locked part of a body, and on hosts   *)
(* a run does not work on, a line of the session is one an unlock missed.  *)
(***************************************************************************)
LockedSteps == UnderLock \cup {"undo", "reconnect", "verify", "settle", "unlock"}

Accounted(h) == h \in stuck \/ (pc \in LockedSteps /\ op # "reboot" /\ (op = "run" => h \in able))

Noted == \A h \in Hosts : lock[h] = "own" => Accounted(h)

LEMMA NotedStep == ASSUME TypeOK, Control, Noted, [Next]_vars PROVE Noted'
<1>1. ASSUME UNCHANGED <<lock, stuck>>, pc' \in LockedSteps, op' \notin {"run", "reboot"}
      PROVE  Noted'
  BY <1>1 DEF Noted, Accounted
<1>2. ASSUME UNCHANGED <<stuck, pc, op, able>>,
             \A h \in Hosts : lock'[h] = "own" => lock[h] = "own"
      PROVE  Noted'
  BY <1>2 DEF Noted, Accounted
<1>3. ASSUME UNCHANGED stuck, pc \notin LockedSteps \/ op = "reboot",
             \A h \in Hosts : lock'[h] = "own" => lock[h] = "own"
      PROVE  Noted'
  BY <1>3 DEF Noted, Accounted
<1>4. CASE Begin \/ Cancel \/ UNCHANGED vars
  BY <1>2, <1>3, <1>4 DEF Begin, Cancel, vars, flowVars, bodyVars, groupVars, hostVars,
     LockedSteps, UnderLock
<1>5. CASE Assign \/ Unassign
  <2>1. \A h \in Hosts : lock'[h] = "own" => lock[h] = "own"
    BY <1>5, LockWhereFacts DEF Assign, Unassign, UnlockWhere
  <2> QED
    BY <1>3, <1>5, <2>1 DEF Assign, Unassign, LockedSteps, UnderLock
<1>6. CASE Environment /\ UNCHANGED flowVars
  <2>1. \A h \in Hosts : lock'[h] = "own" => lock[h] = "own"
    BY <1>6 DEF Environment, HostLost, HostBack, ForeignLock, ForeignUnlock, TypeOK, GroupTypeOK
  <2>2. UNCHANGED <<stuck, pc, op, able>>
    BY <1>6 DEF Environment, HostLost, HostBack, ForeignLock, ForeignUnlock, flowVars, bodyVars
  <2> QED
    BY <1>2, <2>1, <2>2
<1>7. CASE Enter \/ EnterSelected
  BY <1>3, <1>7 DEF Enter, EnterSelected, groupVars, hostVars, LockedSteps, UnderLock
<1>8. CASE Lock
  <2>1. \A h \in Hosts : lock[h] = "own" => h \in stuck
    BY <1>8 DEF Lock, Noted, Accounted, LockedSteps, UnderLock
  <2>2. PICK got : /\ LockWhere(LockScope, "own", got) /\ able' = got
                    /\ stuck' = stuck \cup ((LockScope \cap Lockable) \ got)
    BY <1>8 DEF Lock
  <2>3. \A h \in Hosts : lock'[h] = "own" => lock[h] = "own" \/ h \in able' \/ h \in stuck'
    BY <2>2, LockWhereFacts
  <2>4. op # "reboot" /\ op' = op /\ pc' \in LockedSteps
    BY <1>8 DEF Lock, Goto, AfterLock, ctlVars, LockedSteps, UnderLock, Control
  <2> QED
    BY <2>1, <2>2, <2>3, <2>4 DEF Noted, Accounted
<1>9. CASE Undo \/ Unlock
  <2>1. PICK hs : UnlockAndNote(hs) /\ hs = LockScope
    BY <1>9 DEF Undo, Unlock, LockScope
  <2>2. \A h \in Hosts : lock'[h] = "own" => lock[h] = "own" /\ h \notin hs \cap Alive
    BY <2>1 DEF UnlockAndNote, UnlockWhere, Mine
  <2>3. \A h \in Hosts : h \in hs \ Alive => h \in stuck'
    BY <2>1 DEF UnlockAndNote
  <2>4. \A h \in Hosts : h \in stuck /\ h \notin hs \cap Alive => h \in stuck'
    BY <2>1 DEF UnlockAndNote
  <2>5. \A h \in Hosts : lock[h] = "own" => h \in stuck \/ h \in hs
    BY <2>1 DEF Noted, Accounted, LockScope
  <2> QED
    BY <2>2, <2>3, <2>4, <2>5 DEF Noted, Accounted
<1>10. CASE Repo \/ Gate \/ Abandon \/ Probe \/ LoopEnds
  <2>1. UNCHANGED <<lock, stuck, op>>
    BY <1>10, RepoKeeps DEF Repo, Gate, Abandon, Probe, LoopEnds, ctlVars, groupVars, hostVars
  <2>2. op \notin {"run", "reboot"} /\ pc' \in LockedSteps
    BY <1>10 DEF Control, Repo, Gate, Abandon, Probe, LoopEnds, AfterLoop, Goto, End,
       LockedSteps, UnderLock
  <2> QED
    BY <1>1, <2>1, <2>2
<1>11. CASE RunCommand
  BY <1>11 DEF RunCommand, End, ctlVars, bodyVars, groupVars, hostVars, Noted, Accounted,
     LockedSteps, UnderLock
<1>12. CASE Work \/ PrepareOne \/ DowngradeOne \/ Stage
  <2>1. op \notin {"run", "reboot"} /\ op' = op /\ pc' \in LockedSteps
    BY <1>12 DEF Control, Work, PrepareOne, DowngradeOne, Stage, Goto, ctlVars, LockedSteps,
       UnderLock
  <2> QED
    BY <1>1, <1>12, <2>1, WorkKeeps
<1>13. CASE Judge \/ Settle
  <2>1. op \notin {"run", "reboot"} /\ op' = op /\ UNCHANGED <<lock, stuck>>
    BY <1>13 DEF Control, Judge, Settle, ctlVars, hostVars
  <2>2. pc' \in LockedSteps
    BY <1>13 DEF Judge, JudgePrepare, JudgeDowngrade, JudgeInstall, JudgeUpdate, RebootOr,
       Settle, SettlePrepare, SettleDowngrade, SettleUpdate, SettleInstall, Goto, End,
       LockedSteps, UnderLock
  <2> QED
    BY <1>1, <2>1, <2>2
<1>14. CASE Reboot
  <2>1. \A h \in Hosts : lock'[h] = "own" => lock[h] = "own"
    BY <1>14 DEF Reboot, BootIds, Dispatch, Reconnect, Verify, hostVars
  <2>2. op' = op /\ op # "run" /\ stuck' = stuck
    BY <1>14 DEF Reboot, BootIds, Dispatch, Reconnect, Verify, ctlVars, Control
  <2>3. op # "reboot" => pc \in LockedSteps /\ pc' \in LockedSteps
    BY <1>14 DEF Reboot, Goto, LockedSteps, UnderLock
  <2>4. CASE op = "reboot"
    BY <1>3, <2>1, <2>2, <2>4
  <2>5. CASE op # "reboot"
    BY <2>1, <2>2, <2>3, <2>5 DEF Noted, Accounted
  <2> QED
    BY <2>4, <2>5
<1>15. CASE Relock \/ RebootDone
  <2>1. \A h \in Hosts : lock'[h] = "own" => lock[h] = "own"
    BY <1>15, LockWhereFacts DEF Relock, RebootDone, hostVars
  <2> QED
    BY <1>3, <1>15, <2>1 DEF Relock, RebootDone, LockedSteps, UnderLock
<1> QED
  BY <1>4, <1>5, <1>6, <1>7, <1>8, <1>9, <1>10, <1>11, <1>12, <1>13, <1>14, <1>15 DEF Next, Flow

\* Between commands a host keeps the session's operation lock only if the
\* unlock could not reach it.
THEOREM LeftLocksNoted == Spec => []LockLeftIsNoted
<1>1. Init => Noted
  BY DEF Init, GroupInit, Noted
<1>2. TypeOK /\ Control /\ Noted /\ [Next]_vars => Noted'
  BY NotedStep
<1>3. Noted => LockLeftIsNoted
  BY DEF Noted, Accounted, LockedSteps, UnderLock, LockLeftIsNoted
<1> QED
  BY <1>1, <1>2, <1>3, TypeCorrect, ControlCorrect, PTL DEF Spec

-----------------------------------------------------------------------------
(***************************************************************************)
(* Cancelling an update.                                                   *)
(***************************************************************************)
LEMMA NotCutStep == ASSUME Control, RollbackNotCut, [Next]_vars PROVE RollbackNotCut'
<1>1. ASSUME NEW res, Return(res) PROVE RollbackNotCut'
  BY <1>1, ReturnFacts DEF RollbackNotCut, Follows
<1>2. ASSUME UNCHANGED <<op, cut, result>> PROVE RollbackNotCut'
  BY <1>2 DEF RollbackNotCut
<1>3. ASSUME op' # "rollback" PROVE RollbackNotCut'
  BY <1>3 DEF RollbackNotCut
<1>4. CASE Begin \/ Assign \/ Unassign \/ Cancel \/ UNCHANGED flowVars \/ UNCHANGED vars
  <2>1. Begin => op' # "rollback"
    BY CommandsAssumption DEF Begin, FirstBody, CommandNames
  <2> QED
    BY <1>2, <1>3, <1>4, <2>1 DEF Assign, Unassign, Cancel, flowVars, bodyVars, vars
<1>5. CASE Enter \/ EnterSelected \/ Lock \/ Undo \/ Unlock \/ RebootDone
  BY <1>1, <1>2, <1>5 DEF Enter, EnterSelected, Lock, Undo, Unlock, RebootDone, Goto, ctlVars, bodyVars
<1>6. CASE Repo \/ Probe
  BY <1>6 DEF Repo, Probe, Goto, End, ctlVars, RollbackNotCut, Prepares
<1>7. CASE Gate \/ Abandon \/ RunCommand
  BY <1>3, <1>7 DEF Gate, Abandon, RunCommand, Control, ctlVars
<1>8. CASE Work \/ PrepareOne \/ DowngradeOne \/ Stage \/ Reboot \/ Relock
  BY <1>2, <1>8 DEF Work, PrepareOne, DowngradeOne, Stage, Reboot, Relock, Goto, ctlVars, bodyVars
<1>9. CASE LoopEnds
  BY <1>9 DEF LoopEnds, Interrupted, Goto, ctlVars, RollbackNotCut
<1>10. CASE Judge \/ Settle
  BY <1>10 DEF Judge, JudgePrepare, JudgeDowngrade, JudgeInstall, JudgeUpdate, RebootOr,
     Settle, SettlePrepare, SettleDowngrade, SettleUpdate, SettleInstall, Goto, End, ctlVars,
     bodyVars, RollbackNotCut
<1> QED
  BY <1>4, <1>5, <1>6, <1>7, <1>8, <1>9, <1>10 DEF Next, Flow

\* A rollback runs to its end, whenever its update was cancelled.
THEOREM RollbacksNotCut == Spec => []RollbackNotCut
<1>1. Init => RollbackNotCut
  BY DEF Init, RollbackNotCut
<1>2. Control /\ RollbackNotCut /\ [Next]_vars => RollbackNotCut'
  BY NotCutStep
<1> QED
  BY <1>1, <1>2, ControlCorrect, PTL DEF Spec

Aborts == {"cancelled", "didnotrun", "missing"}

\* Up to the dispatch an update carries the verdict of the body before it;
\* from the dispatch on, no verdict that says nothing was patched is left.
Dispatched ==
    /\ op = "update" /\ pc \in {"enter", "lock", "repo", "gate", "work"} => result \notin Aborts
    /\ patched =>
         \/ /\ op = "update" /\ result \notin Aborts
            /\ pc \in {"judge", "ids", "dispatch", "reconnect", "verify", "settle", "unlock"}
         \/ op \in Afterwards /\ answer \notin Aborts
         \/ pc = "idle" /\ answer \notin Aborts

LEMMA DispatchedStep == ASSUME Control, Dispatched, [Next]_vars PROVE Dispatched'
<1>1. ASSUME UNCHANGED <<op, pc, result, answer, patched>> PROVE Dispatched'
  BY <1>1 DEF Dispatched
<1>2. ASSUME NEW res, Return(res), pc # "idle", patched /\ op = "update" => res \notin Aborts
      PROVE  Dispatched'
  <2>1. op' = "update" => res \in {"ok", "reported"} /\ op = "first"
    BY <1>2, ReturnFacts DEF Follows
  <2>2. op' = "update" => result' \notin Aborts
    BY <1>2, <2>1, ReturnFacts DEF Aborts
  <2>3. ASSUME patched' PROVE Dispatched'
    <3>1. CASE op = "update" /\ res \notin Aborts
      BY <1>2, <3>1, ReturnFacts DEF Dispatched, Return, Follows, Afterwards, Aborts
    <3>2. CASE op \in Afterwards /\ answer \notin Aborts
      BY <1>2, <3>2, ReturnFacts DEF Dispatched, Return, Follows, Afterwards, Aborts
    <3> QED
      BY <1>2, <2>3, <3>1, <3>2, ReturnFacts DEF Dispatched
  <2> QED
    BY <1>2, <2>2, <2>3, ReturnFacts DEF Dispatched
<1>3. CASE Begin
  BY <1>3 DEF Begin, End, Dispatched, Aborts
<1>4. CASE Assign \/ Unassign \/ Cancel \/ UNCHANGED flowVars \/ UNCHANGED vars
  BY <1>1, <1>4 DEF Assign, Unassign, Cancel, flowVars, vars
<1>5. CASE Enter
  <2>1. op # "update" => ~patched \/ op \in Afterwards
    BY <1>5 DEF Enter, Dispatched
  <2>2. op = "update" => ~patched
    BY <1>5 DEF Enter, Dispatched, Afterwards
  <2>3. ASSUME NEW res, Return(res) PROVE Dispatched'
    BY <1>2, <1>5, <2>2, <2>3 DEF Enter
  <2>4. CASE Goto("lock") /\ UNCHANGED <<ctlVars, bodyVars>>
    BY <1>5, <2>4 DEF Enter, Goto, ctlVars, Dispatched
  <2> QED
    BY <1>5, <2>3, <2>4 DEF Enter
<1>6. CASE EnterSelected \/ Lock
  BY <1>6 DEF EnterSelected, Lock, AfterLock, Goto, ctlVars, Dispatched
<1>7. CASE Undo \/ Unlock \/ RebootDone
  <2>1. PICK res : Return(res) /\ (pc = "unlock" => res = result)
    BY <1>7 DEF Undo, Unlock, RebootDone
  <2>2. pc # "idle"
    BY <1>7 DEF Undo, Unlock, RebootDone
  <2>3. patched /\ op = "update" => pc = "unlock" /\ result \notin Aborts
    BY <1>7 DEF Undo, Unlock, RebootDone, Dispatched, Afterwards
  <2> QED
    BY <1>2, <2>1, <2>2, <2>3
<1>8. CASE Repo \/ Probe \/ Abandon
  <2>1. UNCHANGED <<op, answer, patched>> /\ pc \in {"repo", "probe", "abandon"}
    BY <1>8 DEF Repo, Probe, Abandon, ctlVars
  <2>2. op = "update" => result' = result /\ pc' \in {"gate", "unlock"} /\ (pc' = "gate" => pc = "repo")
    BY <1>8 DEF Repo, Probe, Abandon, Goto, End, Control, Prepares, Downgrades
  <2> QED
    BY <2>1, <2>2 DEF Dispatched
<1>9. CASE Gate
  BY <1>9 DEF Gate, Goto, End, ctlVars, Dispatched, Control, Afterwards
<1>10. CASE Work
  BY <1>10 DEF Work, Goto, Dispatched, Afterwards
<1>11. CASE RunCommand \/ LoopEnds \/ PrepareOne \/ DowngradeOne \/ Stage \/ Relock
  <2>1. op # "update" \/ pc = "relock"
    BY <1>11 DEF RunCommand, LoopEnds, PrepareOne, DowngradeOne, Stage, Relock, Control,
       Prepares, Downgrades
  <2>2. pc # "idle" /\ UNCHANGED <<op, answer, patched>> /\ (pc = "relock" => pc' = "rebooted")
    BY <1>11 DEF RunCommand, LoopEnds, PrepareOne, DowngradeOne, Stage, Relock, Goto, ctlVars
  <2> QED
    BY <2>1, <2>2 DEF Dispatched
<1>12. CASE Judge
  BY <1>12 DEF Judge, JudgePrepare, JudgeDowngrade, JudgeInstall, JudgeUpdate, RebootOr, Goto, End,
     ctlVars, Dispatched, Aborts, Prepares, Downgrades
<1>13. CASE Reboot
  BY <1>13 DEF Reboot, Goto, ctlVars, Dispatched
<1>14. CASE Settle
  BY <1>14 DEF Settle, SettlePrepare, SettleDowngrade, SettleUpdate, SettleInstall, Goto, End,
     ctlVars, Dispatched, Aborts, Prepares, Downgrades
<1> QED
  BY <1>3, <1>4, <1>5, <1>6, <1>7, <1>8, <1>9, <1>10, <1>11, <1>12, <1>13, <1>14 DEF Next, Flow

\* As long as nothing went wrong at the hosts, all of them answer, and an
\* update that unlocks after an abort has taken the repository away.
Untroubled ==
    faults = 0 =>
        /\ Alive = Hosts
        /\ pc = "unlock" /\ op = "update" /\ result \in {"cancelled", "missing"} => repo = {}

LEMMA SetRepoFacts ==
  ASSUME TypeOK, NEW add, NEW missed \in SUBSET Hosts, SetRepo(add, missed), faults' = 0
  PROVE  faults = 0 /\ (Alive = Hosts => missed = {})
<1>1. Mishaps(missed \cap Alive) /\ faults \in 0 .. MaxFaults
  BY DEF SetRepo, TypeOK, GroupTypeOK
<1>2. missed \cap Alive \in SUBSET Hosts
  OBVIOUS
<1>3. faults = 0 /\ missed \cap Alive = {}
  BY <1>1, <1>2, MishapsBound
<1> QED
  BY <1>3

LEMMA NoTrouble ==
  ASSUME TypeOK, NEW hs \in SUBSET Hosts, Mishaps(hs), faults' = 0
  PROVE  faults = 0 /\ hs = {}
<1>1. faults \in 0 .. MaxFaults
  BY DEF TypeOK, GroupTypeOK
<1> QED
  BY <1>1, MishapsBound

LEMMA FanoutTrouble ==
  ASSUME TypeOK, NEW hs \in SUBSET Hosts, NEW goal, NEW ends, Fanout(hs, goal, ends), faults' = 0
  PROVE  faults = 0
<1>1. PICK o \in [hs -> ends] : Mishaps({h \in hs \cap Alive : o[h] # "ok"})
  BY FanoutOutcome DEF Outcome
<1>2. {h \in hs \cap Alive : o[h] # "ok"} \in SUBSET Hosts
  OBVIOUS
<1> QED
  BY <1>1, <1>2, NoTrouble

LEMMA LockTrouble ==
  ASSUME TypeOK, NEW hs \in SUBSET Hosts, NEW line, NEW got, LockWhere(hs, line, got), faults' = 0
  PROVE  faults = 0
<1>1. Mishaps((hs \cap Lockable) \ got) /\ (hs \cap Lockable) \ got \in SUBSET Hosts
  BY DEF LockWhere
<1> QED
  BY <1>1, NoTrouble

LEMMA UntroubledStep == ASSUME TypeOK, Control, Untroubled, [Next]_vars PROVE Untroubled'
<1> SUFFICES ASSUME faults' = 0 PROVE Untroubled'
  BY DEF Untroubled
<1> DEFINE aborted == pc = "unlock" /\ op = "update" /\ result \in {"cancelled", "missing"}
<1>1. ASSUME faults = 0, alive' = alive, ~aborted' PROVE Untroubled'
  BY <1>1 DEF Untroubled, Alive
<1>2. ASSUME faults = 0, alive' = alive, UNCHANGED <<pc, op, result, repo>> PROVE Untroubled'
  BY <1>2 DEF Untroubled, Alive
<1> HIDE DEF aborted
<1>14. CASE Assign
  BY <1>2, <1>14, LockTrouble DEF Assign
<1>3. CASE Begin \/ Unassign \/ Cancel \/ UNCHANGED vars
  BY <1>1, <1>2, <1>3 DEF Begin, Unassign, Cancel, End, vars, groupVars, hostVars, envVars,
     flowVars, aborted
<1>4. CASE Environment /\ UNCHANGED flowVars
  <2>1. PICK h \in Hosts : HostLost(h) \/ HostBack(h) \/ ForeignLock(h) \/ ForeignUnlock(h)
    BY <1>4 DEF Environment
  <2>2. ~HostLost(h)
    BY NoTrouble DEF HostLost
  <2>3. faults = 0
    BY <2>1, <2>2 DEF HostBack, ForeignLock, ForeignUnlock, envVars
  <2>4. ~HostBack(h)
    BY <2>3 DEF Untroubled, HostBack, Alive
  <2> QED
    BY <1>2, <1>4, <2>1, <2>2, <2>3, <2>4 DEF ForeignLock, ForeignUnlock, flowVars
<1>5. ASSUME NEW res, Return(res), UNCHANGED <<alive, faults>> PROVE Untroubled'
  BY <1>1, <1>5, ReturnFacts DEF aborted
<1>6. CASE Enter \/ EnterSelected \/ Undo \/ Unlock \/ RebootDone
  BY <1>1, <1>5, <1>6 DEF Enter, EnterSelected, Undo, Unlock, RebootDone, Goto,
     groupVars, hostVars, envVars, aborted
<1>15. CASE Lock
  <2>1. LockScope \in SUBSET Hosts
    BY DEF LockScope, TypeOK
  <2>2. faults = 0
    BY <1>15, <2>1, LockTrouble DEF Lock
  <2>3. pc' # "unlock"
    BY <1>15 DEF Lock, Goto, AfterLock
  <2> QED
    BY <1>1, <1>15, <2>2, <2>3 DEF Lock, aborted
<1>7. CASE Repo
  <2>1. PICK missed \in SUBSET Hosts : SetRepo(RepoAdded, missed)
    BY <1>7 DEF Repo
  <2>2. faults = 0 /\ alive' = alive
    BY <2>1, SetRepoFacts DEF SetRepo, hostVars
  <2>3. ~aborted'
    BY <1>7 DEF Repo, Goto, End, Prepares, Downgrades, aborted
  <2> QED
    BY <1>1, <2>2, <2>3
<1>8. CASE Abandon
  <2>1. PICK missed \in SUBSET Hosts : SetRepo(FALSE, missed)
    BY <1>8 DEF Abandon
  <2>2. faults = 0 /\ alive' = alive /\ (Alive = Hosts => missed = {})
    BY <2>1, SetRepoFacts DEF SetRepo, hostVars
  <2>3. Alive' = Hosts /\ missed = {}
    BY <2>2 DEF Untroubled, Alive
  <2>4. repo' = {}
    BY <2>1, <2>3 DEF SetRepo
  <2> QED
    BY <2>3, <2>4 DEF Untroubled
<1>9. CASE Gate \/ RunCommand \/ LoopEnds
  BY <1>1, <1>9 DEF Gate, RunCommand, LoopEnds, AfterLoop, Goto, End, groupVars, hostVars,
     envVars, ctlVars, aborted
<1>16. CASE Relock
  <2>1. faults = 0
    BY <1>16, LockTrouble DEF Relock, TypeOK, GroupTypeOK
  <2> QED
    BY <1>1, <1>16, <2>1 DEF Relock, Goto, aborted
<1>10. CASE Work \/ PrepareOne \/ DowngradeOne \/ Stage
  <2>1. PICK hs, goal, ends : hs \in SUBSET Hosts /\ Fanout(hs, goal, ends)
    BY <1>10 DEF Work, PrepareOne, DowngradeOne, Stage, TypeOK
  <2>2. faults = 0
    BY <2>1, FanoutTrouble
  <2> QED
    BY <1>1, <1>10, <2>2, WorkKeeps DEF Work, PrepareOne, DowngradeOne, Stage, Goto, aborted
<1>11. CASE Probe
  <2>1. PICK dead \in SUBSET Hosts : Mishaps(Alive \cap dead)
    BY <1>11 DEF Probe
  <2>2. faults = 0
    BY <2>1, NoTrouble DEF Alive
  <2> QED
    BY <1>1, <1>11, <2>2 DEF Probe, Goto, End, hostVars, aborted
<1>12. CASE Judge \/ Settle
  <2>1. ~aborted'
    BY <1>12 DEF Judge, JudgePrepare, JudgeDowngrade, JudgeInstall, JudgeUpdate, RebootOr,
       Settle, SettlePrepare, SettleDowngrade, SettleUpdate, SettleInstall, Goto, End, ctlVars,
       aborted, Prepares, Downgrades
  <2>2. Settle => faults = 0
    <3>1. unread' \cap Alive \in SUBSET Hosts
      BY DEF Alive
    <3> QED
      BY <3>1, RequeryFacts, NoTrouble
  <2> QED
    BY <1>1, <1>12, <2>1, <2>2 DEF Judge, Settle, hostVars, envVars
<1>13. CASE Reboot
  <2>1. ~aborted'
    BY <1>13 DEF Reboot, Goto, aborted
  <2>2. CASE BootIds \/ Reconnect \/ Verify
    <3>1. BootIds => \E hs \in SUBSET Hosts : Mishaps(hs)
      BY DEF BootIds, TypeOK, GroupTypeOK, Alive
    <3>2. Verify => \E hs \in SUBSET Hosts : Mishaps(hs)
      BY DEF Verify, TypeOK, GroupTypeOK, Alive
    <3>3. faults = 0
      BY <2>2, <3>1, <3>2, NoTrouble DEF Reconnect, envVars
    <3> QED
      BY <1>1, <2>1, <2>2, <3>3 DEF BootIds, Reconnect, Verify, hostVars
  <2>3. CASE Dispatch
    <3>1. PICK gone, boots \in SUBSET (asked \cap Alive) :
            /\ gone \subseteq boots
            /\ Mishaps((asked \cap Alive) \ (boots \ gone))
            /\ alive' = [h \in Hosts |-> alive[h] /\ h \notin gone]
      BY <2>3 DEF Dispatch
    <3>2. (asked \cap Alive) \ (boots \ gone) \in SUBSET Hosts
      BY DEF Alive
    <3>3. faults = 0 /\ (asked \cap Alive) \ (boots \ gone) = {}
      BY <3>1, <3>2, NoTrouble
    <3>4. gone = {}
      BY <3>1, <3>3
    <3>5. alive' = alive
      BY <3>1, <3>4 DEF TypeOK, GroupTypeOK
    <3> QED
      BY <1>1, <2>1, <3>3, <3>5
  <2> QED
    BY <1>13, <2>2, <2>3 DEF Reboot
<1> QED
  BY <1>3, <1>4, <1>6, <1>7, <1>8, <1>9, <1>10, <1>11, <1>12, <1>13, <1>14, <1>15, <1>16 DEF Next, Flow

\* An update that was cancelled or could not start has dispatched no patch,
\* and when nothing failed at the hosts it leaves no repository behind.
THEOREM AbortsLeaveNothing == Spec => []AbortLeavesNothing
<1>1. Init => Dispatched /\ Untroubled
  BY DEF Init, GroupInit, Dispatched, Untroubled, Alive
<1>2. TypeOK /\ Control /\ Dispatched /\ Untroubled /\ [Next]_vars => Dispatched' /\ Untroubled'
  BY DispatchedStep, UntroubledStep
<1>3. Dispatched /\ Untroubled => AbortLeavesNothing
  BY DEF Dispatched, Untroubled, AbortLeavesNothing, Aborts
<1> QED
  BY <1>1, <1>2, <1>3, TypeCorrect, ControlCorrect, PTL DEF Spec

-----------------------------------------------------------------------------
(***************************************************************************)
(* What the commands of a body did to the hosts that it reboots.           *)
(***************************************************************************)
Entered ==
    /\ pc \in {"idle", "enter", "lock", "repo"} => todo = Pkgs
    /\ op \in {"install", "update"} /\ pc \in {"repo", "gate", "abandon", "work", "judge"}
         => able = Hosts

LEMMA EnteredStep == ASSUME TypeOK, Control, Entered, [Next]_vars PROVE Entered'
<1>1. ASSUME NEW res, Return(res) PROVE Entered'
  BY <1>1, ReturnFacts DEF Return, NewBody, Entered
<1>2. CASE Begin \/ Assign \/ Unassign \/ Cancel \/ UNCHANGED flowVars \/ UNCHANGED vars
  BY <1>2 DEF Begin, Assign, Unassign, Cancel, End, flowVars, bodyVars, vars, Entered
<1>3. CASE Enter \/ EnterSelected \/ Undo \/ Unlock \/ RebootDone
  BY <1>1, <1>3 DEF Enter, EnterSelected, Undo, Unlock, RebootDone, Goto, ctlVars, bodyVars, Entered
<1>4. CASE Lock
  <2>1. todo = Pkgs /\ todo' = todo /\ op' = op
    BY <1>4 DEF Lock, ctlVars, Entered
  <2>2. pc' # "undo" /\ op # "run" => able' = Hosts
    BY <1>4 DEF Lock, LockScope, Goto
  <2> QED
    BY <1>4, <2>1, <2>2 DEF Lock, Goto, AfterLock, Entered
<1>5. CASE Repo
  <2>1. op' = op /\ pc = "repo" /\ pc' \notin {"idle", "enter", "lock", "repo"}
    BY <1>5 DEF Repo, Goto, End
  <2>2. op \in {"install", "update"} => able' = able
    BY <1>5 DEF Repo, Prepares, Downgrades
  <2> QED
    BY <1>5, <2>1, <2>2 DEF Entered
<1>6. CASE Gate \/ Abandon \/ RunCommand \/ LoopEnds \/ Relock
  <2>1. UNCHANGED <<op, able>> /\ pc' \notin {"idle", "enter", "lock", "repo"}
    BY <1>6 DEF Gate, Abandon, RunCommand, LoopEnds, Relock, AfterLoop, Goto, End, ctlVars, bodyVars
  <2>2. op \in {"install", "update"} /\ pc' \in {"gate", "abandon", "work", "judge"}
          => pc \in {"gate", "abandon"}
    BY <1>6 DEF Gate, Abandon, RunCommand, LoopEnds, Relock, AfterLoop, Goto, End, Control,
       Prepares, Downgrades
  <2> QED
    BY <2>1, <2>2 DEF Entered
<1>7. CASE Work \/ PrepareOne \/ DowngradeOne \/ Stage
  BY <1>7 DEF Work, PrepareOne, DowngradeOne, Stage, Goto, ctlVars, Entered, Control, Downgrades
<1>8. CASE Probe \/ Judge \/ Settle \/ Reboot
  BY <1>8 DEF Probe, Judge, JudgePrepare, JudgeDowngrade, JudgeInstall, JudgeUpdate, RebootOr,
     Settle, SettlePrepare, SettleDowngrade, SettleUpdate, SettleInstall, Reboot, Goto, End,
     ctlVars, bodyVars, Entered
<1> QED
  BY <1>2, <1>3, <1>4, <1>5, <1>6, <1>7, <1>8 DEF Next, Flow

\* What a fan-out writes into the two histories.
LEMMA FanoutTraces ==
  ASSUME TypeOK, NEW hs \in SUBSET Hosts, NEW goal, NEW ends, Fanout(hs, goal, ends),
         \A h \in fresh : snap[h].ok \/ dealt[h] = "broken"
  PROVE  /\ fresh \subseteq fresh' /\ fresh' \subseteq fresh \cup (hs \cap Transactional)
         /\ \A h \in fresh' : snap'[h].ok \/ dealt'[h] = "broken"
         /\ \A h \in Hosts \ hs : dealt'[h] = dealt[h]
         /\ \A h \in hs : out'[h] \in ends
         /\ \A h \in hs : dealt[h] # "broken" /\ out'[h] \notin Broken \cup {"probe"}
                            => dealt'[h] = "clean"
<1>a. PICK o \in [hs -> ends] : \E changed \in SUBSET (hs \cap Alive) :
        \E now \in [changed -> SUBSET Pkgs] :
           /\ \A h \in changed : o[h] # "probe" /\ (op = "update" => h \in repo)
           /\ Outcome(hs, o, changed, now)
  BY FanoutOutcome
<1>b. PICK changed \in SUBSET (hs \cap Alive) : \E now \in [changed -> SUBSET Pkgs] :
         /\ \A h \in changed : o[h] # "probe" /\ (op = "update" => h \in repo)
         /\ Outcome(hs, o, changed, now)
  BY <1>a
<1>1. PICK now \in [changed -> SUBSET Pkgs] :
         /\ \A h \in changed : o[h] # "probe" /\ (op = "update" => h \in repo)
         /\ Outcome(hs, o, changed, now)
  BY <1>b
<1>2. /\ fresh' = fresh \cup (changed \cap Transactional)
      /\ changed \subseteq hs /\ o \in [hs -> ends] /\ fresh \subseteq Hosts
  BY <1>1 DEF Outcome, TypeOK
<1>3. \A h \in hs : out'[h] = o[h]
  BY <1>1 DEF Outcome
<1>4. \A h \in Hosts \ hs : dealt'[h] = dealt[h]
  BY <1>1 DEF Outcome
<1>5. \A h \in hs : dealt'[h] = IF o[h] \in Broken \cup {"probe"} \/ dealt[h] = "broken"
                                THEN "broken" ELSE "clean"
  BY <1>1 DEF Outcome
<1>6. ASSUME NEW h \in fresh' PROVE snap'[h].ok \/ dealt'[h] = "broken"
  <2>1. CASE h \in changed \cap Transactional
    <3> DEFINE good(g) == o[g] \notin Broken
    <3>1. snap' = [g \in Hosts |-> IF g \in changed \cap Transactional
                                   THEN Snap(now[g], good(g)) ELSE snap[g]]
      BY <1>1 DEF Outcome
    <3>2. h \in Hosts /\ h \in hs
      BY <1>2, <2>1
    <3>3. CASE good(h)
      <4>1. good(h) = TRUE
        BY <3>3
      <4> HIDE DEF good
      <4>2. snap'[h] = Snap(now[h], good(h))
        BY <2>1, <3>1, <3>2
      <4> QED
        BY <4>1, <4>2 DEF Snap
    <3>4. CASE ~good(h)
      BY <1>5, <3>2, <3>4
    <3> QED
      BY <3>3, <3>4
  <2>2. CASE h \notin changed \cap Transactional
    <3>1. h \in fresh /\ h \in Hosts /\ snap'[h] = snap[h]
      BY <1>1, <1>2, <2>2 DEF Outcome
    <3>2. dealt[h] = "broken" => dealt'[h] = "broken"
      BY <1>4, <1>5, <3>1
    <3> QED
      BY <3>1, <3>2
  <2> QED
    BY <2>1, <2>2
<1>7. \A h \in hs : out'[h] \in ends
  BY <1>2, <1>3
<1> QED
  BY <1>2, <1>3, <1>4, <1>5, <1>6, <1>7

Untouched == fresh = {} /\ \A h \in Hosts : dealt[h] = "none"

Early == {"idle", "enter", "lock", "undo", "repo", "gate", "abandon", "work", "probe"}

\* Snapshots of the body are on transactional hosts it had commands for, and
\* one that is not good is on a host where a command of the body failed.
Traced ==
    /\ pc \in Early \/ op \in {"run", "reboot", "sweep"} => Untouched
    /\ op \in Prepares /\ pc \in {"loop", "judge"} /\ todo = Pkgs => Untouched
    /\ op \in Downgrades /\ pc \in {"loop", "stage"}
         => fresh = {} /\ \A h \in Transactional : dealt[h] = "none"
    /\ fresh \subseteq Transactional /\ (pc \in {"loop", "judge"} => fresh \subseteq able)
    /\ \A h \in fresh : snap[h].ok \/ dealt[h] = "broken"

LEMMA TracedStep == ASSUME TypeOK, Control, Traced, [Next]_vars PROVE Traced'
<1>0. Transactional \subseteq Hosts /\ Pkgs # {}
  BY GroupAssumption
<1>1. ASSUME Untouched' PROVE Traced'
  BY <1>0, <1>1 DEF Traced, Untouched
<1>2. ASSUME NEW res, Return(res) PROVE Traced'
  <2>1. Untouched'
    BY <1>2 DEF Return, NewBody, Untouched
  <2> QED
    BY <1>1, <2>1
<1>3. ASSUME pc \in Early, UNCHANGED fanVars PROVE Traced'
  <2>1. Untouched'
    BY <1>3 DEF Traced, Untouched, fanVars
  <2> QED
    BY <1>1, <2>1
<1>4. ASSUME UNCHANGED <<snap, fanVars, pc, op, todo, able>> PROVE Traced'
  BY <1>4 DEF Traced, Untouched, fanVars
<1>5. CASE Begin \/ Assign \/ Unassign
  BY <1>3, <1>5 DEF Begin, Assign, Unassign, bodyVars, Early
<1>6. CASE Cancel \/ UNCHANGED vars \/ (Environment /\ UNCHANGED flowVars)
  BY <1>4, <1>6 DEF Cancel, vars, groupVars, hostVars, flowVars, bodyVars, Environment, HostLost,
     HostBack, ForeignLock, ForeignUnlock
<1>7. CASE Enter \/ EnterSelected \/ Lock
  BY <1>2, <1>3, <1>7 DEF Enter, EnterSelected, Lock, bodyVars, Early
<1>8. CASE Undo \/ Unlock \/ RebootDone
  BY <1>2, <1>8 DEF Undo, Unlock, RebootDone
<1>9. CASE Repo \/ Gate \/ Abandon \/ RunCommand \/ Probe
  BY <1>3, <1>9 DEF Repo, Gate, Abandon, RunCommand, Probe, bodyVars, Early
<1>10. CASE Work
  <2>1. Fanout(able, Goal, BulkEnds) /\ able \in SUBSET Hosts
    BY <1>10 DEF Work, TypeOK
  <2>2. Untouched /\ op \notin {"run", "reboot", "sweep"}
    BY <1>10 DEF Work, Traced, Early, Control
  <2>3. pc' = "judge" /\ op' = op /\ able' = able /\ todo' # Pkgs
    BY <1>0, <1>10 DEF Work, Goto
  <2> QED
    BY <1>0, <2>1, <2>2, <2>3, FanoutTraces DEF Traced, Untouched, Early
<1>11. CASE LoopEnds
  BY <1>11 DEF LoopEnds, AfterLoop, Goto, ctlVars, fanVars, groupVars, hostVars, Traced, Untouched,
     Control, Early, Prepares, Downgrades
<1>12. CASE PrepareOne
  <2>1. PICK p \in todo : \E goal, ends : Fanout(able, goal, ends) /\ todo' = todo \ {p}
    BY <1>12 DEF PrepareOne
  <2>2. able \in SUBSET Hosts /\ todo' # Pkgs
    BY <2>1 DEF TypeOK
  <2>3. pc = "loop" /\ pc' = "loop" /\ op' = op /\ able' = able /\ op \in Prepares
    BY <1>12 DEF PrepareOne, Goto, ctlVars
  <2> QED
    BY <2>1, <2>2, <2>3, FanoutTraces DEF Traced, Early, Prepares, Downgrades
<1>13. CASE DowngradeOne
  <2>1. PICK hs \in SUBSET (Hosts \ Transactional) : \E goal, ends : Fanout(hs, goal, ends)
    <3>1. PICK p \in todo :
            Fanout({h \in able \ Transactional : p \in known[h]}, [h \in Hosts |-> root[h] \ {p}],
                   {"ok", "bad", "lost", "soft"})
      BY <1>13 DEF DowngradeOne
    <3>2. {h \in able \ Transactional : p \in known[h]} \in SUBSET (Hosts \ Transactional)
      BY DEF TypeOK
    <3> QED
      BY <3>1, <3>2
  <2>2. pc = "loop" /\ pc' = "loop" /\ op' = op /\ op \in Downgrades
    BY <1>13 DEF DowngradeOne, Goto, ctlVars
  <2>3. fresh = {} /\ \A h \in Transactional : dealt[h] = "none"
    BY <2>2 DEF Traced
  <2>4. fresh' = {} /\ \A h \in Transactional : dealt'[h] = "none"
    BY <1>0, <2>1, <2>3, FanoutTraces
  <2> QED
    BY <2>2, <2>4 DEF Traced, Early, Prepares, Downgrades
<1>14. CASE Stage
  <2>1. PICK goal, ends : Fanout(able \cap Transactional, goal, ends)
    BY <1>14 DEF Stage
  <2>2. able \cap Transactional \in SUBSET Hosts
    BY DEF TypeOK
  <2>3. pc = "stage" /\ pc' = "judge" /\ op' = op /\ able' = able /\ op \in Downgrades
    BY <1>14 DEF Stage, Goto, ctlVars, Control
  <2>4. fresh = {}
    BY <2>3 DEF Traced
  <2> QED
    BY <2>1, <2>2, <2>3, <2>4, FanoutTraces DEF Traced, Early, Prepares, Downgrades
<1>15. ASSUME UNCHANGED <<snap, fanVars, op>>, pc' \notin Early \cup {"loop", "stage", "judge"}
       PROVE  Traced'
  BY <1>15 DEF Traced, Untouched, fanVars
<1>16. CASE Judge \/ Settle \/ Relock
  <2>1. UNCHANGED <<snap, fanVars, op>>
    BY <1>16 DEF Judge, Settle, Relock, ctlVars, hostVars, bodyVars
  <2>2. pc' \notin Early \cup {"loop", "stage", "judge"}
    BY <1>16 DEF Judge, JudgePrepare, JudgeDowngrade, JudgeInstall, JudgeUpdate, RebootOr, Settle,
       SettlePrepare, SettleDowngrade, SettleUpdate, SettleInstall, Relock, Goto, End, Early
  <2> QED
    BY <1>15, <2>1, <2>2
<1>17. CASE Reboot
  <2>1. UNCHANGED <<fanVars, op>> /\ pc' \notin Early \cup {"loop", "stage", "judge"}
    BY <1>17 DEF Reboot, Goto, ctlVars, bodyVars, Early
  <2>2. CASE ~Dispatch
    BY <1>15, <1>17, <2>1, <2>2 DEF Reboot, BootIds, Reconnect, Verify, hostVars
  <2>3. CASE Dispatch
    <3>1. \A h \in Hosts : snap'[h] = NoSnap \/ snap'[h] = snap[h]
      BY <2>3 DEF Dispatch
    <3>2. NoSnap.ok
      BY DEF NoSnap
    <3>3. \A h \in fresh : h \in Hosts /\ (snap[h].ok => snap'[h].ok)
      BY <3>1, <3>2 DEF TypeOK
    <3> QED
      BY <2>1, <3>3 DEF Traced, Untouched, fanVars
  <2> QED
    BY <2>2, <2>3
<1> QED
  BY <1>5, <1>6, <1>7, <1>8, <1>9, <1>10, <1>11, <1>12, <1>13, <1>14, <1>16, <1>17 DEF Next, Flow

\* A body reboots only hosts to which it sent commands that all ended well.
EndedWell ==
    /\ pc = "loop" /\ op \in Prepares /\ todo # Pkgs
         => \A h \in (able \cap Transactional) \ failed : dealt[h] = "clean"
    /\ pc = "judge" /\ (op \in Prepares => todo # Pkgs)
         => \A h \in (able \cap Transactional) \ failed : dealt[h] = "clean"
    /\ pc \in {"ids", "dispatch"} /\ op # "reboot" => \A h \in asked : dealt[h] = "clean"

LEMMA EndedWellStep ==
  ASSUME TypeOK, Control, Entered, Traced, EndedWell, [Next]_vars
  PROVE  EndedWell'
<1>0. Transactional \subseteq Hosts /\ able \subseteq Hosts
  BY GroupAssumption DEF TypeOK
<1>1. ASSUME pc' \notin {"loop", "judge", "ids", "dispatch"} PROVE EndedWell'
  BY <1>1 DEF EndedWell
<1>2. ASSUME NEW res, Return(res) PROVE EndedWell'
  BY <1>1, <1>2, ReturnFacts
<1>3. ASSUME UNCHANGED <<asked, fanVars, pc, op, todo, able, failed>> PROVE EndedWell'
  BY <1>3 DEF EndedWell, fanVars
<1>4. CASE Begin \/ Assign \/ Unassign \/ Cancel \/ UNCHANGED vars
  BY <1>1, <1>3, <1>4 DEF Begin, Assign, Unassign, Cancel, End, vars, groupVars,
     bootVars, flowVars, bodyVars
<1>5. CASE Environment /\ UNCHANGED flowVars
  BY <1>3, <1>5 DEF Environment, HostLost, HostBack, ForeignLock, ForeignUnlock, bootVars,
     flowVars, bodyVars
<1>6. CASE Enter \/ Lock \/ Undo \/ Unlock \/ RebootDone \/ Relock \/ Settle
  BY <1>1, <1>2, <1>6 DEF Enter, Lock, AfterLock, Undo, Unlock, RebootDone, Relock, Settle,
     SettlePrepare, SettleDowngrade, SettleUpdate, SettleInstall, Goto, End
<1>7. CASE EnterSelected
  BY <1>1, <1>7 DEF EnterSelected, Goto, ctlVars, EndedWell
<1>8. CASE Repo \/ Gate \/ Abandon \/ RunCommand
  <2>1. pc' = "loop" => todo' = Pkgs
    BY <1>8 DEF Repo, Gate, Abandon, RunCommand, Goto, End, Entered
  <2>2. pc' \notin {"judge", "ids", "dispatch"}
    BY <1>8 DEF Repo, Gate, Abandon, RunCommand, Goto, End
  <2> QED
    BY <2>1, <2>2 DEF EndedWell
<1>9. CASE Probe
  BY <1>9 DEF Probe, Goto, End, ctlVars, EndedWell, Control, Prepares, Downgrades
<1>10. CASE LoopEnds
  BY <1>10 DEF LoopEnds, AfterLoop, Goto, ctlVars, fanVars, EndedWell, Control, Prepares, Downgrades
<1>11. CASE Work
  <2>1. /\ Fanout(able, Goal, BulkEnds)
        /\ failed' = BrokenNow(able) \cup {h \in able : out'[h] = "probe"}
        /\ able' = able /\ pc' = "judge"
    BY <1>11 DEF Work, Goto
  <2>2. \A h \in able : dealt[h] # "broken"
    BY <1>0, <1>11 DEF Work, Traced, Untouched, Early
  <2>3. \A h \in able \ failed' : out'[h] \notin Broken \cup {"probe"}
    BY <2>1 DEF BrokenNow
  <2>4. \A h \in able \ failed' : dealt'[h] = "clean"
    BY <1>0, <2>1, <2>2, <2>3, FanoutTraces DEF Traced
  <2> QED
    BY <2>1, <2>4 DEF EndedWell
<1>12. CASE PrepareOne
  <2> DEFINE ends == {"ok", "noisy", "bad", "marked", "lost"}
  <2>1. PICK goal : Fanout(able, goal, ends)
    BY <1>12 DEF PrepareOne
  <2>2. /\ failed' = failed \cup BrokenNow(able) /\ able' = able
        /\ pc = "loop" /\ pc' = "loop" /\ op \in Prepares
    BY <1>12 DEF PrepareOne, Goto, ctlVars
  <2>3. \A h \in (able \cap Transactional) \ failed : dealt[h] # "broken"
    BY <1>0, <2>2 DEF Traced, Untouched, EndedWell
  <2>a. able \in SUBSET Hosts /\ \A h \in fresh : snap[h].ok \/ dealt[h] = "broken"
    BY <1>0 DEF Traced
  <2>e. "probe" \notin ends
    OBVIOUS
  <2> HIDE DEF ends
  <2>b. /\ \A h \in able : out'[h] \in ends
        /\ \A h \in able : dealt[h] # "broken" /\ out'[h] \notin Broken \cup {"probe"}
                             => dealt'[h] = "clean"
    BY <2>1, <2>a, FanoutTraces
  <2>4. \A h \in able \ failed' : out'[h] \notin Broken \cup {"probe"}
    BY <2>2, <2>b, <2>e DEF BrokenNow
  <2>5. \A h \in (able \cap Transactional) \ failed' : dealt'[h] = "clean"
    BY <2>2, <2>3, <2>4, <2>b
  <2> QED
    BY <2>2, <2>5 DEF EndedWell
<1>13. CASE DowngradeOne
  BY <1>13 DEF DowngradeOne, Goto, ctlVars, EndedWell, Prepares, Downgrades
<1>14. CASE Stage
  <2> DEFINE hs == able \cap Transactional
  <2> DEFINE ends == {"ok", "bad", "lost"}
  <2>1. PICK goal : Fanout(hs, goal, ends)
    BY <1>14 DEF Stage
  <2>2. failed' = BrokenNow(hs) /\ able' = able /\ pc = "stage" /\ pc' = "judge" /\ hs \in SUBSET Hosts
    BY <1>0, <1>14 DEF Stage, Goto
  <2>3. \A h \in hs : dealt[h] # "broken"
    BY <1>14, <2>2 DEF Traced, Control
  <2>a. \A h \in fresh : snap[h].ok \/ dealt[h] = "broken"
    BY DEF Traced
  <2>e. "probe" \notin ends
    OBVIOUS
  <2> HIDE DEF ends, hs
  <2>b. /\ \A h \in hs : out'[h] \in ends
        /\ \A h \in hs : dealt[h] # "broken" /\ out'[h] \notin Broken \cup {"probe"}
                           => dealt'[h] = "clean"
    BY <2>1, <2>2, <2>a, FanoutTraces
  <2>4. \A h \in hs \ failed' : out'[h] \notin Broken \cup {"probe"}
    BY <2>2, <2>b, <2>e DEF BrokenNow
  <2>5. \A h \in hs \ failed' : dealt'[h] = "clean"
    BY <2>2, <2>3, <2>4, <2>b
  <2> QED
    BY <2>2, <2>5 DEF EndedWell, hs
<1>15. CASE Judge
  <2>1. ASSUME pc' \in {"ids", "dispatch"}, op # "reboot"
        PROVE  /\ asked' \subseteq (able \cap Transactional) \ failed
               /\ op \in Prepares /\ asked' # {} => todo # Pkgs
    BY <1>15, <2>1, GroupAssumption DEF Judge, JudgePrepare, JudgeDowngrade, JudgeInstall, JudgeUpdate,
       RebootOr, Reached, Goto, End, Entered, Prepares, Downgrades
  <2>2. op' = op /\ UNCHANGED fanVars /\ pc = "judge" /\ pc' \notin {"loop", "judge"}
    BY <1>15 DEF Judge, JudgePrepare, JudgeDowngrade, JudgeInstall, JudgeUpdate, RebootOr, Goto, End,
       ctlVars
  <2> QED
    BY <2>1, <2>2 DEF EndedWell, fanVars
<1>16. CASE Reboot
  <2>1. CASE pc = "ids"
    BY <1>16, <2>1 DEF Reboot, BootIds, Goto, ctlVars, bodyVars, fanVars, EndedWell
  <2>2. CASE pc # "ids"
    BY <1>1, <1>16, <2>2 DEF Reboot, Goto
  <2> QED
    BY <2>1, <2>2
<1> QED
  BY <1>4, <1>5, <1>6, <1>7, <1>8, <1>9, <1>10, <1>11, <1>12, <1>13, <1>14, <1>15, <1>16 DEF Next, Flow

LEMMA TracedCorrect == Spec => [](TypeOK /\ Control /\ Entered /\ Traced /\ EndedWell)
<1>1. Init => Entered /\ Traced /\ EndedWell
  BY DEF Init, Entered, Traced, Untouched, Early, EndedWell
<1>2. TypeOK /\ Control /\ Entered /\ Traced /\ EndedWell /\ [Next]_vars
        => Entered' /\ Traced' /\ EndedWell'
  BY EnteredStep, TracedStep, EndedWellStep
<1> QED
  BY <1>1, <1>2, TypeCorrect, ControlCorrect, PTL DEF Spec

\* The boots of one reboot are counted from its dispatch.
Unbooted == pc = "dispatch" => booted = {}

LEMMA UnbootedCorrect == Spec => []Unbooted
<1>1. Init => Unbooted
  BY DEF Init, Unbooted
<1>2. ASSUME Unbooted, [Next]_vars PROVE Unbooted'
  <2>1. ASSUME pc' # "dispatch" PROVE Unbooted'
    BY <2>1 DEF Unbooted
  <2>2. ASSUME NEW res, Return(res) PROVE Unbooted'
    BY <2>1, <2>2, ReturnFacts
  <2>3. CASE \/ Begin \/ Enter \/ EnterSelected \/ Lock \/ Undo \/ Unlock \/ Repo \/ Gate
             \/ Abandon \/ Work \/ RunCommand \/ Probe \/ LoopEnds \/ PrepareOne
             \/ DowngradeOne \/ Stage \/ Relock \/ RebootDone
    BY <2>1, <2>2, <2>3 DEF Begin, Enter, EnterSelected, Lock, AfterLock, Undo, Unlock, Repo, Gate,
       Abandon, Work, RunCommand, Probe, LoopEnds, AfterLoop, PrepareOne, DowngradeOne, Stage,
       Relock, RebootDone, Goto, End
  <2>4. CASE Judge \/ Settle
    BY <2>1, <2>4 DEF Judge, JudgePrepare, JudgeDowngrade, JudgeInstall, JudgeUpdate, RebootOr,
       Settle, SettlePrepare, SettleDowngrade, SettleUpdate, SettleInstall, Goto, End
  <2>5. CASE Reboot
    <3>1. CASE pc = "ids"
      BY <2>5, <3>1 DEF Reboot, BootIds, Unbooted
    <3>2. CASE pc # "ids"
      BY <2>1, <2>5, <3>2 DEF Reboot, Goto
    <3> QED
      BY <3>1, <3>2
  <2>6. CASE Assign \/ Unassign \/ Cancel \/ UNCHANGED vars \/ (Environment /\ UNCHANGED flowVars)
    <3>1. Environment => booted' = booted
      BY DEF Environment, HostLost, HostBack, ForeignLock, ForeignUnlock, bootVars
    <3>2. UNCHANGED <<pc, booted>>
      BY <2>6, <3>1 DEF Assign, Unassign, Cancel, vars, groupVars, flowVars, bootVars
    <3> QED
      BY <1>2, <3>2 DEF Unbooted
  <2> QED
    BY <1>2, <2>3, <2>4, <2>5, <2>6 DEF Next, Flow
<1> QED
  BY <1>1, <1>2, PTL DEF Spec

LEMMA OnlyDispatchBoots ==
  ASSUME Unbooted, [Next]_vars, pc = "dispatch", NEW h \in booted'
  PROVE  Dispatch /\ h \in asked
<1>1. booted = {}
  BY DEF Unbooted
<1>2. CASE Reboot
  <2>1. Dispatch
    BY <1>2 DEF Reboot
  <2> QED
    BY <2>1 DEF Dispatch
<1>3. CASE Cancel \/ UNCHANGED vars \/ Environment
  BY <1>1, <1>3 DEF Cancel, vars, groupVars, bootVars, Environment, HostLost, HostBack,
     ForeignLock, ForeignUnlock
<1>4. ~( \/ Begin \/ Assign \/ Unassign \/ Enter \/ EnterSelected \/ Lock \/ Undo \/ Unlock
          \/ Repo \/ Gate \/ Abandon \/ Work \/ RunCommand \/ Probe \/ LoopEnds \/ PrepareOne
          \/ DowngradeOne \/ Stage \/ Judge \/ Relock \/ RebootDone \/ Settle)
  BY DEF Begin, Assign, Unassign, Enter, EnterSelected, Lock, Undo, Unlock, Repo, Gate, Abandon,
     Work, RunCommand, Probe, LoopEnds, PrepareOne, DowngradeOne, Stage, Judge, Relock,
     RebootDone, Settle
<1> QED
  BY <1>2, <1>3, <1>4 DEF Next, Flow

\* No body activates the snapshot of a failed transaction of its own.
THEOREM FailedSnapshotsStay == Spec => NoFailedBoot
<1>1. Traced /\ EndedWell /\ Unbooted /\ [Next]_vars =>
        [pc = "dispatch" /\ op # "reboot" => \A h \in booted' \cap fresh : snap[h].ok]_vars
  BY OnlyDispatchBoots DEF Traced, EndedWell
<1> QED
  BY <1>1, TracedCorrect, UnbootedCorrect, PTL DEF Spec, NoFailedBoot

\* A host on which the body staged nothing is rebooted only if commands were
\* sent there and all of them ended well.
THEOREM LeftOutStayUp == Spec => LeftOutNotBooted
<1>1. EndedWell /\ Unbooted /\ [Next]_vars =>
        [pc = "dispatch" /\ op # "reboot" => \A h \in booted' \ fresh : dealt[h] = "clean"]_vars
  BY OnlyDispatchBoots DEF EndedWell
<1> QED
  BY <1>1, TracedCorrect, UnbootedCorrect, PTL DEF Spec, LeftOutNotBooted

-----------------------------------------------------------------------------
(***************************************************************************)
(* What a verdict without failures means.                                  *)
(***************************************************************************)
\* The hosts whose failure is on the record; a failed check ends an update.
Excluded == IF op = "update" THEN {} ELSE reported

Followed ==
    /\ pc = "judge" /\ op \in Downgrades => failed \subseteq reported
    /\ pc \in {"ids", "dispatch", "reconnect", "verify"} /\ op # "reboot"
         => fresh \subseteq Excluded \cup asked
    /\ pc \in {"reconnect", "verify"} => \A h \in booted : ~snap[h].some
    /\ pc = "settle"
         => \A h \in fresh \ Excluded : ~snap[h].some \/ h \in blind \/ cause[h] # "none"
    /\ NoInertSnapshot

LEMMA FollowedStep ==
  ASSUME TypeOK, Control, Entered, Traced, Followed, [Next]_vars
  PROVE  Followed'
<1>0. fresh \subseteq Hosts /\ fresh \subseteq Transactional
  BY DEF TypeOK, Traced
<1>1. ASSUME pc' \notin {"judge", "ids", "dispatch", "reconnect", "verify", "settle", "unlock"}
      PROVE  Followed'
  BY <1>1 DEF Followed, NoInertSnapshot
<1>2. ASSUME NEW res, Return(res) PROVE Followed'
  BY <1>1, <1>2, ReturnFacts
<1>3. ASSUME UNCHANGED <<snap, asked, booted, blind, cause, fresh, op, pc, result, failed, reported>>
      PROVE  Followed'
  BY <1>3 DEF Followed, NoInertSnapshot, Excluded
<1>4. ASSUME fresh' = {}, pc' \notin {"judge", "reconnect", "verify"} PROVE Followed'
  BY <1>4 DEF Followed, NoInertSnapshot
<1>5. CASE Begin \/ Assign \/ Unassign \/ Cancel \/ UNCHANGED vars
  BY <1>1, <1>3, <1>5 DEF Begin, Assign, Unassign, Cancel, End, vars, groupVars, hostVars,
     bootVars, flowVars, bodyVars, fanVars
<1>6. CASE Environment /\ UNCHANGED flowVars
  BY <1>3, <1>6 DEF Environment, HostLost, HostBack, ForeignLock, ForeignUnlock, bootVars,
     flowVars, bodyVars, fanVars
<1>7. CASE Enter \/ Lock \/ Undo \/ Unlock \/ RebootDone \/ Relock
  BY <1>1, <1>2, <1>7 DEF Enter, Lock, AfterLock, Undo, Unlock, RebootDone, Relock, Goto
<1>8. CASE EnterSelected \/ Repo \/ Gate \/ Abandon \/ RunCommand \/ Probe
  <2>1. pc \in Early /\ fresh' = fresh
    BY <1>8 DEF EnterSelected, Repo, Gate, Abandon, RunCommand, Probe, Early, bodyVars, fanVars
  <2>2. fresh' = {}
    BY <2>1 DEF Traced, Untouched
  <2>3. pc' \notin {"judge", "reconnect", "verify"}
    BY <1>8 DEF EnterSelected, Repo, Gate, Abandon, RunCommand, Probe, Goto, End
  <2> QED
    BY <1>4, <2>2, <2>3
<1>9. CASE Work \/ PrepareOne \/ DowngradeOne
  BY <1>9 DEF Work, PrepareOne, DowngradeOne, Goto, ctlVars, Control, Followed, NoInertSnapshot
<1>10. CASE LoopEnds
  BY <1>1, <1>10 DEF LoopEnds, AfterLoop, Goto, ctlVars, Followed, NoInertSnapshot
<1>11. CASE Stage
  BY <1>11 DEF Stage, Goto, Followed, NoInertSnapshot
<1>12. CASE Judge
  <2>1. /\ UNCHANGED <<snap, fresh, op, failed>> /\ pc = "judge"
        /\ pc' \in {"ids", "settle", "unlock"}
        /\ pc' = "unlock" => result' \notin {"ok", "cancelled"}
        /\ pc' = "settle" => asked' = {}
    BY <1>12 DEF Judge, JudgePrepare, JudgeDowngrade, JudgeInstall, JudgeUpdate, RebootOr, Goto, End,
       ctlVars, hostVars, fanVars
  <2>2. fresh \subseteq able
    BY <2>1 DEF Traced
  <2>3. ASSUME pc' # "unlock" PROVE fresh \subseteq Excluded' \cup asked'
    <3>1. CASE JudgePrepare
      <4>1. fresh \subseteq Reached
        BY <2>1, <2>2, <3>1 DEF Reached, JudgePrepare, Traced, Untouched
      <4>2. op' # "update"
        BY <2>1, <3>1 DEF JudgePrepare, Prepares
      <4> QED
        BY <1>0, <3>1, <4>1, <4>2 DEF JudgePrepare, RebootOr, Excluded
    <3>2. CASE JudgeDowngrade
      <4>1. op' # "update" /\ failed \subseteq reported
        BY <2>1, <3>2 DEF JudgeDowngrade, Downgrades, Followed
      <4> QED
        BY <1>0, <2>2, <3>2, <4>1 DEF JudgeDowngrade, RebootOr, Excluded
    <3>3. CASE JudgeInstall
      BY <1>0, <2>1, <3>3 DEF JudgeInstall, RebootOr, Excluded
    <3>4. CASE JudgeUpdate
      BY <1>0, <2>3, <3>4 DEF JudgeUpdate, RebootOr, End
    <3> QED
      BY <1>12, <3>1, <3>2, <3>3, <3>4 DEF Judge
  <2> QED
    BY <2>1, <2>3 DEF Followed, NoInertSnapshot
<1>13. CASE Reboot
  <2>0. UNCHANGED <<op, reported, fresh>>
    BY <1>13 DEF Reboot, ctlVars, bodyVars, fanVars
  <2>1. CASE pc = "ids" /\ BootIds /\ Goto("dispatch")
    BY <2>0, <2>1 DEF BootIds, Goto, Followed, NoInertSnapshot, Excluded
  <2>2. CASE pc = "dispatch" /\ Dispatch /\ Goto("reconnect")
    <3>1. \A h \in booted' : h \in Hosts /\ snap'[h] = NoSnap
      BY <2>2 DEF Dispatch, TypeOK, GroupTypeOK
    <3>2. asked' = asked
      BY <2>2 DEF Dispatch
    <3> QED
      BY <2>0, <2>2, <3>1, <3>2 DEF Goto, NoSnap, Followed, NoInertSnapshot, Excluded
  <2>3. CASE pc = "reconnect" /\ Reconnect /\ Goto("verify")
    BY <2>0, <2>3 DEF Reconnect, Goto, hostVars, Followed, NoInertSnapshot, Excluded
  <2>4. CASE pc = "verify" /\ Verify /\ pc' \in {"relock", "settle"}
    <3>1. PICK newId \in SUBSET (asked \cap Alive) :
            /\ blind' = asked \ (oldId \cap newId)
            /\ cause' = [h \in Hosts |->
                  IF h \in asked \cap oldId \cap newId /\ h \notin booted /\ cause[h] = "none"
                  THEN "inert" ELSE cause[h]]
            /\ snap' = snap
      BY <2>4 DEF Verify, hostVars
    <3>2. ASSUME pc' = "settle", NEW h \in fresh \ Excluded
          PROVE  ~snap'[h].some \/ h \in blind' \/ cause'[h] # "none"
      <4>1. op # "reboot"
        BY <1>0, <2>4, <3>2 DEF Traced, Untouched
      <4>2. h \in asked /\ h \in Hosts
        BY <1>0, <2>4, <3>2, <4>1 DEF Followed
      <4>3. CASE h \in booted
        BY <2>4, <3>1, <4>3 DEF Followed
      <4>4. CASE h \notin booted
        BY <3>1, <4>2, <4>4
      <4> QED
        BY <4>3, <4>4
    <3> QED
      BY <2>0, <2>4, <3>2 DEF Followed, NoInertSnapshot, Excluded
  <2> QED
    BY <1>13, <2>1, <2>2, <2>3, <2>4 DEF Reboot, Goto
<1>14. CASE Settle
  <2>1. UNCHANGED <<snap, blind, fresh, op, reported>> /\ pc = "settle" /\ pc' = "unlock"
    BY <1>14 DEF Settle, SettlePrepare, SettleDowngrade, SettleUpdate, SettleInstall, End, hostVars,
       bootVars, ctlVars, fanVars
  <2>2. result' \in {"ok", "cancelled"} => RebootFailed = {} /\ Excluded = {}
    BY <1>14 DEF Settle, SettlePrepare, SettleDowngrade, SettleUpdate, SettleInstall, End,
       Excluded, Prepares, Downgrades
  <2>3. RebootFailed = {} => \A h \in fresh : cause[h] = "none"
    BY <1>0 DEF RebootFailed
  <2> QED
    BY <2>1, <2>2, <2>3 DEF Followed, NoInertSnapshot
<1> QED
  BY <1>5, <1>6, <1>7, <1>8, <1>9, <1>10, <1>11, <1>12, <1>13, <1>14 DEF Next, Flow

\* A body that ends well leaves none of its own snapshots unbooted, except
\* where the boot ids could not be compared.
THEOREM StagedWorkBooted == Spec => []NoInertSnapshot
<1>1. Init => Followed
  BY DEF Init, Followed, NoInertSnapshot
<1>2. TypeOK /\ Control /\ Entered /\ Traced /\ Followed /\ [Next]_vars => Followed'
  BY FollowedStep
<1>3. Followed => NoInertSnapshot
  BY DEF Followed
<1> QED
  BY <1>1, <1>2, <1>3, TracedCorrect, PTL DEF Spec

LEMMA RevertedStep ==
  ASSUME Control, DowngradedMeansReverted, [Next]_vars
  PROVE  DowngradedMeansReverted'
<1>1. ASSUME pc' # "unlock" \/ op' \notin Downgrades \/ result' \notin {"ok", "cancelled"}
      PROVE  DowngradedMeansReverted'
  BY <1>1 DEF DowngradedMeansReverted
<1>2. ASSUME NEW res, Return(res) PROVE DowngradedMeansReverted'
  BY <1>1, <1>2, ReturnFacts
<1>3. ASSUME UNCHANGED <<root, unread, op, pc, result>> PROVE DowngradedMeansReverted'
  BY <1>3 DEF DowngradedMeansReverted
<1>4. CASE Begin \/ Assign \/ Unassign \/ Cancel \/ UNCHANGED vars \/ (Environment /\ UNCHANGED flowVars)
  BY <1>1, <1>3, <1>4 DEF Begin, Assign, Unassign, Cancel, End, vars, groupVars, hostVars, bodyVars,
     flowVars, Environment, HostLost, HostBack, ForeignLock, ForeignUnlock
<1>5. CASE \/ Enter \/ EnterSelected \/ Lock \/ Undo \/ Unlock \/ RebootDone \/ Relock \/ LoopEnds
           \/ Work \/ PrepareOne \/ DowngradeOne \/ Stage
  BY <1>1, <1>2, <1>5 DEF Enter, EnterSelected, Lock, AfterLock, Undo, Unlock, RebootDone, Relock,
     LoopEnds, AfterLoop, Work, PrepareOne, DowngradeOne, Stage, Goto
<1>6. CASE Repo \/ Gate \/ Abandon \/ RunCommand \/ Probe
  BY <1>1, <1>6 DEF Repo, Gate, Abandon, RunCommand, Probe, Goto, End, Control, ctlVars, Prepares,
     Downgrades
<1>7. CASE Judge
  BY <1>1, <1>7 DEF Judge, JudgePrepare, JudgeDowngrade, JudgeInstall, JudgeUpdate, RebootOr, Goto,
     End, ctlVars, Downgrades
<1>8. CASE Reboot
  BY <1>1, <1>8 DEF Reboot, Goto
<1>9. CASE Settle
  <2>1. ASSUME op \in Downgrades, result' \in {"ok", "cancelled"}
        PROVE  \A h \in Hosts \ unread' : root[h] \cap Required[h] = {}
    BY <1>9, <2>1 DEF Settle, SettlePrepare, SettleDowngrade, SettleUpdate, SettleInstall, End,
       Prepares, Downgrades
  <2>2. op' = op /\ root' = root
    BY <1>9 DEF Settle, ctlVars, hostVars
  <2> QED
    BY <2>1, <2>2 DEF DowngradedMeansReverted
<1> QED
  BY <1>4, <1>5, <1>6, <1>7, <1>8, <1>9 DEF Next, Flow

\* A downgrade without a failure left no host it could read with a package at
\* the required version.
THEOREM DowngradesRevert == Spec => []DowngradedMeansReverted
<1>1. Init => DowngradedMeansReverted
  BY DEF Init, DowngradedMeansReverted
<1>2. Control /\ DowngradedMeansReverted /\ [Next]_vars => DowngradedMeansReverted'
  BY RevertedStep
<1> QED
  BY <1>1, <1>2, ControlCorrect, PTL DEF Spec
===============================================================================
