------------------------------- MODULE RwGate -------------------------------
(***************************************************************************)
(* The registry gate of an MCP session: an async readers-writer lock that  *)
(* prefers writers (crates/mtui-mcp/src/concurrency.rs).                   *)
(*                                                                         *)
(* A Task is one request or job.  The counters are behind a mutex, so a    *)
(* check, a bump and a release are one step each; arming the wake-up, the  *)
(* check, the sleep and the notification are separate steps.  A task can   *)
(* be dropped wherever it awaits, that is while it is parked or holds.     *)
(***************************************************************************)
EXTENDS Integers, FiniteSets

CONSTANT Task

VARIABLES
  readers, writersWaiting, writerActive,   \* Inner
  mode,       \* what each task asks for
  pc,         \* where it is; "notify" is the end of a guard's drop
  notified    \* its Notified future has been woken

inner == <<readers, writersWaiting, writerActive>>
vars == <<inner, mode, pc, notified>>

ASSUME TaskAssumption == IsFiniteSet(Task)

Init ==
  /\ readers = 0 /\ writersWaiting = 0 /\ writerActive = FALSE
  /\ mode = [t \in Task |-> "shared"]
  /\ pc = [t \in Task |-> "idle"]
  /\ notified = [t \in Task |-> FALSE]

Goto(t, label) == pc' = [pc EXCEPT ![t] = label]

Reader(t) == mode[t] = "shared"
Writer(t) == mode[t] = "exclusive"

Shared(t) ==
  /\ pc[t] = "idle"
  /\ mode' = [mode EXCEPT ![t] = "shared"]
  /\ Goto(t, "register")
  /\ UNCHANGED <<inner, notified>>

(* The bump of PendingWriter::new blocks new readers for the whole wait.   *)
Exclusive(t) ==
  /\ pc[t] = "idle"
  /\ mode' = [mode EXCEPT ![t] = "exclusive"]
  /\ writersWaiting' = writersWaiting + 1
  /\ Goto(t, "register")
  /\ UNCHANGED <<readers, writerActive, notified>>

(* notified() and enable(): from here on a notification is not missed.     *)
Register(t) ==
  /\ pc[t] = "register"
  /\ notified' = [notified EXCEPT ![t] = FALSE]
  /\ Goto(t, "check")
  /\ UNCHANGED <<inner, mode>>

(* Writer preference: a queued writer closes the gate to readers only.     *)
Closed(t) == IF Reader(t) THEN writersWaiting > 0 \/ writerActive
                          ELSE readers > 0 \/ writerActive

(* Mutant: readers only look at the writer that holds.                     *)
EnterOvertaking(t) ==
  /\ pc[t] = "check" /\ Reader(t) /\ ~ writerActive
  /\ readers' = readers + 1
  /\ Goto(t, "held")
  /\ UNCHANGED <<writersWaiting, writerActive, mode, notified>>

EnterShared(t) ==
  /\ pc[t] = "check" /\ Reader(t) /\ ~ Closed(t)
  /\ readers' = readers + 1
  /\ Goto(t, "held")
  /\ UNCHANGED <<writersWaiting, writerActive, mode, notified>>

(* The guard inherits the bump.                                            *)
EnterExclusive(t) ==
  /\ pc[t] = "check" /\ Writer(t) /\ ~ Closed(t)
  /\ writerActive' = TRUE
  /\ Goto(t, "held")
  /\ UNCHANGED <<readers, writersWaiting, mode, notified>>

Park(t) ==
  /\ pc[t] = "check" /\ Closed(t)
  /\ Goto(t, "parked")
  /\ UNCHANGED <<inner, mode, notified>>

Wake(t) ==
  /\ pc[t] = "parked" /\ notified[t]
  /\ Goto(t, "register")
  /\ UNCHANGED <<inner, mode, notified>>

(* Mutant: only the guard of a holder gives the bump back.                 *)
CancelLeaking(t) ==
  /\ pc[t] = "parked"
  /\ Goto(t, "idle")
  /\ UNCHANGED <<inner, mode, notified>>

(* Mutant: the bump is given back, but nobody is told.                     *)
CancelSilent(t) ==
  /\ pc[t] = "parked"
  /\ writersWaiting' = writersWaiting - (IF Writer(t) THEN 1 ELSE 0)
  /\ Goto(t, "idle")
  /\ UNCHANGED <<readers, writerActive, mode, notified>>

(* The waiting future is dropped; a pending writer's guard runs.           *)
Cancel(t) ==
  /\ pc[t] = "parked"
  /\ IF Reader(t)
       THEN Goto(t, "idle") /\ UNCHANGED inner
       ELSE /\ writersWaiting' = writersWaiting - 1
            /\ Goto(t, "notify")
            /\ UNCHANGED <<readers, writerActive>>
  /\ UNCHANGED <<mode, notified>>

LeaveShared(t) ==
  /\ pc[t] = "held" /\ Reader(t)
  /\ readers' = readers - 1
  /\ Goto(t, "notify")
  /\ UNCHANGED <<writersWaiting, writerActive, mode, notified>>

LeaveExclusive(t) ==
  /\ pc[t] = "held" /\ Writer(t)
  /\ writerActive' = FALSE
  /\ writersWaiting' = writersWaiting - 1
  /\ Goto(t, "notify")
  /\ UNCHANGED <<readers, mode, notified>>

(* notify_waiters, after the mutex was let go: every armed future hears.   *)
Notify(t) ==
  /\ pc[t] = "notify"
  /\ Goto(t, "idle")
  /\ notified' = [u \in Task |-> notified[u] \/ pc[u] \in {"check", "parked"}]
  /\ UNCHANGED <<inner, mode>>

(* What the runtime does for a task that can go on.                        *)
Poll(t) == \/ Register(t) \/ EnterShared(t) \/ EnterExclusive(t) \/ Park(t)
           \/ Wake(t) \/ Notify(t)

Leave(t) == LeaveShared(t) \/ LeaveExclusive(t)

Next == \E t \in Task :
  Shared(t) \/ Exclusive(t) \/ Poll(t) \/ Cancel(t) \/ Leave(t)

Spec == Init /\ [][Next]_vars

(* Tasks are polled, and a command that holds the gate comes to an end.    *)
FairSpec == Spec /\ \A t \in Task : WF_vars(Poll(t)) /\ WF_vars(Leave(t))

----------------------------------------------------------------------------
Reading == {t \in Task : pc[t] = "held" /\ Reader(t)}
Writing == {t \in Task : pc[t] = "held" /\ Writer(t)}
Queued == {t \in Task : pc[t] \in {"register", "check", "parked"} /\ Writer(t)}

TypeOK ==
  /\ readers \in Nat /\ writersWaiting \in Nat /\ writerActive \in BOOLEAN
  /\ mode \in [Task -> {"shared", "exclusive"}]
  /\ pc \in [Task -> {"idle", "register", "check", "parked", "held", "notify"}]
  /\ notified \in [Task -> BOOLEAN]

(* However the calls were cut short, the counters say who is there: no     *)
(* bump is leaked, none is given back twice.                               *)
CountersExact ==
  /\ readers = Cardinality(Reading)
  /\ writersWaiting = Cardinality(Queued \cup Writing)
  /\ writerActive = (Writing # {})

(* A registry mutator runs with no command beside it.                      *)
WriterAlone ==
  \A t \in Writing : Reading = {} /\ Writing = {t}

(* A task sleeps only while the gate is closed to it, or a wake-up is on   *)
(* its way.                                                                *)
NoLostWakeup ==
  \A t \in Task : pc[t] = "parked" /\ ~ notified[t] /\ ~ Closed(t)
                    => \E u \in Task : pc[u] = "notify"

(* The gate implements the abstract lock, so no reader overtakes a queued  *)
(* writer.                                                                 *)
Promise == INSTANCE ReadersWriters
  WITH reading <- Reading, writing <- Writing, queued <- Queued

ImplementsReadersWriters == Promise!Spec

(* A stream of commands cannot starve the writers: while one is queued,    *)
(* one gets in (or they all went away).                                    *)
WritersServed == Queued # {} ~> (Writing # {} \/ Queued = {})

(* Once no more writers come, every reader that waits gets its answer.     *)
ReadersServed ==
  <>[](\A t \in Task : pc[t] # "idle" => Reader(t))
    => \A t \in Task : pc[t] = "parked" ~> pc[t] # "parked"
=============================================================================
