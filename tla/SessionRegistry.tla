--------------------------- MODULE SessionRegistry ---------------------------
(***************************************************************************)
(* The sessions of the HTTP transport of mtui-mcp: one per client, minted  *)
(* under a cap, closed by the idle sweeper or at shutdown (provider.rs,    *)
(* runner.rs, and close in session.rs).  The registry holds weak handles:  *)
(* the transport owns the server of a session, and a session lives as long *)
(* as its server, a background job or a closer refers to it.               *)
(*                                                                         *)
(* A dispatch is a fork on one template, whose entry it locks, or an       *)
(* exclusive one, which holds the session mutex and may load, reload and   *)
(* unload.  McpSession has how they wait for each other; here they begin   *)
(* and end.  What a session holds is the pool claims of its templates: an  *)
(* owner in the arbiter, and a line in the lock file of each host, which   *)
(* a release takes away only if it gets there.                             *)
(***************************************************************************)
EXTENDS Naturals, FiniteSets

CONSTANTS
    Session,    \* the sessions that may be minted, each once
    Template,   \* the templates a session may load
    Cap,        \* [mcp] session_cap
    Parallel,   \* [mcp] sweep_parallel
    MaxCalls,   \* bound: dispatches begun
    MaxStuck    \* bound: sessions with lines their releases did not reach

ASSUME RegistryAssumption ==
    /\ IsFiniteSet(Session)
    /\ Cap \in Nat \ {0} /\ Parallel \in Nat \ {0} /\ MaxCalls \in Nat /\ MaxStuck \in Nat

VARIABLES
    tracked,   \* the live set
    minted,    \* sessions minted so far
    server,    \* sessions whose server the transport holds
    dropping,  \* sessions whose server is dropped, its guard not yet
    quiet,     \* sessions untouched for session_idle_timeout
    loaded,    \* loaded[s]: the templates of s
    held,      \* held[s]: those with pool claims in the arbiter
    lines,     \* lines[s]: those with pool lock lines on hosts
    fork,      \* fork[s][t]: who holds the entry of t
    excl,      \* excl[s]: who holds the mutex of s
    sweeper,   \* the sweeper task
    stale,     \* what collect_stale handed to the sweep
    shut,      \* the server process
    batch,     \* sessions the running close_sessions has yet to close
    close,     \* close[s]: where the close of s is
    left,      \* left[s]: entries it has yet to tear down
    given,
    astray,    \* history, astray[s]: claims whose release was missed, cut or outrun
    stuck      \* history, stuck[s]: those whose release did not reach a host

claimVars == <<held, lines, stuck>>
callVars  == <<quiet, loaded, claimVars, fork, excl, given>>
closeVars == <<batch, close, left>>
liveVars  == <<tracked, minted, server, dropping>>
vars == <<liveVars, callVars, sweeper, stale, shut, closeVars, astray>>

By == {"none", "call", "job"}

TypeOK ==
    /\ tracked \subseteq Session /\ minted \subseteq Session /\ server \subseteq Session
    /\ dropping \subseteq Session /\ quiet \subseteq Session
    /\ loaded \in [Session -> SUBSET Template]
    /\ held \in [Session -> SUBSET Template] /\ lines \in [Session -> SUBSET Template]
    /\ stuck \in [Session -> SUBSET Template] /\ astray \in [Session -> SUBSET Template]
    /\ fork \in [Session -> [Template -> By]]
    /\ excl \in [Session -> By]
    /\ sweeper \in {"asleep", "sweep", "closing", "stopped"}
    /\ shut \in {"serving", "draining", "joining", "closing", "exit"}
    /\ stale \subseteq Session /\ batch \subseteq Session
    /\ close \in [Session -> {"none", "mutex", "entries"}]
    /\ left \in [Session -> SUBSET Template]
    /\ given \in 0 .. MaxCalls

Init ==
    /\ tracked = {} /\ minted = {} /\ server = {} /\ dropping = {} /\ quiet = {}
    /\ loaded = [s \in Session |-> {}] /\ held = [s \in Session |-> {}]
    /\ lines = [s \in Session |-> {}] /\ stuck = [s \in Session |-> {}]
    /\ astray = [s \in Session |-> {}]
    /\ fork = [s \in Session |-> [t \in Template |-> "none"]]
    /\ excl = [s \in Session |-> "none"]
    /\ sweeper = "asleep" /\ stale = {} /\ shut = "serving"
    /\ batch = {} /\ close = [s \in Session |-> "none"] /\ left = [s \in Session |-> {}]
    /\ given = 0

\* Foreground calls are handled on a clone of the server.
Serves(s) == excl[s] = "call" \/ \E t \in Template : fork[s][t] = "call"
Works(s)  == excl[s] = "job" \/ \E t \in Template : fork[s][t] = "job"

\* Somebody holds a strong handle: the weak one of the live set upgrades.
Alive(s) == s \in server \/ Works(s) \/ s \in stale \cup batch

Living == {s \in tracked : Alive(s)}

Closing == sweeper = "closing" \/ shut = "closing"

\* Nobody comes back for what these sessions hold.
Abandon(S) == astray' = [s \in Session |-> IF s \in S THEN astray[s] \cup held[s] ELSE astray[s]]

\* A release is best-effort: the claim is dropped in the arbiter even if the
\* unlock failed on its host, or the host is not in the group to be unlocked.
Release(s, t) ==
    /\ held' = [held EXCEPT ![s] = @ \ {t}]
    /\ \/ /\ lines' = [lines EXCEPT ![s] = @ \ {t}]
          /\ stuck' = [stuck EXCEPT ![s] = @ \ {t}]
       \/ /\ t \in lines[s] /\ Cardinality({r \in Session : stuck[r] # {}}) < MaxStuck
          /\ stuck' = [stuck EXCEPT ![s] = @ \cup {t}]
          /\ UNCHANGED lines

-----------------------------------------------------------------------------
(***************************************************************************)
(* Clients and the transport.                                              *)
(***************************************************************************)
\* try_make_server drops dead entries, then refuses at the cap; the ids of
\* sessions are counted up.
Mint ==
    /\ shut = "serving"
    /\ \/ /\ Cardinality(Living) >= Cap
          /\ tracked' = Living
          /\ UNCHANGED <<minted, server, quiet>>
       \/ /\ Cardinality(Living) < Cap
          /\ \E s \in Session \ minted :
                /\ s = CHOOSE next \in Session \ minted : TRUE
                /\ tracked' = Living \cup {s}
                /\ minted' = minted \cup {s} /\ server' = server \cup {s}
                /\ quiet' = quiet \ {s}
    /\ Abandon(tracked \ Living)
    /\ UNCHANGED <<dropping, loaded, claimVars, fork, excl, given, sweeper, stale, shut, closeVars>>

\* Time passes without a request, however busy the session may be.
GoQuiet(s) ==
    /\ s \in tracked /\ s \notin quiet
    /\ quiet' = quiet \cup {s}
    /\ UNCHANGED <<liveVars, loaded, claimVars, fork, excl, given, sweeper, stale, shut, closeVars,
                   astray>>

\* Every tool call and every listing of the tools touches the session when it
\* comes in, whatever else is under way; outside of the live set nothing reads
\* its clock.
Touch(s) ==
    /\ shut = "serving" /\ s \in server \cap tracked \cap quiet
    /\ quiet' = quiet \ {s}
    /\ UNCHANGED <<liveVars, loaded, claimVars, fork, excl, given, sweeper, stale, shut, closeVars,
                   astray>>

\* A call that came in is dispatched, in the foreground or by a job, as soon
\* as the gate lets it: it keeps exclusive dispatches and forks apart.
Call(s) ==
    /\ shut = "serving" /\ s \in server /\ given < MaxCalls
    /\ given' = given + 1
    /\ excl[s] = "none"
    /\ \E by \in {"call", "job"} :
          \/ /\ \A t \in Template : fork[s][t] = "none"
             /\ excl' = [excl EXCEPT ![s] = by]
             /\ UNCHANGED fork
          \/ /\ \E t \in loaded[s] :
                   /\ fork[s][t] = "none"
                   /\ fork' = [fork EXCEPT ![s][t] = by]
             /\ UNCHANGED excl
    /\ UNCHANGED <<liveVars, quiet, loaded, claimVars, sweeper, stale, shut, closeVars, astray>>

InHand(s, t) == t \in loaded[s] /\ (excl[s] # "none" \/ fork[s][t] # "none")

\* A close that is under way or to come will still see the entry of t.
ToClose(s, t) == s \in batch /\ (close[s] = "entries" => t \in left[s])

\* add_host and load_template claim hosts, remove_host gives them up.
Claim(s, t) ==
    /\ InHand(s, t) /\ t \notin held[s]
    /\ held' = [held EXCEPT ![s] = @ \cup {t}]
    /\ lines' = [lines EXCEPT ![s] = @ \cup {t}]
    /\ stuck' = [stuck EXCEPT ![s] = @ \ {t}]
    /\ astray' = [astray EXCEPT ![s] = IF s \in tracked \/ ToClose(s, t) THEN @ \ {t} ELSE @ \cup {t}]
    /\ UNCHANGED <<liveVars, quiet, loaded, fork, excl, given, sweeper, stale, shut, closeVars>>

GiveUp(s, t) ==
    /\ InHand(s, t) /\ t \in held[s]
    /\ Release(s, t)
    /\ UNCHANGED <<liveVars, quiet, loaded, fork, excl, given, sweeper, stale, shut, closeVars,
                   astray>>

Load(s, t) ==
    /\ excl[s] # "none" /\ t \notin loaded[s]
    /\ loaded' = [loaded EXCEPT ![s] = @ \cup {t}]
    /\ UNCHANGED <<liveVars, quiet, claimVars, fork, excl, given, sweeper, stale, shut, closeVars,
                   astray>>

\* Also the first half of a reload.  A close that has the handle of the old
\* entry finds nothing there.
Unload(s, t) ==
    /\ excl[s] # "none" /\ t \in loaded[s]
    /\ loaded' = [loaded EXCEPT ![s] = @ \ {t}]
    /\ IF t \in held[s] THEN Release(s, t) ELSE UNCHANGED claimVars
    /\ left' = [left EXCEPT ![s] = @ \ {t}]
    /\ UNCHANGED <<liveVars, quiet, fork, excl, given, sweeper, stale, shut, batch, close, astray>>

EndCall(s) ==
    /\ \/ excl[s] # "none" /\ excl' = [excl EXCEPT ![s] = "none"] /\ UNCHANGED fork
       \/ /\ \E t \in Template : /\ fork[s][t] # "none"
                                 /\ fork' = [fork EXCEPT ![s][t] = "none"]
          /\ UNCHANGED excl
    /\ UNCHANGED <<liveVars, quiet, loaded, claimVars, given, sweeper, stale, shut, closeVars, astray>>

\* The client deletes its session, the keep-alive of the transport passes,
\* or the transport itself goes: its last clone of the server is dropped.
Disconnect(s) ==
    /\ s \in server /\ ~ Serves(s)
    /\ server' = server \ {s} /\ dropping' = dropping \cup {s}
    /\ UNCHANGED <<tracked, minted, callVars, sweeper, stale, shut, closeVars, astray>>

\* SessionGuard::drop
GuardDrop(s) ==
    /\ s \in dropping
    /\ dropping' = dropping \ {s}
    /\ tracked' = tracked \ {s}
    /\ Abandon(tracked \cap {s})
    /\ UNCHANGED <<minted, server, callVars, sweeper, stale, shut, closeVars>>

-----------------------------------------------------------------------------
(***************************************************************************)
(* close_sessions: at most Parallel at a time, under one deadline.         *)
(***************************************************************************)
StartClose(s) ==
    /\ s \in batch /\ close[s] = "none" /\ Closing
    /\ Cardinality({r \in batch : close[r] # "none"}) < Parallel
    /\ close' = [close EXCEPT ![s] = "mutex"]
    /\ UNCHANGED <<liveVars, callVars, sweeper, stale, shut, batch, left, astray>>

\* The handles of all entries are taken under the session mutex.
TakeHandles(s) ==
    /\ close[s] = "mutex" /\ excl[s] = "none"
    /\ close' = [close EXCEPT ![s] = "entries"]
    /\ left' = [left EXCEPT ![s] = loaded[s]]
    /\ UNCHANGED <<liveVars, callVars, sweeper, stale, shut, batch, astray>>

\* release_pool_claims, then the hosts are closed.
CloseEntry(s, t) ==
    /\ close[s] = "entries" /\ t \in left[s] /\ fork[s][t] = "none"
    /\ IF t \in held[s] THEN Release(s, t) ELSE UNCHANGED claimVars
    /\ left' = [left EXCEPT ![s] = @ \ {t}]
    /\ UNCHANGED <<liveVars, quiet, loaded, fork, excl, given, sweeper, stale, shut, batch, close,
                   astray>>

Through(s) ==
    /\ batch' = batch \ {s}
    /\ close' = [close EXCEPT ![s] = "none"] /\ left' = [left EXCEPT ![s] = {}]
    /\ UNCHANGED <<liveVars, callVars, sweeper, stale, shut>>

Closed(s) == close[s] = "entries" /\ left[s] = {} /\ Through(s) /\ UNCHANGED astray

\* The timeout of a session runs from when it has the handles.
Lapse(s) == close[s] = "entries" /\ left[s] # {} /\ Through(s) /\ Abandon({s})

\* The future of the batch is dropped, by its deadline or by the token.
DropBatch ==
    /\ batch' = {} /\ close' = [s \in Session |-> "none"] /\ left' = [s \in Session |-> {}]
    /\ Abandon(batch)

\* Mutant: every close has its timeout, so the batch needs none.
DeadlineNever == FALSE /\ UNCHANGED vars

Deadline ==
    /\ batch # {} /\ Closing
    /\ DropBatch
    /\ UNCHANGED <<liveVars, callVars, sweeper, stale, shut>>

-----------------------------------------------------------------------------
(***************************************************************************)
(* The sweeper.                                                            *)
(***************************************************************************)
\* Mutant: a sweep that finds nothing is the last one.
WakeToFind ==
    /\ sweeper = "asleep" /\ shut # "exit"
    /\ tracked' = Living /\ Abandon(tracked \ Living)
    /\ stale' = Living \cap quiet
    /\ sweeper' = IF stale' = {} THEN "stopped" ELSE "sweep"
    /\ UNCHANGED <<minted, server, dropping, callVars, shut, closeVars>>

\* collect_stale
Wake ==
    /\ sweeper = "asleep" /\ shut # "exit"
    /\ tracked' = Living /\ Abandon(tracked \ Living)
    /\ stale' = Living \cap quiet
    /\ sweeper' = IF stale' = {} THEN "asleep" ELSE "sweep"
    /\ UNCHANGED <<minted, server, dropping, callVars, shut, closeVars>>

\* Mutant: what was collected is closed.
RevalidateNot(s) ==
    /\ sweeper = "sweep" /\ s \in stale
    /\ stale' = stale \ {s}
    /\ LET out == {s} \cap tracked
       IN  tracked' = tracked \ out /\ batch' = batch \cup out
    /\ sweeper' = IF stale' # {} THEN "sweep" ELSE IF batch' # {} THEN "closing" ELSE "asleep"
    /\ UNCHANGED <<minted, server, dropping, callVars, shut, close, left, astray>>

\* A session that is gone from the live set, or touched, is spared.
Revalidate(s) ==
    /\ sweeper = "sweep" /\ s \in stale
    /\ stale' = stale \ {s}
    /\ LET out == {s} \cap tracked \cap quiet
       IN  tracked' = tracked \ out /\ batch' = batch \cup out
    /\ sweeper' = IF stale' # {} THEN "sweep" ELSE IF batch' # {} THEN "closing" ELSE "asleep"
    /\ UNCHANGED <<minted, server, dropping, callVars, shut, close, left, astray>>

Rest ==
    /\ sweeper = "closing" /\ batch = {}
    /\ sweeper' = "asleep"
    /\ UNCHANGED <<liveVars, callVars, stale, shut, closeVars, astray>>

-----------------------------------------------------------------------------
(***************************************************************************)
(* serve_http, from the signal on.                                         *)
(***************************************************************************)
Signal ==
    /\ shut = "serving"
    /\ shut' = "draining"
    /\ UNCHANGED <<liveVars, callVars, sweeper, stale, closeVars, astray>>

\* The last connection is closed, and the token of the sweeper cancelled.
Drained ==
    /\ shut = "draining"
    /\ shut' = "joining"
    /\ UNCHANGED <<liveVars, callVars, sweeper, stale, closeVars, astray>>

\* The sweeper looks at the token wherever it awaits.
Stop ==
    /\ shut = "joining" /\ sweeper \in {"asleep", "closing"}
    /\ sweeper' = "stopped"
    /\ DropBatch
    /\ UNCHANGED <<liveVars, callVars, stale, shut>>

\* Mutant: busy sessions are left to their clients.
CloseIdle ==
    /\ shut = "joining" /\ sweeper = "stopped"
    /\ shut' = "closing"
    /\ batch' = Living \cap quiet /\ tracked' = {} /\ Abandon(tracked \ Living)
    /\ UNCHANGED <<minted, server, dropping, callVars, sweeper, stale, close, left>>

CloseAll ==
    /\ shut = "joining" /\ sweeper = "stopped"
    /\ shut' = "closing"
    /\ batch' = Living /\ tracked' = {} /\ Abandon(tracked \ Living)
    /\ UNCHANGED <<minted, server, dropping, callVars, sweeper, stale, close, left>>

Exit ==
    /\ shut = "closing" /\ batch = {}
    /\ shut' = "exit"
    /\ UNCHANGED <<liveVars, callVars, sweeper, stale, closeVars, astray>>

-----------------------------------------------------------------------------
Client(s) ==
    \/ GoQuiet(s) \/ Touch(s) \/ Call(s) \/ EndCall(s) \/ Disconnect(s) \/ GuardDrop(s)
    \/ \E t \in Template : Claim(s, t) \/ GiveUp(s, t) \/ Load(s, t) \/ Unload(s, t)

Close(s) ==
    \/ StartClose(s) \/ TakeHandles(s) \/ Closed(s)
    \/ \E t \in Template : CloseEntry(s, t)

Next ==
    \/ /\ shut # "exit"
       /\ \/ Mint \/ Wake \/ Rest \/ Deadline
          \/ Signal \/ Drained \/ Stop \/ CloseAll \/ Exit
          \/ \E s \in Session : Client(s) \/ Close(s) \/ Lapse(s) \/ Revalidate(s)
    \/ shut = "exit" /\ UNCHANGED vars

Spec == Init /\ [][Next]_vars

\* What the runtime has ready it runs, and timers go off.  Clients, jobs and
\* hosts owe nothing.
FairSpec ==
    /\ Spec
    /\ WF_vars(Wake) /\ WF_vars(Rest) /\ WF_vars(Deadline)
    /\ WF_vars(Stop) /\ WF_vars(CloseAll) /\ WF_vars(Exit)
    /\ \A s \in Session : WF_vars(Revalidate(s)) /\ WF_vars(Close(s)) /\ WF_vars(GuardDrop(s))

-----------------------------------------------------------------------------
\* When the process exits a pool line is left on a host only if its release
\* did not reach it, or if nobody was to release it any more: the server of its
\* session was dropped before a close, the close was cut short, or the claim
\* came behind the close.  A close that ran to its end leaves no others.
NothingLeftBehind ==
    shut = "exit" => \A s \in Session : lines[s] \subseteq stuck[s] \cup astray[s]

\* The sweep takes out no session that was touched since it was collected.
SparesTheActive ==
    [][\A s \in batch' \ batch : sweeper = "sweep" => s \in quiet]_vars

\* The process exits, whatever a job or a host does: a close may wait for
\* the mutex of its session outside of its own timeout.
ShutdownEnds == shut = "joining" ~> shut = "exit"

\* A session whose client stays connected and asks for nothing gives its
\* claims up, unless work of its own claims behind the close, or the close is
\* cut: by its timeout, or by the deadline of the batch, which the close of
\* another session may use up.
IdleReclaimed ==
    \A s \in Session :
        s \in tracked \cap quiet ~> held[s] \subseteq astray[s] \/ s \notin quiet \/ shut # "serving"
===============================================================================
