---------------------------- MODULE PoolSelection ----------------------------
(***************************************************************************)
(* How a loaded template gets its reference hosts, and gives them back:    *)
(* Session::resolve_and_record_pool, connect_and_add_hosts and             *)
(* connect_pool_backups (crates/mtui-core/src/session.rs), with the        *)
(* release paths of the test report and of the template registry.          *)
(*                                                                         *)
(* A Report is one loaded template of one registry.  Commands on one       *)
(* report are serialised by its entry lock; those of different reports     *)
(* interleave at every await.  The host arbiter is the map of HostArbiter, *)
(* the remote pool lock is taken and removed in one step: how its file is  *)
(* created and stamped is the subject of TargetLock.                       *)
(***************************************************************************)
EXTENDS Integers, FiniteSets

CONSTANTS
  Report, Host, Rrid,
  RridOf,      \* [Report -> Rrid]; two sessions may load one RRID
  Slot,        \* the test-target slots of the testplatforms
  Candidates,  \* [Slot -> set of hosts]; shuffled, so the order is any order
  RefHosts,    \* [Report -> set of hosts] the template names itself
  Nobody,      \* no owner, no pool claim
  Foreign,     \* the pool claim of another process
  NoHost, NoSlot,
  MaxAdds,     \* bound: add_host commands per load
  Named,       \* hosts an operator may name in `add_host -t`
  MaxFaults    \* bound: failed releases and aborted commands

VARIABLES
  owners,     \* the process-wide arbiter: [Host -> Report or Nobody]
  remote,     \* the pool lockfile of each host: an Rrid, Foreign or Nobody
  pc,         \* where the command of each report is
  adds,       \* add_host commands since the load
  group,      \* the connected hosts of the report's HostsGroup
  claims,     \* pool_claims
  slots,      \* slot_candidates; {} is a missing key
  todo,       \* slots this command has still to look at
  chosen,     \* hosts pool_select has acquired, not yet recorded
  wanted,     \* hosts of the connect batch still being dialled
  live,       \* hosts of the batch that are connected
  attempted,  \* hosts dialled by this command
  slot, cand, \* the slot and the sibling being tried as a backup
  faults

batch == <<todo, chosen, wanted, live, attempted, slot, cand>>
vars  == <<owners, remote, pc, adds, group, claims, slots, batch, faults>>

ASSUME PoolAssumption ==
  /\ RridOf \in [Report -> Rrid]
  /\ Candidates \in [Slot -> SUBSET Host]
  /\ RefHosts \in [Report -> SUBSET Host]
  /\ Nobody \notin Report \cup Rrid \cup {Foreign}
  /\ Foreign \notin Rrid /\ NoHost \notin Host /\ NoSlot \notin Slot
  /\ MaxAdds \in Nat /\ MaxFaults \in Nat /\ Named \subseteq Host

Open(r, h)   == owners[h] \in {Nobody, r}
Owned(r)     == {h \in Host : owners[h] = r}
Free(r, H)   == [h \in Host |-> IF h \in H /\ owners[h] = r THEN Nobody
                                ELSE owners[h]]
Claimable(r, h) == remote[h] \in {Nobody, RridOf[r]}

Init ==
  /\ owners = [h \in Host |-> Nobody]
  /\ remote \in [Host -> {Nobody, Foreign}]
  /\ pc = [r \in Report |-> "unloaded"]
  /\ adds = [r \in Report |-> 0]
  /\ group = [r \in Report |-> {}]
  /\ claims = [r \in Report |-> {}]
  /\ slots = [r \in Report |-> [s \in Slot |-> {}]]
  /\ todo = [r \in Report |-> {}]
  /\ chosen = [r \in Report |-> {}]
  /\ wanted = [r \in Report |-> {}]
  /\ live = [r \in Report |-> {}]
  /\ attempted = [r \in Report |-> {}]
  /\ slot = [r \in Report |-> NoSlot]
  /\ cand = [r \in Report |-> NoHost]
  /\ faults = 0

Goto(r, l) == pc' = [pc EXCEPT ![r] = l]

(* A command is over: what it kept in local variables is gone.             *)
Finish(r, l) ==
  /\ Goto(r, l)
  /\ todo' = [todo EXCEPT ![r] = {}]
  /\ chosen' = [chosen EXCEPT ![r] = {}]
  /\ wanted' = [wanted EXCEPT ![r] = {}]
  /\ live' = [live EXCEPT ![r] = {}]
  /\ attempted' = [attempted EXCEPT ![r] = {}]
  /\ slot' = [slot EXCEPT ![r] = NoSlot]
  /\ cand' = [cand EXCEPT ![r] = NoHost]

----------------------------------------------------------------------------
(* pool_select: one host per slot, out of those the arbiter has free.      *)

(* load_template with autoconnect, or `add_host` without -t.               *)
StartSelection(r) ==
  /\ pc[r] \in {"unloaded", "idle"} /\ adds[r] <= MaxAdds
  /\ adds' = [adds EXCEPT ![r] = @ + 1]
  /\ todo' = [todo EXCEPT ![r] = Slot]
  /\ wanted' = [wanted EXCEPT ![r] = IF pc[r] = "unloaded" THEN RefHosts[r] ELSE {}]
  /\ Goto(r, "select")
  /\ UNCHANGED <<owners, remote, group, claims, slots, chosen, live,
                 attempted, slot, cand, faults>>

(* The same with an inventory that cannot be built: nothing is selected,   *)
(* and the candidates an earlier command recorded stay.                    *)
StartWithoutStore(r) ==
  LET hosts == IF pc[r] = "unloaded" THEN RefHosts[r] ELSE {} IN
  /\ pc[r] \in {"unloaded", "idle"} /\ adds[r] <= MaxAdds
  /\ adds' = [adds EXCEPT ![r] = @ + 1]
  /\ wanted' = [wanted EXCEPT ![r] = hosts \ group[r]]
  /\ attempted' = [attempted EXCEPT ![r] = hosts \ group[r]]
  /\ Goto(r, "connect")
  /\ UNCHANGED <<owners, remote, group, claims, slots, todo, chosen, live,
                 slot, cand, faults>>

(* Mutant: a candidate is taken without asking the arbiter.                *)
SelectTaking(r, s) ==
  /\ pc[r] = "select" /\ s \in todo[r]
  /\ todo' = [todo EXCEPT ![r] = @ \ {s}]
  /\ \E h \in Candidates[s] :
       /\ owners' = [owners EXCEPT ![h] = r]
       /\ chosen' = [chosen EXCEPT ![r] = @ \cup {h}]
  /\ UNCHANGED <<remote, pc, adds, group, claims, slots, wanted, live,
                 attempted, slot, cand, faults>>

(* One slot.  The wait for a busy pool is in when this step is taken.      *)
SelectSlot(r, s) ==
  /\ pc[r] = "select" /\ s \in todo[r]
  /\ todo' = [todo EXCEPT ![r] = @ \ {s}]
  /\ \/ /\ \E h \in Candidates[s] : owners[h] = r
        /\ UNCHANGED <<owners, chosen>>
     \/ /\ \A h \in Candidates[s] : owners[h] # r
        /\ \E h \in Candidates[s] :
             /\ Open(r, h)
             /\ owners' = [owners EXCEPT ![h] = r]
             /\ chosen' = [chosen EXCEPT ![r] = @ \cup {h}]
     \/ /\ \A h \in Candidates[s] : ~ Open(r, h)
        /\ UNCHANGED <<owners, chosen>>
  /\ UNCHANGED <<remote, pc, adds, group, claims, slots, wanted, live,
                 attempted, slot, cand, faults>>

(* The claims and the candidates are recorded on the report, and what is   *)
(* not connected yet is dialled.                                           *)
Record(r) ==
  /\ pc[r] = "select" /\ todo[r] = {}
  /\ claims' = [claims EXCEPT ![r] = @ \cup chosen[r]]
  /\ slots' = [slots EXCEPT ![r] = Candidates]
  /\ wanted' = [wanted EXCEPT ![r] = (@ \cup chosen[r]) \ group[r]]
  /\ attempted' = [attempted EXCEPT ![r] = (wanted[r] \cup chosen[r]) \ group[r]]
  /\ chosen' = [chosen EXCEPT ![r] = {}]
  /\ Goto(r, "connect")
  /\ UNCHANGED <<owners, remote, adds, group, todo, live, slot, cand, faults>>

(* `add_host -t h`: no selection, straight to the connect batch.           *)
AddNamed(r, h) ==
  /\ pc[r] = "idle" /\ adds[r] <= MaxAdds
  /\ adds' = [adds EXCEPT ![r] = @ + 1]
  /\ wanted' = [wanted EXCEPT ![r] = {h} \ group[r]]
  /\ attempted' = [attempted EXCEPT ![r] = {h} \ group[r]]
  /\ Goto(r, "connect")
  /\ UNCHANGED <<owners, remote, group, claims, slots, todo, chosen, live,
                 slot, cand, faults>>

----------------------------------------------------------------------------
(* connect_and_add_hosts: the batch is dialled concurrently; a pool claim  *)
(* also takes the remote pool lock, a host that is busy there is dropped.  *)

ConnectHost(r, h) ==
  /\ pc[r] = "connect" /\ h \in wanted[r]
  /\ wanted' = [wanted EXCEPT ![r] = @ \ {h}]
  /\ \/ /\ h \notin claims[r]
        /\ live' = [live EXCEPT ![r] = @ \cup {h}]
        /\ UNCHANGED remote
     \/ /\ h \in claims[r] /\ Claimable(r, h)
        /\ remote' = [remote EXCEPT ![h] = RridOf[r]]
        /\ live' = [live EXCEPT ![r] = @ \cup {h}]
     \/ UNCHANGED <<remote, live>>
  /\ UNCHANGED <<owners, pc, adds, group, claims, slots, todo, chosen,
                 attempted, slot, cand, faults>>

(* The batch is folded into the group.                                     *)
Fold(r) ==
  /\ pc[r] = "connect" /\ wanted[r] = {}
  /\ group' = [group EXCEPT ![r] = @ \cup live[r]]
  /\ todo' = [todo EXCEPT ![r] = {s \in Slot : slots[r][s] # {}}]
  /\ Goto(r, "backups")
  /\ UNCHANGED <<owners, remote, adds, claims, slots, chosen, wanted, live,
                 attempted, slot, cand, faults>>

----------------------------------------------------------------------------
(* connect_pool_backups.                                                   *)

(* A slot with a host of this batch is served.                             *)
SlotServed(r, s) ==
  /\ pc[r] = "backups" /\ s \in todo[r]
  /\ slots[r][s] \cap live[r] # {}
  /\ todo' = [todo EXCEPT ![r] = @ \ {s}]
  /\ UNCHANGED <<owners, remote, pc, adds, group, claims, slots, chosen,
                 wanted, live, attempted, slot, cand, faults>>

(* Mutant: the fallback runs for every slot.                               *)
SlotRetried(r, s) ==
  /\ pc[r] = "backups" /\ s \in todo[r]
  /\ todo' = [todo EXCEPT ![r] = @ \ {s}]
  /\ slot' = [slot EXCEPT ![r] = s]
  /\ owners' = Free(r, slots[r][s] \cap claims[r])
  /\ claims' = [claims EXCEPT ![r] = @ \ slots[r][s]]
  /\ Goto(r, "try")
  /\ UNCHANGED <<remote, adds, group, slots, chosen, wanted, live, attempted,
                 cand, faults>>

(* Of any other slot the claims are dropped, and its siblings tried.       *)
SlotUnserved(r, s) ==
  /\ pc[r] = "backups" /\ s \in todo[r]
  /\ slots[r][s] \cap live[r] = {}
  /\ todo' = [todo EXCEPT ![r] = @ \ {s}]
  /\ slot' = [slot EXCEPT ![r] = s]
  /\ owners' = Free(r, slots[r][s] \cap claims[r])
  /\ claims' = [claims EXCEPT ![r] = @ \ slots[r][s]]
  /\ Goto(r, "try")
  /\ UNCHANGED <<remote, adds, group, slots, chosen, wanted, live, attempted,
                 cand, faults>>

(* Mutant: a sibling that failed may be drawn again.                       *)
TryAgain(r, h) ==
  /\ pc[r] = "try" /\ h \in slots[r][slot[r]] /\ Open(r, h)
  /\ owners' = [owners EXCEPT ![h] = r]
  /\ claims' = [claims EXCEPT ![r] = @ \cup {h}]
  /\ cand' = [cand EXCEPT ![r] = h]
  /\ Goto(r, "dial")
  /\ UNCHANGED <<remote, adds, group, slots, todo, chosen, wanted, live,
                 attempted, slot, faults>>

TrySibling(r, h) ==
  /\ pc[r] = "try" /\ h \in slots[r][slot[r]] \ attempted[r] /\ Open(r, h)
  /\ owners' = [owners EXCEPT ![h] = r]
  /\ claims' = [claims EXCEPT ![r] = @ \cup {h}]
  /\ attempted' = [attempted EXCEPT ![r] = @ \cup {h}]
  /\ cand' = [cand EXCEPT ![r] = h]
  /\ Goto(r, "dial")
  /\ UNCHANGED <<remote, adds, group, slots, todo, chosen, wanted, live, slot,
                 faults>>

(* No sibling left, or all of them busy until the wait budget is spent.    *)
GiveUpSlot(r) ==
  /\ pc[r] = "try"
  /\ \A h \in slots[r][slot[r]] \ attempted[r] : ~ Open(r, h)
  /\ slot' = [slot EXCEPT ![r] = NoSlot]
  /\ Goto(r, "backups")
  /\ UNCHANGED <<owners, remote, adds, group, claims, slots, todo, chosen,
                 wanted, live, attempted, cand, faults>>

DialSucceeds(r) ==
  LET h == cand[r] IN
  /\ pc[r] = "dial" /\ Claimable(r, h)
  /\ remote' = [remote EXCEPT ![h] = RridOf[r]]
  /\ group' = [group EXCEPT ![r] = @ \cup {h}]
  /\ slot' = [slot EXCEPT ![r] = NoSlot]
  /\ cand' = [cand EXCEPT ![r] = NoHost]
  /\ Goto(r, "backups")
  /\ UNCHANGED <<owners, adds, claims, slots, todo, chosen, wanted, live,
                 attempted, faults>>

(* Mutant: the arbiter keeps the host that could not be dialled.           *)
DialKeeps(r) ==
  LET h == cand[r] IN
  /\ pc[r] = "dial"
  /\ claims' = [claims EXCEPT ![r] = @ \ {h}]
  /\ cand' = [cand EXCEPT ![r] = NoHost]
  /\ Goto(r, "try")
  /\ UNCHANGED <<owners, remote, adds, group, slots, todo, chosen, wanted,
                 live, attempted, slot, faults>>

DialFails(r) ==
  LET h == cand[r] IN
  /\ pc[r] = "dial"
  /\ owners' = Free(r, {h})
  /\ claims' = [claims EXCEPT ![r] = @ \ {h}]
  /\ cand' = [cand EXCEPT ![r] = NoHost]
  /\ Goto(r, "try")
  /\ UNCHANGED <<remote, adds, group, slots, todo, chosen, wanted, live,
                 attempted, slot, faults>>

EndAdd(r) ==
  /\ pc[r] = "backups" /\ todo[r] = {}
  /\ Finish(r, "idle")
  /\ UNCHANGED <<owners, remote, adds, group, claims, slots, faults>>

----------------------------------------------------------------------------
(* Giving hosts back.                                                      *)

(* Target::close and pool_unlock(false) go by the RRID in the file; with a *)
(* link that is down they leave the file behind and say nothing.           *)
Unclaimed(r, H) ==
  \/ /\ remote' = [h \in Host |-> IF h \in H /\ remote[h] = RridOf[r]
                                  THEN Nobody ELSE remote[h]]
     /\ UNCHANGED faults
  \/ /\ faults < MaxFaults /\ faults' = faults + 1
     /\ \E h \in H : remote[h] = RridOf[r]
     /\ UNCHANGED remote

(* `remove_host`: the target is taken out of the group ...                 *)
RemoveHost(r, h) ==
  /\ pc[r] = "idle" /\ h \in group[r]
  /\ group' = [group EXCEPT ![r] = @ \ {h}]
  /\ cand' = [cand EXCEPT ![r] = h]
  /\ Goto(r, "remove")
  /\ UNCHANGED <<owners, remote, adds, claims, slots, todo, chosen, wanted,
                 live, attempted, slot, faults>>

(* Mutant: the target is dropped, its connection closed with it.           *)
RemovedDropped(r) ==
  /\ pc[r] = "remove"
  /\ Goto(r, "drop")
  /\ UNCHANGED <<owners, remote, adds, group, claims, slots, batch, faults>>

(* ... and closed, ...                                                     *)
CloseRemoved(r) ==
  /\ pc[r] = "remove"
  /\ Unclaimed(r, {cand[r]})
  /\ Goto(r, "drop")
  /\ UNCHANGED <<owners, adds, group, claims, slots, batch>>

(* Mutant: release_owner in place of release.                              *)
ReleaseAllRemoved(r) ==
  LET h == cand[r] IN
  /\ pc[r] = "drop"
  /\ owners' = Free(r, Host)
  /\ claims' = [claims EXCEPT ![r] = {}]
  /\ slots' = [slots EXCEPT ![r] = [s \in Slot |-> slots[r][s] \ {h}]]
  /\ cand' = [cand EXCEPT ![r] = NoHost]
  /\ Goto(r, "idle")
  /\ UNCHANGED <<remote, adds, group, todo, chosen, wanted, live, attempted,
                 slot, faults>>

(* ... then release_pool_claim.                                            *)
ReleaseRemoved(r) ==
  LET h == cand[r] IN
  /\ pc[r] = "drop"
  /\ owners' = Free(r, {h})
  /\ claims' = [claims EXCEPT ![r] = @ \ {h}]
  /\ slots' = [slots EXCEPT ![r] = [s \in Slot |-> slots[r][s] \ {h}]]
  /\ cand' = [cand EXCEPT ![r] = NoHost]
  /\ Goto(r, "idle")
  /\ UNCHANGED <<remote, adds, group, todo, chosen, wanted, live, attempted,
                 slot, faults>>

(* quit, unload, or the reload of the same RRID.  First                    *)
(* release_pool_claims: the remote locks of the claimed hosts, then, when  *)
(* all of them were tried, the arbiter.                                    *)
ReleaseRemote(r) ==
  /\ pc[r] = "idle"
  /\ Unclaimed(r, claims[r] \cap group[r])
  /\ Goto(r, "release")
  /\ UNCHANGED <<owners, adds, group, claims, slots, batch>>

(* Mutant: only the recorded claims are released in the arbiter.           *)
ReleaseRecorded(r) ==
  /\ pc[r] = "release"
  /\ claims' = [claims EXCEPT ![r] = {}]
  /\ slots' = [slots EXCEPT ![r] = [s \in Slot |-> {}]]
  /\ owners' = Free(r, claims[r])
  /\ Goto(r, "close")
  /\ UNCHANGED <<remote, adds, group, batch, faults>>

ReleaseClaims(r) ==
  /\ pc[r] = "release"
  /\ claims' = [claims EXCEPT ![r] = {}]
  /\ slots' = [slots EXCEPT ![r] = [s \in Slot |-> {}]]
  /\ owners' = Free(r, Host)
  /\ Goto(r, "close")
  /\ UNCHANGED <<remote, adds, group, batch, faults>>

(* Then every target of the group is closed, and the report dropped.       *)
CloseGroup(r) ==
  /\ pc[r] = "close"
  /\ Unclaimed(r, group[r])
  /\ group' = [group EXCEPT ![r] = {}]
  /\ adds' = [adds EXCEPT ![r] = 0]
  /\ Goto(r, "unloaded")
  /\ UNCHANGED <<owners, claims, slots, batch>>

----------------------------------------------------------------------------
(* connect_pool_backups awaits the inventory before it looks at a slot,    *)
(* not between two slots.                                                  *)
Awaits(r) ==
  \/ pc[r] \in {"select", "connect", "try", "dial", "remove", "drop",
                "release", "close"}
  \/ pc[r] = "backups" /\ todo[r] = {s \in Slot : slots[r][s] # {}}

(* The command's future is dropped at an await (a cancelled job): locals   *)
(* and targets that are not in the group are gone, records stay.  A report *)
(* that was being torn down stays loaded.                                  *)
Abort(r) ==
  /\ Awaits(r) /\ faults < MaxFaults
  /\ faults' = faults + 1
  /\ Finish(r, "idle")
  /\ UNCHANGED <<owners, remote, adds, group, claims, slots>>

(* Other mtui processes claim and release hosts of the pool.               *)
ForeignClaim(h) ==
  /\ remote' = [remote EXCEPT ![h] = IF @ = Nobody THEN Foreign ELSE Nobody]
  /\ remote[h] \in {Nobody, Foreign}
  /\ UNCHANGED <<owners, pc, adds, group, claims, slots, batch, faults>>

Step(r) ==
  \/ \E s \in Slot : SelectSlot(r, s) \/ SlotServed(r, s) \/ SlotUnserved(r, s)
  \/ \E h \in Host : ConnectHost(r, h) \/ TrySibling(r, h)
  \/ Record(r) \/ Fold(r) \/ GiveUpSlot(r) \/ DialSucceeds(r) \/ DialFails(r)
  \/ EndAdd(r) \/ CloseRemoved(r) \/ ReleaseRemoved(r) \/ ReleaseClaims(r)
  \/ CloseGroup(r)

Next ==
  \/ \E r \in Report : \/ StartSelection(r) \/ StartWithoutStore(r) \/ Step(r)
                       \/ ReleaseRemote(r) \/ Abort(r)
                       \/ \E h \in Named : AddNamed(r, h)
                       \/ \E h \in Host : RemoveHost(r, h)
  \/ \E h \in Host : ForeignClaim(h)

Spec == Init /\ [][Next]_vars
FairSpec == Spec /\ \A r \in Report : WF_vars(Step(r))

----------------------------------------------------------------------------
TypeOK ==
  /\ owners \in [Host -> Report \cup {Nobody}]
  /\ remote \in [Host -> Rrid \cup {Nobody, Foreign}]
  /\ pc \in [Report -> {"unloaded", "idle", "select", "connect", "backups",
                        "try", "dial", "remove", "drop", "release", "close"}]
  /\ adds \in [Report -> 0 .. MaxAdds + 1]
  /\ group \in [Report -> SUBSET Host]
  /\ claims \in [Report -> SUBSET Host]
  /\ chosen \in [Report -> SUBSET Host]
  /\ wanted \in [Report -> SUBSET Host]
  /\ live \in [Report -> SUBSET Host]
  /\ attempted \in [Report -> SUBSET Host]
  /\ slots \in [Report -> [Slot -> SUBSET Host]]
  /\ todo \in [Report -> SUBSET Slot]
  /\ slot \in [Report -> Slot \cup {NoSlot}]
  /\ cand \in [Report -> Host \cup {NoHost}]
  /\ faults \in 0 .. MaxFaults

Resting(r) == pc[r] = "idle" /\ faults = 0

(* "two templates never get the same host": what a report has recorded or  *)
(* is about to record as its own is its own in the arbiter, at every await *)
(* of every command of every report, so no host is ever claimed by two.    *)
ClaimsAreOwned ==
  \A r \in Report : claims[r] \cup chosen[r] \subseteq Owned(r)

(* Between commands the report knows of every host the arbiter holds for   *)
(* it: a host it does not know of is lost to the other templates.          *)
RecordAgrees == \A r \in Report : Resting(r) => Owned(r) \subseteq claims[r]

(* No reservation without use: what a report owns between commands it is   *)
(* connected to.                                                           *)
OwnedIsUsed == \A r \in Report : Resting(r) => Owned(r) \subseteq group[r]

(* An unload gives everything back to the other templates, also the hosts  *)
(* an aborted command had acquired and never recorded.                     *)
UnloadFreesAll == \A r \in Report : pc[r] = "unloaded" => Owned(r) = {}

(* A remote pool claim is somebody's: of a report that has the host, or is *)
(* about to close it.                                                      *)
NoOrphanClaim ==
  \A h \in Host : remote[h] \in Rrid /\ faults = 0 =>
    \E r \in Report :
      /\ RridOf[r] = remote[h]
      /\ h \in group[r] \cup live[r] \/ (pc[r] = "remove" /\ cand[r] = h)

(* While a report uses a host it has a pool claim on, the arbiter keeps    *)
(* that host from the other templates of the process.                      *)
ClaimBacked ==
  \A r \in Report : pc[r] \notin {"release", "close"} /\ faults = 0 =>
    \A h \in group[r] : remote[h] = RridOf[r] => owners[h] = r

(* "one distinct free host per test-target slot".                          *)
OneHostPerSlot ==
  \A r \in Report, s \in Slot : Resting(r) =>
    Cardinality({h \in group[r] \cap slots[r][s] : remote[h] = RridOf[r]}) <= 1

(* "Slot already has a live connection? Nothing to do.": the fallback does *)
(* not touch a slot of which a host is connected.                          *)
LiveSlotLeftAlone ==
  [][\A r \in Report :
       pc[r] = "backups" /\ pc'[r] = "try"
         => slots[r][slot'[r]] \cap group[r] = {}]_vars

(* Every command on a report ends, however the dials turn out and whatever *)
(* the other templates and processes do to the pool.                       *)
CommandsEnd == \A r \in Report : []<>(pc[r] \in {"idle", "unloaded"})
=============================================================================
