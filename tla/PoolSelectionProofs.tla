------------------------- MODULE PoolSelectionProofs -------------------------
(***************************************************************************)
(* What the commands of any number of templates keep true of the arbiter,  *)
(* whatever the slots, the candidates and the aborts: a recorded claim is  *)
(* an owned host, and an unloaded template owns nothing.                   *)
(***************************************************************************)
EXTENDS PoolSelection, FiniteSetTheorems, TLAPS

(* Only the variables the argument is about are typed here.                *)
ClaimTypes ==
  /\ owners \in [Host -> Report \cup {Nobody}]
  /\ pc = [r \in Report |-> pc[r]]
  /\ claims \in [Report -> SUBSET Host]
  /\ chosen \in [Report -> SUBSET Host]

(* What holds of one report: its claims are its own; it has acquired       *)
(* without recording only inside pool_select; and it acquires nothing      *)
(* between release_owner and the next load.                                *)
ClaimsKept(r) ==
  /\ claims[r] \subseteq Owned(r) /\ chosen[r] \subseteq Owned(r)
  /\ pc[r] # "select" => chosen[r] = {}
  /\ pc[r] \in {"close", "unloaded"} => Owned(r) = {}

ClaimInv == ClaimTypes /\ \A r \in Report : ClaimsKept(r)

(* A step of report r leaves what is said of the others alone.             *)
OthersKeep(r) ==
  \A q \in Report \ {r} :
    /\ claims'[q] = claims[q] /\ chosen'[q] = chosen[q] /\ pc'[q] = pc[q]
    /\ Owned(q)' = Owned(q)

(* Free only takes the report's own hosts from it.                         *)
LEMMA FreeIsOurs ==
  ASSUME ClaimTypes, NEW r \in Report, NEW H, owners' = Free(r, H)
  PROVE  /\ owners' \in [Host -> Report \cup {Nobody}]
         /\ Owned(r)' = Owned(r) \ H
         /\ \A q \in Report \ {r} : Owned(q)' = Owned(q)
  BY PoolAssumption DEF ClaimTypes, Free, Owned

(* A host that is open to a report goes to it from nobody else.            *)
LEMMA AcquireIsOurs ==
  ASSUME ClaimTypes, NEW r \in Report, NEW h \in Host, Open(r, h),
         owners' = [owners EXCEPT ![h] = r]
  PROVE  /\ owners' \in [Host -> Report \cup {Nobody}]
         /\ Owned(r)' = Owned(r) \cup {h}
         /\ \A q \in Report \ {r} : Owned(q)' = Owned(q)
  BY PoolAssumption DEF ClaimTypes, Open, Owned

LEMMA OwnedFollowsOwners == owners' = owners => \A r \in Report : Owned(r)' = Owned(r)
  BY DEF Owned

(* It is enough to look at the report that moves.                          *)
LEMMA OneMoves ==
  ASSUME ClaimInv, NEW r \in Report, ClaimTypes', OthersKeep(r), ClaimsKept(r)'
  PROVE  ClaimInv'
<1>1. ASSUME NEW q \in Report, q # r PROVE ClaimsKept(q)'
  BY <1>1 DEF ClaimInv, ClaimsKept, OthersKeep
<1> QED
  BY <1>1 DEF ClaimInv

(* Every step of every report preserves the invariant.                     *)
LEMMA ClaimStep == ClaimInv /\ [Next]_vars => ClaimInv'
<1> SUFFICES ASSUME ClaimInv, [Next]_vars PROVE ClaimInv'
  OBVIOUS
<1>t. ClaimTypes /\ \A r \in Report : ClaimsKept(r)
  BY DEF ClaimInv
<1>1. CASE UNCHANGED <<owners, pc, claims, chosen>>
  BY <1>t, <1>1 DEF ClaimInv, ClaimTypes, ClaimsKept, Owned
<1>2. ASSUME NEW r \in Report, StartSelection(r)
      PROVE  ClaimInv'
  <2>1. ClaimTypes'
    BY <1>t, <1>2, OwnedFollowsOwners DEF StartSelection, Goto, ClaimTypes
  <2>2. OthersKeep(r)
    BY <1>t, <1>2, OwnedFollowsOwners
    DEF StartSelection, Goto, ClaimTypes, OthersKeep
  <2>3. ClaimsKept(r)'
    BY <1>t, <1>2, OwnedFollowsOwners
    DEF StartSelection, Goto, ClaimTypes, ClaimsKept
  <2> QED
    BY <2>1, <2>2, <2>3, OneMoves
<1>3. ASSUME NEW r \in Report, NEW s \in Slot, SelectSlot(r, s)
      PROVE  ClaimInv'
  <2>1. CASE UNCHANGED <<owners, chosen>>
    BY <1>1, <1>3, <2>1 DEF SelectSlot
  <2>2. ASSUME NEW h \in Candidates[s], Open(r, h),
               owners' = [owners EXCEPT ![h] = r],
               chosen' = [chosen EXCEPT ![r] = @ \cup {h}]
        PROVE  ClaimInv'
    <3>1. h \in Host
      BY PoolAssumption
    <3>2. ClaimTypes'
      BY <1>t, <1>3, <2>2, <3>1, AcquireIsOurs DEF SelectSlot, ClaimTypes
    <3>3. OthersKeep(r)
      BY <1>t, <1>3, <2>2, <3>1, AcquireIsOurs
      DEF SelectSlot, ClaimTypes, OthersKeep
    <3>4. ClaimsKept(r)'
      <4>1. Owned(r)' = Owned(r) \cup {h}
        BY <1>t, <2>2, <3>1, AcquireIsOurs
      <4>2. /\ claims'[r] = claims[r]
            /\ chosen'[r] = chosen[r] \cup {h}
            /\ pc'[r] = "select"
        BY <1>t, <1>3, <2>2 DEF SelectSlot, ClaimTypes
      <4> QED
        BY <1>t, <4>1, <4>2 DEF ClaimsKept
    <3> QED
      BY <3>2, <3>3, <3>4, OneMoves
  <2> QED
    BY <1>3, <2>1, <2>2 DEF SelectSlot
<1>4. ASSUME NEW r \in Report, Record(r)
      PROVE  ClaimInv'
  <2>1. ClaimTypes'
    BY <1>t, <1>4, OwnedFollowsOwners DEF Record, Goto, ClaimTypes
  <2>2. OthersKeep(r)
    BY <1>t, <1>4, OwnedFollowsOwners DEF Record, Goto, ClaimTypes, OthersKeep
  <2>3. ClaimsKept(r)'
    BY <1>t, <1>4, OwnedFollowsOwners DEF Record, Goto, ClaimTypes, ClaimsKept
  <2> QED
    BY <2>1, <2>2, <2>3, OneMoves
<1>5. ASSUME NEW r \in Report, NEW h \in Host, AddNamed(r, h)
      PROVE  ClaimInv'
  <2>1. ClaimTypes'
    BY <1>t, <1>5, OwnedFollowsOwners DEF AddNamed, Goto, ClaimTypes
  <2>2. OthersKeep(r)
    BY <1>t, <1>5, OwnedFollowsOwners
    DEF AddNamed, Goto, ClaimTypes, OthersKeep
  <2>3. ClaimsKept(r)'
    BY <1>t, <1>5, OwnedFollowsOwners
    DEF AddNamed, Goto, ClaimTypes, ClaimsKept
  <2> QED
    BY <2>1, <2>2, <2>3, OneMoves
<1>6. ASSUME NEW r \in Report, NEW h \in Host, ConnectHost(r, h)
      PROVE  ClaimInv'
  <2>1. ClaimTypes'
    BY <1>t, <1>6, OwnedFollowsOwners DEF ConnectHost, ClaimTypes
  <2>2. OthersKeep(r)
    BY <1>t, <1>6, OwnedFollowsOwners DEF ConnectHost, ClaimTypes, OthersKeep
  <2>3. ClaimsKept(r)'
    BY <1>t, <1>6, OwnedFollowsOwners DEF ConnectHost, ClaimTypes, ClaimsKept
  <2> QED
    BY <2>1, <2>2, <2>3, OneMoves
<1>7. ASSUME NEW r \in Report, Fold(r)
      PROVE  ClaimInv'
  <2>1. ClaimTypes'
    BY <1>t, <1>7, OwnedFollowsOwners DEF Fold, Goto, ClaimTypes
  <2>2. OthersKeep(r)
    BY <1>t, <1>7, OwnedFollowsOwners DEF Fold, Goto, ClaimTypes, OthersKeep
  <2>3. ClaimsKept(r)'
    BY <1>t, <1>7, OwnedFollowsOwners DEF Fold, Goto, ClaimTypes, ClaimsKept
  <2> QED
    BY <2>1, <2>2, <2>3, OneMoves
<1>8. ASSUME NEW r \in Report, NEW s \in Slot, SlotServed(r, s)
      PROVE  ClaimInv'
  <2>1. ClaimTypes'
    BY <1>t, <1>8, OwnedFollowsOwners DEF SlotServed, ClaimTypes
  <2>2. OthersKeep(r)
    BY <1>t, <1>8, OwnedFollowsOwners DEF SlotServed, ClaimTypes, OthersKeep
  <2>3. ClaimsKept(r)'
    BY <1>t, <1>8, OwnedFollowsOwners DEF SlotServed, ClaimTypes, ClaimsKept
  <2> QED
    BY <2>1, <2>2, <2>3, OneMoves
<1>9. ASSUME NEW r \in Report, NEW s \in Slot, SlotUnserved(r, s)
      PROVE  ClaimInv'
  <2>1. ClaimTypes'
    BY <1>t, <1>9, FreeIsOurs DEF SlotUnserved, Goto, ClaimTypes
  <2>2. OthersKeep(r)
    BY <1>t, <1>9, FreeIsOurs DEF SlotUnserved, Goto, ClaimTypes, OthersKeep
  <2>3. ClaimsKept(r)'
    BY <1>t, <1>9, FreeIsOurs DEF SlotUnserved, Goto, ClaimTypes, ClaimsKept
  <2> QED
    BY <2>1, <2>2, <2>3, OneMoves
<1>10. ASSUME NEW r \in Report, NEW h \in Host, TrySibling(r, h)
      PROVE  ClaimInv'
  <2>1. ClaimTypes'
    BY <1>t, <1>10, AcquireIsOurs DEF TrySibling, Goto, ClaimTypes
  <2>2. OthersKeep(r)
    BY <1>t, <1>10, AcquireIsOurs DEF TrySibling, Goto, ClaimTypes, OthersKeep
  <2>3. ClaimsKept(r)'
    <3>1. Owned(r)' = Owned(r) \cup {h}
      BY <1>t, <1>10, AcquireIsOurs DEF TrySibling
    <3>2. /\ claims'[r] = claims[r] \cup {h}
          /\ chosen'[r] = chosen[r]
          /\ pc[r] = "try" /\ pc'[r] = "dial"
      BY <1>t, <1>10 DEF TrySibling, Goto, ClaimTypes
    <3> QED
      BY <1>t, <3>1, <3>2 DEF ClaimsKept
  <2> QED
    BY <2>1, <2>2, <2>3, OneMoves
<1>11. ASSUME NEW r \in Report, GiveUpSlot(r)
      PROVE  ClaimInv'
  <2>1. ClaimTypes'
    BY <1>t, <1>11, OwnedFollowsOwners DEF GiveUpSlot, Goto, ClaimTypes
  <2>2. OthersKeep(r)
    BY <1>t, <1>11, OwnedFollowsOwners
    DEF GiveUpSlot, Goto, ClaimTypes, OthersKeep
  <2>3. ClaimsKept(r)'
    BY <1>t, <1>11, OwnedFollowsOwners
    DEF GiveUpSlot, Goto, ClaimTypes, ClaimsKept
  <2> QED
    BY <2>1, <2>2, <2>3, OneMoves
<1>12. ASSUME NEW r \in Report, DialSucceeds(r)
      PROVE  ClaimInv'
  <2>1. ClaimTypes'
    BY <1>t, <1>12, OwnedFollowsOwners DEF DialSucceeds, Goto, ClaimTypes
  <2>2. OthersKeep(r)
    BY <1>t, <1>12, OwnedFollowsOwners
    DEF DialSucceeds, Goto, ClaimTypes, OthersKeep
  <2>3. ClaimsKept(r)'
    BY <1>t, <1>12, OwnedFollowsOwners
    DEF DialSucceeds, Goto, ClaimTypes, ClaimsKept
  <2> QED
    BY <2>1, <2>2, <2>3, OneMoves
<1>13. ASSUME NEW r \in Report, DialFails(r)
      PROVE  ClaimInv'
  <2>1. ClaimTypes'
    BY <1>t, <1>13, FreeIsOurs DEF DialFails, Goto, ClaimTypes
  <2>2. OthersKeep(r)
    BY <1>t, <1>13, FreeIsOurs DEF DialFails, Goto, ClaimTypes, OthersKeep
  <2>3. ClaimsKept(r)'
    BY <1>t, <1>13, FreeIsOurs DEF DialFails, Goto, ClaimTypes, ClaimsKept
  <2> QED
    BY <2>1, <2>2, <2>3, OneMoves
<1>14. ASSUME NEW r \in Report, EndAdd(r)
      PROVE  ClaimInv'
  <2>1. ClaimTypes'
    BY <1>t, <1>14, OwnedFollowsOwners DEF EndAdd, Finish, Goto, ClaimTypes
  <2>2. OthersKeep(r)
    BY <1>t, <1>14, OwnedFollowsOwners
    DEF EndAdd, Finish, Goto, ClaimTypes, OthersKeep
  <2>3. ClaimsKept(r)'
    BY <1>t, <1>14, OwnedFollowsOwners
    DEF EndAdd, Finish, Goto, ClaimTypes, ClaimsKept
  <2> QED
    BY <2>1, <2>2, <2>3, OneMoves
<1>15. ASSUME NEW r \in Report, Abort(r)
      PROVE  ClaimInv'
  <2>1. ClaimTypes'
    BY <1>t, <1>15, OwnedFollowsOwners DEF Abort, Finish, Goto, ClaimTypes
  <2>2. OthersKeep(r)
    BY <1>t, <1>15, OwnedFollowsOwners
    DEF Abort, Finish, Goto, ClaimTypes, OthersKeep
  <2>3. ClaimsKept(r)'
    BY <1>t, <1>15, OwnedFollowsOwners
    DEF Abort, Finish, Goto, ClaimTypes, ClaimsKept
  <2> QED
    BY <2>1, <2>2, <2>3, OneMoves
<1>16. ASSUME NEW r \in Report, NEW h \in Host, RemoveHost(r, h)
      PROVE  ClaimInv'
  <2>1. ClaimTypes'
    BY <1>t, <1>16, OwnedFollowsOwners DEF RemoveHost, Goto, ClaimTypes
  <2>2. OthersKeep(r)
    BY <1>t, <1>16, OwnedFollowsOwners
    DEF RemoveHost, Goto, ClaimTypes, OthersKeep
  <2>3. ClaimsKept(r)'
    BY <1>t, <1>16, OwnedFollowsOwners
    DEF RemoveHost, Goto, ClaimTypes, ClaimsKept
  <2> QED
    BY <2>1, <2>2, <2>3, OneMoves
<1>17. ASSUME NEW r \in Report, ReleaseRemote(r)
      PROVE  ClaimInv'
  <2>1. ClaimTypes'
    BY <1>t, <1>17, OwnedFollowsOwners
    DEF ReleaseRemote, batch, Goto, ClaimTypes
  <2>2. OthersKeep(r)
    BY <1>t, <1>17, OwnedFollowsOwners
    DEF ReleaseRemote, batch, Goto, ClaimTypes, OthersKeep
  <2>3. ClaimsKept(r)'
    BY <1>t, <1>17, OwnedFollowsOwners
    DEF ReleaseRemote, batch, Goto, ClaimTypes, ClaimsKept
  <2> QED
    BY <2>1, <2>2, <2>3, OneMoves
<1>18. ASSUME NEW r \in Report, ReleaseClaims(r)
      PROVE  ClaimInv'
  <2>1. ClaimTypes'
    BY <1>t, <1>18, FreeIsOurs DEF ReleaseClaims, batch, Goto, ClaimTypes
  <2>2. OthersKeep(r)
    BY <1>t, <1>18, FreeIsOurs
    DEF ReleaseClaims, batch, Goto, ClaimTypes, OthersKeep
  <2>3. ClaimsKept(r)'
    <3>1. Owned(r)' = {}
      BY <1>t, <1>18, FreeIsOurs DEF ReleaseClaims, Owned
    <3> QED
      BY <1>t, <1>18, <3>1
      DEF ReleaseClaims, batch, Goto, ClaimTypes, ClaimsKept
  <2> QED
    BY <2>1, <2>2, <2>3, OneMoves
<1>19. ASSUME NEW r \in Report, CloseGroup(r)
      PROVE  ClaimInv'
  <2>1. ClaimTypes'
    BY <1>t, <1>19, OwnedFollowsOwners DEF CloseGroup, batch, Goto, ClaimTypes
  <2>2. OthersKeep(r)
    BY <1>t, <1>19, OwnedFollowsOwners
    DEF CloseGroup, batch, Goto, ClaimTypes, OthersKeep
  <2>3. ClaimsKept(r)'
    BY <1>t, <1>19, OwnedFollowsOwners
    DEF CloseGroup, batch, Goto, ClaimTypes, ClaimsKept
  <2> QED
    BY <2>1, <2>2, <2>3, OneMoves
<1>20. ASSUME NEW r \in Report, StartWithoutStore(r)
      PROVE  ClaimInv'
  <2>1. ClaimTypes'
    BY <1>t, <1>20, OwnedFollowsOwners DEF StartWithoutStore, Goto, ClaimTypes
  <2>2. OthersKeep(r)
    BY <1>t, <1>20, OwnedFollowsOwners
    DEF StartWithoutStore, Goto, ClaimTypes, OthersKeep
  <2>3. ClaimsKept(r)'
    BY <1>t, <1>20, OwnedFollowsOwners
    DEF StartWithoutStore, Goto, ClaimTypes, ClaimsKept
  <2> QED
    BY <2>1, <2>2, <2>3, OneMoves
<1>21. ASSUME NEW r \in Report, CloseRemoved(r)
      PROVE  ClaimInv'
  <2>1. ClaimTypes'
    BY <1>t, <1>21, OwnedFollowsOwners DEF CloseRemoved, batch, Goto, ClaimTypes
  <2>2. OthersKeep(r)
    BY <1>t, <1>21, OwnedFollowsOwners
    DEF CloseRemoved, batch, Goto, ClaimTypes, OthersKeep
  <2>3. ClaimsKept(r)'
    BY <1>t, <1>21, OwnedFollowsOwners
    DEF CloseRemoved, batch, Goto, ClaimTypes, ClaimsKept
  <2> QED
    BY <2>1, <2>2, <2>3, OneMoves
<1>22. ASSUME NEW r \in Report, ReleaseRemoved(r)
      PROVE  ClaimInv'
  <2>1. ClaimTypes'
    BY <1>t, <1>22, FreeIsOurs DEF ReleaseRemoved, Goto, ClaimTypes
  <2>2. OthersKeep(r)
    BY <1>t, <1>22, FreeIsOurs
    DEF ReleaseRemoved, Goto, ClaimTypes, OthersKeep
  <2>3. ClaimsKept(r)'
    BY <1>t, <1>22, FreeIsOurs
    DEF ReleaseRemoved, Goto, ClaimTypes, ClaimsKept
  <2> QED
    BY <2>1, <2>2, <2>3, OneMoves
<1>23. ASSUME NEW h \in Host, ForeignClaim(h) PROVE ClaimInv'
  BY <1>1, <1>23 DEF ForeignClaim, batch
<1>24. CASE UNCHANGED vars
  BY <1>1, <1>24 DEF vars, batch
<1> QED
  BY <1>2, <1>3, <1>4, <1>5, <1>6, <1>7, <1>8, <1>9, <1>10, <1>11, <1>12,
     <1>13, <1>14, <1>15, <1>16, <1>17, <1>18, <1>19, <1>20, <1>21, <1>22,
     <1>23, <1>24, PoolAssumption DEF Next, Step

LEMMA ClaimInvHolds == Spec => []ClaimInv
<1>1. Init => ClaimInv
  BY PoolAssumption DEF Init, ClaimInv, ClaimTypes, ClaimsKept, Owned
<1> QED
  BY <1>1, ClaimStep, PTL DEF Spec

(* No template ever records, or is about to record, a host the arbiter     *)
(* holds for another one or for nobody.                                    *)
THEOREM ClaimsCorrect == Spec => []ClaimsAreOwned
<1>1. ClaimInv => ClaimsAreOwned
  BY DEF ClaimInv, ClaimsKept, ClaimsAreOwned
<1> QED
  BY <1>1, ClaimInvHolds, PTL

(* An unload frees every host, those of aborted commands included.         *)
THEOREM UnloadCorrect == Spec => []UnloadFreesAll
<1>1. ClaimInv => UnloadFreesAll
  BY DEF ClaimInv, ClaimsKept, UnloadFreesAll
<1> QED
  BY <1>1, ClaimInvHolds, PTL

(* A sibling is drawn before it is dialled, a host named before it is      *)
(* removed.                                                                *)
TypeInv ==
  TypeOK /\ \A r \in Report : pc[r] \in {"dial", "remove", "drop"} => cand[r] \in Host

LEMMA TypeStep == TypeInv /\ [Next]_vars => TypeInv'
<1> SUFFICES ASSUME TypeInv, [Next]_vars PROVE TypeInv'
  OBVIOUS
<1> USE PoolAssumption DEF TypeInv, TypeOK, batch, Goto
<1>1. ASSUME NEW r \in Report, StartSelection(r) PROVE TypeInv'
  BY <1>1 DEF StartSelection
<1>2. ASSUME NEW r \in Report, Record(r) PROVE TypeInv'
  BY <1>2 DEF Record
<1>3. ASSUME NEW r \in Report, Fold(r) PROVE TypeInv'
  BY <1>3 DEF Fold
<1>4. ASSUME NEW r \in Report, GiveUpSlot(r) PROVE TypeInv'
  BY <1>4 DEF GiveUpSlot
<1>5. ASSUME NEW r \in Report, DialSucceeds(r) PROVE TypeInv'
  BY <1>5 DEF DialSucceeds, Claimable
<1>6. ASSUME NEW r \in Report, DialFails(r) PROVE TypeInv'
  BY <1>6 DEF DialFails, Free
<1>7. ASSUME NEW r \in Report, EndAdd(r) PROVE TypeInv'
  BY <1>7 DEF EndAdd, Finish
<1>8. ASSUME NEW r \in Report, ReleaseClaims(r) PROVE TypeInv'
  BY <1>8 DEF ReleaseClaims, Free
<1>9. ASSUME NEW r \in Report, CloseGroup(r) PROVE TypeInv'
  BY <1>9 DEF CloseGroup, Unclaimed
<1>10. ASSUME NEW r \in Report, ReleaseRemote(r) PROVE TypeInv'
  BY <1>10 DEF ReleaseRemote, Unclaimed
<1>11. ASSUME NEW r \in Report, Abort(r) PROVE TypeInv'
  BY <1>11 DEF Abort, Awaits, Finish
<1>12. ASSUME NEW r \in Report, NEW s \in Slot, SelectSlot(r, s) PROVE TypeInv'
  <2>1. CASE UNCHANGED <<owners, chosen>>
    BY <1>12, <2>1 DEF SelectSlot
  <2>2. ASSUME NEW h \in Host, owners' = [owners EXCEPT ![h] = r],
               chosen' = [chosen EXCEPT ![r] = @ \cup {h}]
        PROVE  TypeInv'
    <3>1. owners' \in [Host -> Report \cup {Nobody}]
      BY <2>2
    <3>2. chosen' \in [Report -> SUBSET Host]
      BY <2>2
    <3>3. todo' \in [Report -> SUBSET Slot]
      BY <1>12 DEF SelectSlot
    <3> QED
      BY <1>12, <3>1, <3>2, <3>3 DEF SelectSlot
  <2>3. Candidates[s] \subseteq Host
    OBVIOUS
  <2> QED
    BY <1>12, <2>1, <2>2, <2>3 DEF SelectSlot
<1>13. ASSUME NEW r \in Report, NEW s \in Slot, SlotServed(r, s) PROVE TypeInv'
  BY <1>13 DEF SlotServed
<1>14. ASSUME NEW r \in Report, NEW s \in Slot, SlotUnserved(r, s) PROVE TypeInv'
  BY <1>14 DEF SlotUnserved, Free
<1>15. ASSUME NEW r \in Report, NEW h \in Host, ConnectHost(r, h) PROVE TypeInv'
  <2>1. remote' \in [Host -> Rrid \cup {Nobody, Foreign}]
    BY <1>15 DEF ConnectHost
  <2>2. wanted' \in [Report -> SUBSET Host]
    BY <1>15 DEF ConnectHost
  <2>3. live' = [live EXCEPT ![r] = @ \cup {h}] \/ live' = live
    BY <1>15 DEF ConnectHost
  <2>4. live' \in [Report -> SUBSET Host]
    <3>1. CASE live' = [live EXCEPT ![r] = @ \cup {h}]
      BY <3>1
    <3>2. CASE live' = live
      BY <3>2
    <3> QED
      BY <2>3, <3>1, <3>2
  <2> QED
    BY <1>15, <2>1, <2>2, <2>4 DEF ConnectHost
<1>16. ASSUME NEW r \in Report, NEW h \in Host, TrySibling(r, h) PROVE TypeInv'
  BY <1>16 DEF TrySibling
<1>17. ASSUME NEW r \in Report, NEW h \in Host, RemoveHost(r, h) PROVE TypeInv'
  BY <1>17 DEF RemoveHost
<1>18. ASSUME NEW r \in Report, NEW h \in Named, AddNamed(r, h) PROVE TypeInv'
  BY <1>18 DEF AddNamed
<1>19. ASSUME NEW h \in Host, ForeignClaim(h) PROVE TypeInv'
  BY <1>19 DEF ForeignClaim
<1>20. ASSUME NEW r \in Report, StartWithoutStore(r) PROVE TypeInv'
  BY <1>20 DEF StartWithoutStore
<1>21. ASSUME NEW r \in Report, CloseRemoved(r) PROVE TypeInv'
  BY <1>21 DEF CloseRemoved, Unclaimed
<1>22. ASSUME NEW r \in Report, ReleaseRemoved(r) PROVE TypeInv'
  BY <1>22 DEF ReleaseRemoved, Free
<1>23. CASE UNCHANGED vars
  BY <1>23 DEF vars
<1> QED
  BY <1>1, <1>2, <1>3, <1>4, <1>5, <1>6, <1>7, <1>8, <1>9, <1>10, <1>11,
     <1>12, <1>13, <1>14, <1>15, <1>16, <1>17, <1>18, <1>19, <1>20,
     <1>21, <1>22, <1>23 DEF
     Next, Step

(* Type correctness of the arbiter, the pool files and every report.       *)
THEOREM TypeCorrect == Spec => []TypeOK
<1>1. Init => TypeInv
  BY PoolAssumption DEF Init, TypeInv, TypeOK
<1>2. TypeInv => TypeOK
  BY DEF TypeInv
<1> QED
  BY <1>1, <1>2, TypeStep, PTL DEF Spec

----------------------------------------------------------------------------
(* The hosts of one load.                                                  *)

(* A template gets its hosts when it is loaded, each slot has candidates   *)
(* of its own, no RRID is loaded twice, no template names hosts itself.    *)
OneLoad    == MaxAdds = 0
SlotsApart == \A s, t \in Slot : s # t => Candidates[s] \cap Candidates[t] = {}
RridsApart == \A r, q \in Report : RridOf[r] = RridOf[q] => r = q
NoRefHosts == \A r \in Report : RefHosts[r] = {}

(* The arbiter holds nothing for a report that the report does not know    *)
(* of, the connections of a batch are in the group once it is folded, and  *)
(* a host that is being removed is not.                                    *)
AgreeKept(r) ==
  /\ faults = 0 => \A h \in Host : owners[h] = r => h \in claims[r] \cup chosen[r]
  /\ pc[r] \in {"unloaded", "idle", "select", "remove", "drop", "release",
               "close"} => live[r] = {}
  /\ pc[r] \in {"backups", "try", "dial"} => live[r] \subseteq group[r]
  /\ pc[r] \in {"remove", "drop"} => cand[r] \notin group[r]

AgreeInv == TypeInv /\ ClaimInv /\ \A r \in Report : AgreeKept(r)

(* What one load does to the group: no host of a slot that is still to be  *)
(* looked at is connected but by this batch, no host is dialled twice.     *)
LoadKept(r) ==
  /\ pc[r] # "unloaded" => adds[r] > 0
  /\ pc[r] \in {"unloaded", "select", "connect"} => group[r] = {}
  /\ \A s \in Slot : slots[r][s] \subseteq Candidates[s]
  /\ pc[r] \in {"unloaded", "close"} => \A s \in Slot : slots[r][s] = {}
  /\ pc[r] = "connect" => slots[r] = Candidates \/ \A s \in Slot : slots[r][s] = {}
  /\ pc[r] = "backups" => slots[r] = Candidates \/ todo[r] = {}
  /\ pc[r] \in {"try", "dial"} => slots[r] = Candidates
  /\ pc[r] \in {"connect", "backups", "try", "dial"} =>
       wanted[r] \cup live[r] \cup group[r] \subseteq attempted[r]
  /\ pc[r] \in {"backups", "try", "dial"} =>
       \A s \in todo[r] : Candidates[s] \cap group[r] \subseteq live[r]
  /\ pc[r] \in {"try", "dial"} => slot[r] \in Slot \ todo[r]
  /\ pc[r] = "dial" =>
       /\ cand[r] \in Candidates[slot[r]] \cap attempted[r] \cap claims[r]
       /\ cand[r] \notin group[r] \cup live[r]

LoadInv == AgreeInv /\ \A r \in Report : LoadKept(r)

(* One host per slot is held, and none while a sibling is looked for.      *)
SlotKept(r) ==
  faults = 0 =>
    /\ \A s \in Slot : \A x, y \in Candidates[s] :
         owners[x] = r /\ owners[y] = r => x = y
    /\ pc[r] = "try" => \A h \in Candidates[slot[r]] : owners[h] # r
    /\ pc[r] = "dial" =>
         \A h \in Candidates[slot[r]] : owners[h] = r => h = cand[r]

(* While no report names hosts itself, those it uses are its own ...       *)
OwnKept(r) ==
  /\ pc[r] = "select" => wanted[r] = {}
  /\ pc[r] = "connect" => wanted[r] \subseteq claims[r]
  /\ faults = 0 /\ pc[r] # "close" =>
       \A h \in group[r] \cup live[r] : owners[h] = r

(* ... and of those it owns it uses all but what it is still busy with.    *)
UsedKept(r) ==
  faults = 0 => \A h \in Host : owners[h] = r =>
    /\ pc[r] = "select" => \E s \in Slot : h \in Candidates[s]
    /\ pc[r] = "connect" => \E s \in Slot : h \in slots[r][s]
    /\ pc[r] \in {"backups", "try", "dial"} =>
         \/ h \in group[r]
         \/ \E s \in todo[r] : h \in Candidates[s]
         \/ pc[r] = "dial" /\ h = cand[r]
    /\ pc[r] = "idle" => h \in group[r]
    /\ pc[r] \in {"remove", "drop"} => h \in group[r] \cup {cand[r]}

(* Where no two reports share an RRID, a pool claim of r means that r has  *)
(* the host in the arbiter.                                                *)
BackedKept(r) ==
  faults = 0 /\ pc[r] \notin {"release", "close"} =>
    \A h \in group[r] \cup live[r] : remote[h] = RridOf[r] => owners[h] = r

(* What one slot of pool_select acquires.                                  *)
Taken(r, s, x) ==
  /\ x \in Candidates[s] /\ owners[x] = Nobody
  /\ \A y \in Candidates[s] : owners[y] # r
  /\ owners' = [owners EXCEPT ![x] = r]
  /\ chosen' = [chosen EXCEPT ![r] = @ \cup {x}]

LEMMA SelectSlotTakes ==
  ASSUME NEW r \in Report, NEW s \in Slot, SelectSlot(r, s)
  PROVE  UNCHANGED <<owners, chosen>> \/ \E x \in Host : Taken(r, s, x)
<1>1. Candidates[s] \subseteq Host
  BY PoolAssumption
<1> QED
  BY <1>1 DEF SelectSlot, Taken, Open

(* What that means host by host.                                           *)
LEMMA TakenPointwise ==
  ASSUME TypeInv, NEW r \in Report, NEW s \in Slot, NEW x \in Host,
         Taken(r, s, x)
  PROVE  \A h \in Host :
           /\ owners'[h] = IF h = x THEN r ELSE owners[h]
           /\ \A q \in Report :
                h \in chosen'[q] <=> h \in chosen[q] \/ (q = r /\ h = x)
<1>1. owners \in [Host -> Report \cup {Nobody}] /\ chosen \in [Report -> SUBSET Host]
  BY DEF TypeInv, TypeOK
<1> QED
  BY <1>1 DEF Taken

(* One step keeps the two agreed.                                          *)
LEMMA AgreeStep ==
  ASSUME AgreeInv, [Next]_vars, NEW q \in Report
  PROVE  AgreeKept(q)'
<1> USE PoolAssumption DEF AgreeInv, AgreeKept, ClaimInv, ClaimsKept, TypeInv,
    TypeOK, batch, Goto
<1>1. ASSUME NEW r \in Report, StartSelection(r) PROVE AgreeKept(q)'
  BY <1>1 DEF StartSelection
<1>2. ASSUME NEW r \in Report, Record(r) PROVE AgreeKept(q)'
  BY <1>2 DEF Record
<1>3. ASSUME NEW r \in Report, Fold(r) PROVE AgreeKept(q)'
  BY <1>3 DEF Fold
<1>4. ASSUME NEW r \in Report, GiveUpSlot(r) PROVE AgreeKept(q)'
  BY <1>4 DEF GiveUpSlot
<1>5. ASSUME NEW r \in Report, DialSucceeds(r) PROVE AgreeKept(q)'
  BY <1>5 DEF DialSucceeds, Claimable
<1>6. ASSUME NEW r \in Report, DialFails(r) PROVE AgreeKept(q)'
  BY <1>6 DEF DialFails, Free
<1>7. ASSUME NEW r \in Report, EndAdd(r) PROVE AgreeKept(q)'
  BY <1>7 DEF EndAdd, Finish
<1>8. ASSUME NEW r \in Report, ReleaseClaims(r) PROVE AgreeKept(q)'
  BY <1>8 DEF ReleaseClaims, Free
<1>9. ASSUME NEW r \in Report, CloseGroup(r) PROVE AgreeKept(q)'
  BY <1>9 DEF CloseGroup, Unclaimed
<1>10. ASSUME NEW r \in Report, ReleaseRemote(r) PROVE AgreeKept(q)'
  BY <1>10 DEF ReleaseRemote, Unclaimed
<1>11. ASSUME NEW r \in Report, Abort(r) PROVE AgreeKept(q)'
  BY <1>11 DEF Abort, Awaits, Finish
<1>12. ASSUME NEW r \in Report, NEW s \in Slot, SelectSlot(r, s) PROVE AgreeKept(q)'
  <2>1. CASE UNCHANGED <<owners, chosen>>
    BY <1>12, <2>1 DEF SelectSlot
  <2>2. CASE \E x \in Host : Taken(r, s, x)
    <3>1. PICK x \in Host : Taken(r, s, x)
      BY <2>2
    <3>2. \A h \in Host :
            /\ owners'[h] = IF h = x THEN r ELSE owners[h]
            /\ \A t \in Report :
                 h \in chosen'[t] <=> h \in chosen[t] \/ (t = r /\ h = x)
      BY <3>1, TakenPointwise
    <3> QED
      BY <1>12, <3>2 DEF SelectSlot
  <2> QED
    BY <1>12, <2>1, <2>2, SelectSlotTakes
<1>13. ASSUME NEW r \in Report, NEW s \in Slot, SlotServed(r, s) PROVE AgreeKept(q)'
  BY <1>13 DEF SlotServed
<1>14. ASSUME NEW r \in Report, NEW s \in Slot, SlotUnserved(r, s) PROVE AgreeKept(q)'
  BY <1>14 DEF SlotUnserved, Free
<1>15. ASSUME NEW r \in Report, NEW h \in Host, ConnectHost(r, h) PROVE AgreeKept(q)'
  <2>1. /\ owners' = owners /\ pc' = pc /\ claims' = claims /\ chosen' = chosen
        /\ group' = group /\ cand' = cand /\ faults' = faults
        /\ pc[r] = "connect" /\ (q # r => live'[q] = live[q])
    BY <1>15 DEF ConnectHost
  <2> QED
    BY <2>1
<1>16. ASSUME NEW r \in Report, NEW h \in Host, TrySibling(r, h) PROVE AgreeKept(q)'
  BY <1>16 DEF TrySibling, Open
<1>17. ASSUME NEW r \in Report, NEW h \in Host, RemoveHost(r, h) PROVE AgreeKept(q)'
  BY <1>17 DEF RemoveHost
<1>18. ASSUME NEW r \in Report, NEW h \in Named, AddNamed(r, h) PROVE AgreeKept(q)'
  BY <1>18 DEF AddNamed
<1>19. ASSUME NEW h \in Host, ForeignClaim(h) PROVE AgreeKept(q)'
  BY <1>19 DEF ForeignClaim
<1>20. ASSUME NEW r \in Report, StartWithoutStore(r) PROVE AgreeKept(q)'
  BY <1>20 DEF StartWithoutStore
<1>21. ASSUME NEW r \in Report, CloseRemoved(r) PROVE AgreeKept(q)'
  BY <1>21 DEF CloseRemoved, Unclaimed
<1>22. ASSUME NEW r \in Report, ReleaseRemoved(r) PROVE AgreeKept(q)'
  BY <1>22 DEF ReleaseRemoved, Free
<1>23. CASE UNCHANGED vars
  BY <1>23 DEF vars
<1> QED
  BY <1>1, <1>2, <1>3, <1>4, <1>5, <1>6, <1>7, <1>8, <1>9, <1>10, <1>11,
     <1>12, <1>13, <1>14, <1>15, <1>16, <1>17, <1>18, <1>19, <1>20,
     <1>21, <1>22, <1>23 DEF
     Next, Step

LEMMA AgreeInvHolds == Spec => []AgreeInv
<1>1. Init => AgreeInv
  BY PoolAssumption DEF Init, AgreeInv, AgreeKept, TypeInv, TypeOK, ClaimInv,
     ClaimTypes, ClaimsKept, Owned
<1>2. AgreeInv /\ [Next]_vars => AgreeInv'
  <2>1. AgreeInv /\ [Next]_vars => TypeInv' /\ ClaimInv'
    BY TypeStep, ClaimStep DEF AgreeInv
  <2>2. AgreeInv /\ [Next]_vars => \A q \in Report : AgreeKept(q)'
    BY AgreeStep
  <2> QED
    BY <2>1, <2>2 DEF AgreeInv
<1> QED
  BY <1>1, <1>2, PTL DEF Spec

(* Between its commands a report knows of every host the arbiter holds for *)
(* it, however selections, backups and releases of other reports           *)
(* interleave with its own, as long as no command is aborted.              *)
THEOREM RecordCorrect == Spec => []RecordAgrees
<1>1. AgreeInv => RecordAgrees
  BY DEF AgreeInv, AgreeKept, ClaimInv, ClaimsKept, RecordAgrees, Resting,
     Owned
<1> QED
  BY <1>1, AgreeInvHolds, PTL

(* A pool claim that is written is the claim of a report that has the      *)
(* host, and a report that lets a host go takes its claim with it.         *)
LEMMA OrphanStep ==
  ASSUME AgreeInv, NoOrphanClaim, [Next]_vars
  PROVE  NoOrphanClaim'
<1> SUFFICES ASSUME NEW x \in Host, remote'[x] \in Rrid, faults' = 0
             PROVE  \E q \in Report :
                      /\ RridOf[q] = remote'[x]
                      /\ \/ x \in group'[q] \cup live'[q]
                         \/ pc'[q] = "remove" /\ cand'[q] = x
  BY DEF NoOrphanClaim
<1> DEFINE Goal == \E q \in Report :
                     /\ RridOf[q] = remote'[x]
                     /\ \/ x \in group'[q] \cup live'[q]
                        \/ pc'[q] = "remove" /\ cand'[q] = x
<1> USE PoolAssumption DEF NoOrphanClaim, AgreeInv, AgreeKept, TypeInv, TypeOK,
    batch, Goto
<1>1. ASSUME NEW r \in Report, StartSelection(r) PROVE Goal
  BY <1>1 DEF StartSelection
<1>2. ASSUME NEW r \in Report, Record(r) PROVE Goal
  BY <1>2 DEF Record
<1>3. ASSUME NEW r \in Report, Fold(r) PROVE Goal
  BY <1>3 DEF Fold
<1>4. ASSUME NEW r \in Report, GiveUpSlot(r) PROVE Goal
  BY <1>4 DEF GiveUpSlot
<1>5. ASSUME NEW r \in Report, DialSucceeds(r) PROVE Goal
  <2>1. /\ pc[r] = "dial" /\ live' = live /\ faults' = faults
        /\ group'[r] = group[r] \cup {cand[r]}
        /\ \A q \in Report \ {r} :
             group'[q] = group[q] /\ pc'[q] = pc[q] /\ cand'[q] = cand[q]
    BY <1>5 DEF DialSucceeds
  <2>2. CASE x = cand[r]
    BY <1>5, <2>1, <2>2 DEF DialSucceeds
  <2>3. CASE x # cand[r]
    <3>1. remote'[x] = remote[x]
      BY <1>5, <2>3 DEF DialSucceeds
    <3>2. PICK q \in Report :
            /\ RridOf[q] = remote[x]
            /\ x \in group[q] \cup live[q] \/ (pc[q] = "remove" /\ cand[q] = x)
      BY <2>1, <3>1
    <3>3. CASE q = r
      <4>1. x \in group'[r] \cup live'[r]
        BY <2>1, <3>2, <3>3
      <4> QED
        BY <3>1, <3>2, <3>3, <4>1
    <3>4. CASE q # r
      <4>1. /\ group'[q] = group[q] /\ pc'[q] = pc[q] /\ cand'[q] = cand[q]
            /\ live'[q] = live[q]
        BY <2>1, <3>4
      <4> QED
        BY <3>1, <3>2, <4>1
    <3> QED
      BY <3>3, <3>4
  <2> QED
    BY <2>2, <2>3
<1>6. ASSUME NEW r \in Report, DialFails(r) PROVE Goal
  BY <1>6 DEF DialFails, Free
<1>7. ASSUME NEW r \in Report, EndAdd(r) PROVE Goal
  BY <1>7 DEF EndAdd, Finish
<1>8. ASSUME NEW r \in Report, ReleaseClaims(r) PROVE Goal
  BY <1>8 DEF ReleaseClaims, Free
<1>9. ASSUME NEW r \in Report, CloseGroup(r) PROVE Goal
  <2>1. remote'[x] = remote[x] /\ faults = 0
    BY <1>9 DEF CloseGroup, Unclaimed
  <2>2. PICK q \in Report :
          /\ RridOf[q] = remote[x]
          /\ x \in group[q] \cup live[q] \/ (pc[q] = "remove" /\ cand[q] = x)
    BY <1>9, <2>1 DEF CloseGroup
  <2>3. q = r => x \notin group[r] \cup live[r]
    BY <1>9, <2>1, <2>2 DEF CloseGroup, Unclaimed
  <2> QED
    BY <1>9, <2>1, <2>2, <2>3 DEF CloseGroup
<1>10. ASSUME NEW r \in Report, ReleaseRemote(r) PROVE Goal
  <2>1. remote'[x] = remote[x] /\ faults = 0
    BY <1>10 DEF ReleaseRemote, Unclaimed
  <2>2. PICK q \in Report :
          /\ RridOf[q] = remote[x]
          /\ x \in group[q] \cup live[q] \/ (pc[q] = "remove" /\ cand[q] = x)
    BY <1>10, <2>1 DEF ReleaseRemote
  <2>3. q = r => x \in group'[r] \cup live'[r]
    BY <1>10, <2>1, <2>2 DEF ReleaseRemote
  <2> QED
    BY <1>10, <2>1, <2>2, <2>3 DEF ReleaseRemote
<1>11. ASSUME NEW r \in Report, Abort(r) PROVE Goal
  BY <1>11 DEF Abort, Awaits, Finish
<1>12. ASSUME NEW r \in Report, NEW s \in Slot, SelectSlot(r, s) PROVE Goal
  BY <1>12 DEF SelectSlot, Open
<1>13. ASSUME NEW r \in Report, NEW s \in Slot, SlotServed(r, s) PROVE Goal
  BY <1>13 DEF SlotServed
<1>14. ASSUME NEW r \in Report, NEW s \in Slot, SlotUnserved(r, s) PROVE Goal
  BY <1>14 DEF SlotUnserved, Free
<1>15. ASSUME NEW r \in Report, NEW h \in Host, ConnectHost(r, h) PROVE Goal
  <2>1. CASE remote'[x] = remote[x]
    <3>1. PICK q \in Report :
          /\ RridOf[q] = remote[x]
          /\ x \in group[q] \cup live[q] \/ (pc[q] = "remove" /\ cand[q] = x)
      BY <1>15, <2>1 DEF ConnectHost
    <3>2. /\ group'[q] = group[q] /\ live[q] \subseteq live'[q]
          /\ pc'[q] = pc[q] /\ cand'[q] = cand[q]
      BY <1>15 DEF ConnectHost
    <3> QED
      BY <2>1, <3>1, <3>2
  <2>2. CASE remote'[x] # remote[x]
    <3>1. x = h /\ remote'[x] = RridOf[r] /\ x \in live'[r]
      BY <1>15, <2>2 DEF ConnectHost
    <3> QED
      BY <3>1
  <2> QED
    BY <2>1, <2>2
<1>16. ASSUME NEW r \in Report, NEW h \in Host, TrySibling(r, h) PROVE Goal
  BY <1>16 DEF TrySibling, Open
<1>17. ASSUME NEW r \in Report, NEW h \in Host, RemoveHost(r, h) PROVE Goal
  <2>1. remote' = remote /\ faults = 0
    BY <1>17 DEF RemoveHost
  <2>2. PICK q \in Report :
          /\ RridOf[q] = remote[x]
          /\ x \in group[q] \cup live[q] \/ (pc[q] = "remove" /\ cand[q] = x)
    BY <2>1
  <2>3. CASE q # r
    BY <1>17, <2>1, <2>2, <2>3 DEF RemoveHost
  <2>4. CASE q = r
    <3>1. pc[r] = "idle" /\ live[r] = {} /\ x \in group[r]
      BY <1>17, <2>2, <2>4 DEF RemoveHost
    <3>2. /\ group'[r] = group[r] \ {h}
          /\ pc'[r] = "remove" /\ cand'[r] = h
      BY <1>17 DEF RemoveHost
    <3>3. x \in group'[r] \/ cand'[r] = x
      BY <3>1, <3>2
    <3> QED
      BY <2>1, <2>2, <2>4, <3>2, <3>3
  <2> QED
    BY <2>3, <2>4
<1>18. ASSUME NEW r \in Report, NEW h \in Named, AddNamed(r, h) PROVE Goal
  BY <1>18 DEF AddNamed
<1>19. ASSUME NEW h \in Host, ForeignClaim(h) PROVE Goal
  BY <1>19 DEF ForeignClaim
<1>20. ASSUME NEW r \in Report, StartWithoutStore(r) PROVE Goal
  BY <1>20 DEF StartWithoutStore
<1>21. ASSUME NEW r \in Report, CloseRemoved(r) PROVE Goal
  <2>1. remote'[x] = remote[x] /\ faults = 0
    BY <1>21 DEF CloseRemoved, Unclaimed
  <2>2. PICK q \in Report :
          /\ RridOf[q] = remote[x]
          /\ x \in group[q] \cup live[q] \/ (pc[q] = "remove" /\ cand[q] = x)
    BY <1>21, <2>1 DEF CloseRemoved
  <2>3. q = r => x # cand[r]
    BY <1>21, <2>1, <2>2 DEF CloseRemoved, Unclaimed
  <2> QED
    BY <1>21, <2>1, <2>2, <2>3 DEF CloseRemoved
<1>22. ASSUME NEW r \in Report, ReleaseRemoved(r) PROVE Goal
  BY <1>22 DEF ReleaseRemoved, Free
<1>23. CASE UNCHANGED vars
  BY <1>23 DEF vars
<1> QED
  BY <1>1, <1>2, <1>3, <1>4, <1>5, <1>6, <1>7, <1>8, <1>9, <1>10, <1>11,
     <1>12, <1>13, <1>14, <1>15, <1>16, <1>17, <1>18, <1>19, <1>20,
     <1>21, <1>22, <1>23 DEF
     Next, Step

(* No pool claim of this process is left on a host that none of the        *)
(* reports of that RRID has, unless a release failed or a command was      *)
(* aborted.                                                                *)
THEOREM NoOrphanCorrect == Spec => []NoOrphanClaim
<1>1. Init => NoOrphanClaim
  <2> SUFFICES ASSUME Init PROVE \A h \in Host : remote[h] \notin Rrid
    BY DEF NoOrphanClaim
  <2> QED
    BY PoolAssumption DEF Init
<1> QED
  BY <1>1, OrphanStep, AgreeInvHolds, PTL DEF Spec

(* A report that has its hosts starts no second command that brings some. *)
LEMMA LoadsOnce ==
  ASSUME OneLoad, LoadInv, NEW r \in Report, adds[r] <= MaxAdds
  PROVE  pc[r] = "unloaded"
<1> SUFFICES ASSUME pc[r] # "unloaded" PROVE FALSE
  OBVIOUS
<1>1. adds[r] > 0 /\ adds[r] \in 0 .. MaxAdds + 1
  BY DEF LoadInv, LoadKept, AgreeInv, TypeInv, TypeOK
<1> QED
  BY <1>1 DEF OneLoad

(* One step of a load keeps the batch and the group in step.               *)
LEMMA LoadStep ==
  ASSUME OneLoad, SlotsApart, LoadInv, [Next]_vars, NEW q \in Report
  PROVE  LoadKept(q)'
<1>0. \A r \in Report : adds[r] <= MaxAdds => pc[r] = "unloaded"
  BY LoadsOnce
<1> USE PoolAssumption DEF OneLoad, LoadInv, LoadKept, AgreeInv, AgreeKept,
    TypeInv, TypeOK, batch, Goto
<1>1. ASSUME NEW r \in Report, StartSelection(r) PROVE LoadKept(q)'
  <2>1. pc[r] = "unloaded"
    BY <1>0, <1>1 DEF StartSelection
  <2>2. adds'[r] > 0
    <3>1. adds[r] \in 0 .. MaxAdds + 1
      OBVIOUS
    <3>2. adds'[r] = adds[r] + 1
      BY <1>1 DEF StartSelection
    <3> QED
      BY <3>1, <3>2
  <2>3. /\ group' = group /\ slots' = slots
        /\ pc' = [pc EXCEPT ![r] = "select"]
        /\ \A t \in Report \ {r} : /\ adds'[t] = adds[t] /\ todo'[t] = todo[t]
                                   /\ wanted'[t] = wanted[t]
    BY <1>1 DEF StartSelection
  <2>4. CASE q = r
    BY <2>1, <2>2, <2>3, <2>4
  <2>5. CASE q # r
    BY <1>1, <2>3, <2>5 DEF StartSelection
  <2> QED
    BY <2>4, <2>5
<1>2. ASSUME NEW r \in Report, Record(r) PROVE LoadKept(q)'
  BY <1>2 DEF Record
<1>3. ASSUME NEW r \in Report, Fold(r) PROVE LoadKept(q)'
  BY <1>3 DEF Fold
<1>4. ASSUME NEW r \in Report, GiveUpSlot(r) PROVE LoadKept(q)'
  BY <1>4 DEF GiveUpSlot
<1>5. ASSUME NEW r \in Report, DialSucceeds(r) PROVE LoadKept(q)'
  <2>1. CASE q # r
    BY <1>5, <2>1 DEF DialSucceeds
  <2>2. CASE q = r
    <3>1. \A s \in todo[r] : cand[r] \notin Candidates[s]
      <4>1. /\ slot[r] \in Slot /\ slot[r] \notin todo[r] /\ todo[r] \subseteq Slot
            /\ cand[r] \in Candidates[slot[r]]
        BY <1>5 DEF DialSucceeds
      <4>2. \A s \in todo[r] : Candidates[s] \cap Candidates[slot[r]] = {}
        <5>1. ASSUME NEW s \in todo[r] PROVE Candidates[s] \cap Candidates[slot[r]] = {}
          <6>1. s \in Slot /\ s # slot[r]
            BY <4>1
          <6> QED
            BY <4>1, <6>1, Zenon DEF SlotsApart
        <5> QED
          BY <5>1
      <4> QED
        BY <4>1, <4>2
    <3>2. /\ group'[r] = group[r] \cup {cand[r]} /\ todo'[r] = todo[r]
          /\ live'[r] = live[r] /\ wanted'[r] = wanted[r] /\ slots'[r] = slots[r]
          /\ attempted'[r] = attempted[r] /\ adds'[r] = adds[r]
          /\ pc[r] = "dial" /\ pc'[r] = "backups"
      BY <1>5 DEF DialSucceeds
    <3>3. cand[r] \in attempted[r]
      BY <3>2
    <3> QED
      BY <2>2, <3>1, <3>2, <3>3
  <2> QED
    BY <2>1, <2>2
<1>6. ASSUME NEW r \in Report, DialFails(r) PROVE LoadKept(q)'
  BY <1>6 DEF DialFails, Free
<1>7. ASSUME NEW r \in Report, EndAdd(r) PROVE LoadKept(q)'
  BY <1>7 DEF EndAdd, Finish
<1>8. ASSUME NEW r \in Report, ReleaseClaims(r) PROVE LoadKept(q)'
  BY <1>8 DEF ReleaseClaims, Free
<1>9. ASSUME NEW r \in Report, CloseGroup(r) PROVE LoadKept(q)'
  BY <1>9 DEF CloseGroup, Unclaimed
<1>10. ASSUME NEW r \in Report, ReleaseRemote(r) PROVE LoadKept(q)'
  BY <1>10 DEF ReleaseRemote, Unclaimed
<1>11. ASSUME NEW r \in Report, Abort(r) PROVE LoadKept(q)'
  BY <1>11 DEF Abort, Awaits, Finish
<1>12. ASSUME NEW r \in Report, NEW s \in Slot, SelectSlot(r, s) PROVE LoadKept(q)'
  BY <1>12 DEF SelectSlot, Open
<1>13. ASSUME NEW r \in Report, NEW s \in Slot, SlotServed(r, s) PROVE LoadKept(q)'
  BY <1>13 DEF SlotServed
<1>14. ASSUME NEW r \in Report, NEW s \in Slot, SlotUnserved(r, s) PROVE LoadKept(q)'
  BY <1>14 DEF SlotUnserved, Free
<1>15. ASSUME NEW r \in Report, NEW h \in Host, ConnectHost(r, h) PROVE LoadKept(q)'
  BY <1>15 DEF ConnectHost, Claimable
<1>16. ASSUME NEW r \in Report, NEW h \in Host, TrySibling(r, h) PROVE LoadKept(q)'
  BY <1>16 DEF TrySibling, Open
<1>17. ASSUME NEW r \in Report, NEW h \in Host, RemoveHost(r, h) PROVE LoadKept(q)'
  BY <1>17 DEF RemoveHost
<1>18. ASSUME NEW r \in Report, NEW h \in Named, AddNamed(r, h) PROVE LoadKept(q)'
  BY <1>0, <1>18 DEF AddNamed
<1>19. ASSUME NEW h \in Host, ForeignClaim(h) PROVE LoadKept(q)'
  BY <1>19 DEF ForeignClaim
<1>20. ASSUME NEW r \in Report, StartWithoutStore(r) PROVE LoadKept(q)'
  <2>1. pc[r] = "unloaded"
    BY <1>0, <1>20 DEF StartWithoutStore
  <2>2. /\ group' = group /\ slots' = slots /\ live' = live /\ cand' = cand
        /\ todo' = todo /\ slot' = slot /\ claims' = claims
        /\ pc' = [pc EXCEPT ![r] = "connect"]
        /\ adds' = [adds EXCEPT ![r] = @ + 1]
        /\ wanted'[r] = attempted'[r]
        /\ \A t \in Report \ {r} : /\ wanted'[t] = wanted[t]
                                   /\ attempted'[t] = attempted[t]
    BY <1>20 DEF StartWithoutStore
  <2>3. CASE q = r
    <3>1. /\ group[r] = {} /\ live[r] = {} /\ pc'[r] = "connect"
          /\ \A s \in Slot : slots[r][s] = {}
      BY <2>1, <2>2
    <3>2. adds'[r] > 0
      <4>1. adds[r] \in 0 .. MaxAdds + 1 /\ adds'[r] = adds[r] + 1
        BY <2>2
      <4> QED
        BY <4>1
    <3> QED
      BY <2>2, <2>3, <3>1, <3>2
  <2>4. CASE q # r
    BY <2>2, <2>4
  <2> QED
    BY <2>3, <2>4
<1>21. ASSUME NEW r \in Report, CloseRemoved(r) PROVE LoadKept(q)'
  BY <1>21 DEF CloseRemoved, Unclaimed
<1>22. ASSUME NEW r \in Report, ReleaseRemoved(r) PROVE LoadKept(q)'
  BY <1>22 DEF ReleaseRemoved, Free
<1>23. CASE UNCHANGED vars
  BY <1>23 DEF vars
<1> QED
  BY <1>1, <1>2, <1>3, <1>4, <1>5, <1>6, <1>7, <1>8, <1>9, <1>10, <1>11,
     <1>12, <1>13, <1>14, <1>15, <1>16, <1>17, <1>18, <1>19, <1>20,
     <1>21, <1>22, <1>23 DEF
     Next, Step

LEMMA LoadInvHolds ==
  ASSUME OneLoad, SlotsApart
  PROVE  Spec => []LoadInv
<1>1. Init => LoadInv
  <2>1. Init => AgreeInv
    BY PoolAssumption DEF Init, AgreeInv, AgreeKept, TypeInv, TypeOK, ClaimInv,
       ClaimTypes, ClaimsKept, Owned
  <2> QED
    BY <2>1 DEF Init, LoadInv, LoadKept
<1>2. LoadInv /\ [Next]_vars /\ AgreeInv' => LoadInv'
  BY LoadStep DEF LoadInv
<1> QED
  BY <1>1, <1>2, AgreeInvHolds, PTL DEF Spec

(* The only way into a search for siblings is a slot without a connection. *)
LEMMA LiveSlotStep ==
  ASSUME LoadInv, [Next]_vars, NEW q \in Report, pc[q] = "backups", pc'[q] = "try"
  PROVE  slots[q][slot'[q]] \cap group[q] = {}
<1>t. pc = [r \in Report |-> pc[r]] /\ slot = [r \in Report |-> slot[r]]
  BY DEF LoadInv, AgreeInv, TypeInv, TypeOK
<1>1. ASSUME NEW r \in Report, NEW s \in Slot, SlotUnserved(r, s)
      PROVE  slots[q][slot'[q]] \cap group[q] = {}
  <2>1. r = q
    BY <1>t, <1>1 DEF SlotUnserved, Goto
  <2>2. slot'[q] = s /\ s \in todo[q] /\ slots[q][s] \cap live[q] = {}
    BY <1>t, <1>1, <2>1 DEF SlotUnserved
  <2>3. slots[q] = Candidates /\ Candidates[s] \cap group[q] \subseteq live[q]
    BY <2>2 DEF LoadInv, LoadKept
  <2> QED
    BY <2>2, <2>3
<1>2. ASSUME NEW r \in Report,
             \/ StartSelection(r) \/ Record(r) \/ Fold(r) \/ GiveUpSlot(r)
             \/ DialSucceeds(r) \/ DialFails(r) \/ EndAdd(r) \/ ReleaseRemote(r)
             \/ ReleaseClaims(r) \/ CloseGroup(r) \/ Abort(r)
             \/ StartWithoutStore(r) \/ CloseRemoved(r) \/ ReleaseRemoved(r)
      PROVE  FALSE
  BY <1>t, <1>2 DEF StartSelection, Record, Fold, GiveUpSlot, DialSucceeds,
     DialFails, EndAdd, ReleaseRemote, ReleaseClaims, CloseGroup, Abort, Finish,
     StartWithoutStore, CloseRemoved, ReleaseRemoved, batch, Goto
<1>3. ASSUME NEW r \in Report, NEW s \in Slot, SelectSlot(r, s) \/ SlotServed(r, s)
      PROVE  FALSE
  BY <1>t, <1>3 DEF SelectSlot, SlotServed
<1>4. ASSUME NEW r \in Report, NEW h \in Host,
             \/ AddNamed(r, h) \/ ConnectHost(r, h) \/ TrySibling(r, h)
             \/ RemoveHost(r, h)
      PROVE  FALSE
  BY <1>t, <1>4 DEF AddNamed, ConnectHost, TrySibling, RemoveHost, Goto
<1>5. ASSUME NEW h \in Host, ForeignClaim(h)
      PROVE  FALSE
  BY <1>5 DEF ForeignClaim
<1>6. CASE UNCHANGED vars
  BY <1>6 DEF vars
<1>7. Named \subseteq Host
  BY PoolAssumption
<1> QED
  BY <1>1, <1>2, <1>3, <1>4, <1>5, <1>6, <1>7 DEF Next, Step

(* The fallback does not touch a slot of which a host is connected, when   *)
(* all hosts come from the load and no host is a candidate of two slots:   *)
(* a later `add_host`, or a host shared by two slots, does break this.     *)
THEOREM LiveSlotCorrect ==
  OneLoad /\ SlotsApart => (Spec => LiveSlotLeftAlone)
<1> SUFFICES ASSUME OneLoad, SlotsApart PROVE Spec => LiveSlotLeftAlone
  OBVIOUS
<1>1. LoadInv /\ [Next]_vars =>
        [\A r \in Report :
           pc[r] = "backups" /\ pc'[r] = "try"
             => slots[r][slot'[r]] \cap group[r] = {}]_vars
  BY LiveSlotStep
<1> QED
  BY <1>1, LoadInvHolds, PTL DEF Spec, LiveSlotLeftAlone

(* A host is a candidate of one slot at most.                           *)
LEMMA InOneSlot ==
  ASSUME SlotsApart, NEW s \in Slot, NEW t \in Slot, NEW h,
         h \in Candidates[s], h \in Candidates[t]
  PROVE  s = t
BY DEF SlotsApart

(* A report acquires a host of a slot only while it has none of it.        *)
LEMMA SlotStep ==
  ASSUME OneLoad, SlotsApart, LoadInv, \A r \in Report : SlotKept(r), [Next]_vars,
         NEW q \in Report
  PROVE  SlotKept(q)'
<1> USE PoolAssumption DEF SlotKept, LoadInv, LoadKept, AgreeInv, AgreeKept,
    TypeInv, TypeOK, ClaimInv, ClaimsKept, batch, Goto
<1>1. ASSUME NEW r \in Report, StartSelection(r) PROVE SlotKept(q)'
  BY <1>1 DEF StartSelection
<1>2. ASSUME NEW r \in Report, Record(r) PROVE SlotKept(q)'
  BY <1>2 DEF Record
<1>3. ASSUME NEW r \in Report, Fold(r) PROVE SlotKept(q)'
  BY <1>3 DEF Fold
<1>4. ASSUME NEW r \in Report, GiveUpSlot(r) PROVE SlotKept(q)'
  BY <1>4 DEF GiveUpSlot
<1>5. ASSUME NEW r \in Report, DialSucceeds(r) PROVE SlotKept(q)'
  BY <1>5 DEF DialSucceeds, Claimable
<1>6. ASSUME NEW r \in Report, DialFails(r) PROVE SlotKept(q)'
  BY <1>6 DEF DialFails, Free
<1>7. ASSUME NEW r \in Report, EndAdd(r) PROVE SlotKept(q)'
  BY <1>7 DEF EndAdd, Finish
<1>8. ASSUME NEW r \in Report, ReleaseClaims(r) PROVE SlotKept(q)'
  BY <1>8 DEF ReleaseClaims, Free
<1>9. ASSUME NEW r \in Report, CloseGroup(r) PROVE SlotKept(q)'
  BY <1>9 DEF CloseGroup, Unclaimed
<1>10. ASSUME NEW r \in Report, ReleaseRemote(r) PROVE SlotKept(q)'
  BY <1>10 DEF ReleaseRemote, Unclaimed
<1>11. ASSUME NEW r \in Report, Abort(r) PROVE SlotKept(q)'
  BY <1>11 DEF Abort, Awaits, Finish
<1>12. ASSUME NEW r \in Report, NEW s \in Slot, SelectSlot(r, s) PROVE SlotKept(q)'
  <2>1. CASE UNCHANGED <<owners, chosen>>
    BY <1>12, <2>1 DEF SelectSlot
  <2>2. CASE \E x \in Host : Taken(r, s, x)
    <3>1. PICK x \in Host : Taken(r, s, x)
      BY <2>2
    <3>2. \A h \in Host :
            /\ owners'[h] = IF h = x THEN r ELSE owners[h]
            /\ \A t \in Report :
                 h \in chosen'[t] <=> h \in chosen[t] \/ (t = r /\ h = x)
      BY <3>1, TakenPointwise
    <3>3. /\ \A y \in Candidates[s] : owners[y] # r
          /\ owners[x] = Nobody
          /\ \A t \in Slot : x \in Candidates[t] => s = t
      BY <3>1, InOneSlot DEF Taken
    <3> QED
      BY <1>12, <3>2, <3>3 DEF SelectSlot
  <2> QED
    BY <1>12, <2>1, <2>2, SelectSlotTakes
<1>13. ASSUME NEW r \in Report, NEW s \in Slot, SlotServed(r, s) PROVE SlotKept(q)'
  BY <1>13 DEF SlotServed
<1>14. ASSUME NEW r \in Report, NEW s \in Slot, SlotUnserved(r, s) PROVE SlotKept(q)'
  <2>1. /\ pc[r] = "backups" /\ slots[r] = Candidates /\ chosen[r] = {}
        /\ pc' = [pc EXCEPT ![r] = "try"] /\ slot' = [slot EXCEPT ![r] = s]
        /\ cand' = cand /\ faults' = faults
    BY <1>14 DEF SlotUnserved
  <2>2. \A h \in Host :
          owners'[h] = IF h \in Candidates[s] \cap claims[r] /\ owners[h] = r
                       THEN Nobody ELSE owners[h]
    BY <1>14, <2>1 DEF SlotUnserved, Free
  <2>5. \A h \in Host : owners'[h] = q => owners[h] = q
    BY <2>2
  <2>6. \A t \in Slot : Candidates[t] \subseteq Host
    OBVIOUS
  <2>3. CASE q # r
    <3>1. pc'[q] = pc[q] /\ slot'[q] = slot[q] /\ cand'[q] = cand[q]
      BY <2>1, <2>3
    <3>2. /\ pc[q] = "try" => slot[q] \in Slot
          /\ pc[q] = "dial" => slot[q] \in Slot
      OBVIOUS
    <3> QED
      BY <2>1, <2>5, <2>6, <3>1, <3>2 DEF SlotKept
  <2>4. CASE q = r
    <3>1. \A h \in Host : owners[h] = r /\ faults = 0 => h \in claims[r]
      BY <2>1
    <3>2. faults = 0 => \A h \in Candidates[s] : owners'[h] # r
      <4> SUFFICES ASSUME faults = 0, NEW h \in Candidates[s], owners'[h] = r
                   PROVE  FALSE
        OBVIOUS
      <4>1. h \in Host /\ owners[h] = r /\ Nobody # r
        BY <2>4, <2>5, <2>6
      <4> QED
        BY <2>2, <3>1, <4>1
    <3>3. pc'[r] = "try" /\ slot'[r] = s
      BY <2>1
    <3> QED
      BY <2>1, <2>4, <2>5, <2>6, <3>2, <3>3 DEF SlotKept
  <2> QED
    BY <2>3, <2>4
<1>15. ASSUME NEW r \in Report, NEW h \in Host, ConnectHost(r, h) PROVE SlotKept(q)'
  BY <1>15 DEF ConnectHost, Claimable
<1>16. ASSUME NEW r \in Report, NEW h \in Host, TrySibling(r, h) PROVE SlotKept(q)'
  BY <1>16, InOneSlot DEF TrySibling, Open
<1>17. ASSUME NEW r \in Report, NEW h \in Host, RemoveHost(r, h) PROVE SlotKept(q)'
  BY <1>17 DEF RemoveHost
<1>18. ASSUME NEW r \in Report, NEW h \in Named, AddNamed(r, h) PROVE SlotKept(q)'
  BY <1>18 DEF AddNamed
<1>19. ASSUME NEW h \in Host, ForeignClaim(h) PROVE SlotKept(q)'
  BY <1>19 DEF ForeignClaim
<1>20. ASSUME NEW r \in Report, StartWithoutStore(r) PROVE SlotKept(q)'
  BY <1>20 DEF StartWithoutStore
<1>21. ASSUME NEW r \in Report, CloseRemoved(r) PROVE SlotKept(q)'
  BY <1>21 DEF CloseRemoved, Unclaimed
<1>22. ASSUME NEW r \in Report, ReleaseRemoved(r) PROVE SlotKept(q)'
  BY <1>22 DEF ReleaseRemoved, Free
<1>23. CASE UNCHANGED vars
  BY <1>23 DEF vars
<1> QED
  BY <1>1, <1>2, <1>3, <1>4, <1>5, <1>6, <1>7, <1>8, <1>9, <1>10, <1>11,
     <1>12, <1>13, <1>14, <1>15, <1>16, <1>17, <1>18, <1>19, <1>20,
     <1>21, <1>22, <1>23 DEF
     Next, Step

(* A pool claim of this RRID is written, and stays, only where the report   *)
(* has the host in the arbiter.                                            *)
LEMMA BackedStep ==
  ASSUME OneLoad, SlotsApart, RridsApart, LoadInv, NoOrphanClaim,
         \A r \in Report : BackedKept(r), [Next]_vars, NEW q \in Report
  PROVE  BackedKept(q)'
<1> SUFFICES ASSUME faults' = 0, pc'[q] \notin {"release", "close"},
                    NEW x \in group'[q] \cup live'[q], remote'[x] = RridOf[q]
             PROVE  owners'[x] = q
  BY DEF BackedKept
<1>0. ASSUME NEW r \in Report, faults = 0, pc[r] \notin {"release", "close"},
             x \in group[r] \cup live[r], remote[x] = RridOf[r]
      PROVE  owners[x] = r
  BY <1>0 DEF BackedKept
<1> USE PoolAssumption DEF BackedKept, LoadInv, LoadKept, AgreeInv, AgreeKept,
    TypeInv, TypeOK, ClaimInv, ClaimsKept, batch, Goto
<1>1. ASSUME NEW r \in Report, StartSelection(r) PROVE owners'[x] = q
  BY <1>1 DEF StartSelection
<1>2. ASSUME NEW r \in Report, Record(r) PROVE owners'[x] = q
  BY <1>2 DEF Record
<1>3. ASSUME NEW r \in Report, Fold(r) PROVE owners'[x] = q
  BY <1>3 DEF Fold
<1>4. ASSUME NEW r \in Report, GiveUpSlot(r) PROVE owners'[x] = q
  BY <1>4 DEF GiveUpSlot
<1>5. ASSUME NEW r \in Report, DialSucceeds(r) PROVE owners'[x] = q
  <2>1. owners[cand[r]] = r /\ owners' = owners
    BY <1>5 DEF DialSucceeds, Owned
  <2>2. CASE q = r
    <3>1. /\ pc[r] = "dial" /\ group'[r] = group[r] \cup {cand[r]}
          /\ live'[r] = live[r] /\ faults' = faults
          /\ x # cand[r] => remote'[x] = remote[x]
      BY <1>5, <2>2 DEF DialSucceeds
    <3>2. CASE x = cand[r]
      BY <2>1, <2>2, <3>2
    <3>3. CASE x # cand[r]
      <4>1. /\ faults = 0 /\ pc[r] \notin {"release", "close"}
            /\ x \in group[r] \cup live[r] /\ remote[x] = RridOf[r]
        BY <2>2, <3>1, <3>3
      <4> QED
        BY <1>0, <2>1, <2>2, <4>1
    <3> QED
      BY <3>2, <3>3
  <2>3. CASE q # r
    BY <1>5, <2>1, <2>3 DEF DialSucceeds, RridsApart
  <2> QED
    BY <2>2, <2>3
<1>6. ASSUME NEW r \in Report, DialFails(r) PROVE owners'[x] = q
  BY <1>6 DEF DialFails, Free
<1>7. ASSUME NEW r \in Report, EndAdd(r) PROVE owners'[x] = q
  BY <1>7 DEF EndAdd, Finish
<1>8. ASSUME NEW r \in Report, ReleaseClaims(r) PROVE owners'[x] = q
  BY <1>8 DEF ReleaseClaims, Free
<1>9. ASSUME NEW r \in Report, CloseGroup(r) PROVE owners'[x] = q
  BY <1>9 DEF CloseGroup, Unclaimed
<1>10. ASSUME NEW r \in Report, ReleaseRemote(r) PROVE owners'[x] = q
  BY <1>10 DEF ReleaseRemote, Unclaimed
<1>11. ASSUME NEW r \in Report, Abort(r) PROVE owners'[x] = q
  BY <1>11 DEF Abort, Awaits, Finish
<1>12. ASSUME NEW r \in Report, NEW s \in Slot, SelectSlot(r, s) PROVE owners'[x] = q
  BY <1>12 DEF SelectSlot, Open
<1>13. ASSUME NEW r \in Report, NEW s \in Slot, SlotServed(r, s) PROVE owners'[x] = q
  BY <1>13 DEF SlotServed
<1>14. ASSUME NEW r \in Report, NEW s \in Slot, SlotUnserved(r, s) PROVE owners'[x] = q
  BY <1>14 DEF SlotUnserved, Free
<1>15. ASSUME NEW r \in Report, NEW h \in Host, ConnectHost(r, h) PROVE owners'[x] = q
  <2>0. /\ pc[r] = "connect" /\ pc' = pc /\ group' = group /\ faults' = faults
        /\ live'[r] \subseteq live[r] \cup {h}
        /\ x # h => remote'[x] = remote[x]
    BY <1>15 DEF ConnectHost
  <2>1. CASE q # r
    <3>1. RridOf[q] # RridOf[r]
      BY <2>1 DEF RridsApart
    <3> QED
      BY <1>15, <2>1, <3>1 DEF ConnectHost
  <2>2. CASE q = r /\ h \in claims[r]
    <3>1. owners[h] = r
      BY <2>2 DEF Owned
    <3>2. owners' = owners
      BY <1>15 DEF ConnectHost
    <3>3. CASE x # h
      <4>1. /\ faults = 0 /\ pc[r] \notin {"release", "close"}
            /\ x \in group[r] \cup live[r] /\ remote[x] = RridOf[r]
        BY <2>0, <2>2, <3>3
      <4> QED
        BY <1>0, <2>2, <3>2, <4>1
    <3> QED
      BY <2>2, <3>1, <3>2, <3>3
  <2>3. CASE q = r /\ h \notin claims[r]
    <3>1. pc[r] = "connect" /\ remote' = remote /\ faults' = faults /\ owners' = owners
      BY <1>15, <2>3 DEF ConnectHost
    <3>2. faults = 0 => remote[h] # RridOf[r]
      <4> SUFFICES ASSUME faults = 0, remote[h] = RridOf[r] PROVE FALSE
        OBVIOUS
      <4>1. h \in group[r] \cup live[r]
        BY <3>1 DEF NoOrphanClaim, RridsApart
      <4>2. owners[h] = r /\ h \notin chosen[r]
        BY <3>1, <4>1
      <4> QED
        BY <2>3, <4>2
    <3>3. /\ faults = 0 /\ pc[r] \notin {"release", "close"} /\ x # h
          /\ x \in group[r] \cup live[r] /\ remote[x] = RridOf[r]
      BY <2>0, <2>3, <3>1, <3>2
    <3> QED
      BY <1>0, <2>3, <3>1, <3>3
  <2> QED
    BY <2>1, <2>2, <2>3
<1>16. ASSUME NEW r \in Report, NEW h \in Host, TrySibling(r, h) PROVE owners'[x] = q
  BY <1>16 DEF TrySibling, Open
<1>17. ASSUME NEW r \in Report, NEW h \in Host, RemoveHost(r, h) PROVE owners'[x] = q
  BY <1>17 DEF RemoveHost
<1>18. ASSUME NEW r \in Report, NEW h \in Named, AddNamed(r, h) PROVE owners'[x] = q
  BY <1>18 DEF AddNamed
<1>19. ASSUME NEW h \in Host, ForeignClaim(h) PROVE owners'[x] = q
  BY <1>19 DEF ForeignClaim
<1>20. ASSUME NEW r \in Report, StartWithoutStore(r) PROVE owners'[x] = q
  BY <1>20 DEF StartWithoutStore
<1>21. ASSUME NEW r \in Report, CloseRemoved(r) PROVE owners'[x] = q
  BY <1>21 DEF CloseRemoved, Unclaimed
<1>22. ASSUME NEW r \in Report, ReleaseRemoved(r) PROVE owners'[x] = q
  BY <1>22 DEF ReleaseRemoved, Free
<1>23. CASE UNCHANGED vars
  BY <1>23 DEF vars
<1> QED
  BY <1>1, <1>2, <1>3, <1>4, <1>5, <1>6, <1>7, <1>8, <1>9, <1>10, <1>11,
     <1>12, <1>13, <1>14, <1>15, <1>16, <1>17, <1>18, <1>19, <1>20,
     <1>21, <1>22, <1>23 DEF
     Next, Step

(* A report that names no host itself uses only hosts the arbiter gave it.*)
LEMMA OwnStep ==
  ASSUME OneLoad, SlotsApart, NoRefHosts, LoadInv, \A r \in Report : OwnKept(r),
         [Next]_vars, NEW q \in Report
  PROVE  OwnKept(q)'
<1>0. \A r \in Report : adds[r] <= MaxAdds => pc[r] = "unloaded"
  BY LoadsOnce
<1> USE PoolAssumption DEF OwnKept, NoRefHosts, LoadInv, LoadKept, AgreeInv,
    AgreeKept, TypeInv, TypeOK, ClaimInv, ClaimsKept, Owned, batch, Goto
<1>1. ASSUME NEW r \in Report, StartSelection(r) PROVE OwnKept(q)'
  BY <1>1 DEF StartSelection
<1>2. ASSUME NEW r \in Report, Record(r) PROVE OwnKept(q)'
  BY <1>2 DEF Record
<1>3. ASSUME NEW r \in Report, Fold(r) PROVE OwnKept(q)'
  BY <1>3 DEF Fold
<1>4. ASSUME NEW r \in Report, GiveUpSlot(r) PROVE OwnKept(q)'
  BY <1>4 DEF GiveUpSlot
<1>5. ASSUME NEW r \in Report, DialSucceeds(r) PROVE OwnKept(q)'
  BY <1>5 DEF DialSucceeds, Claimable
<1>6. ASSUME NEW r \in Report, DialFails(r) PROVE OwnKept(q)'
  BY <1>6 DEF DialFails, Free
<1>7. ASSUME NEW r \in Report, EndAdd(r) PROVE OwnKept(q)'
  BY <1>7 DEF EndAdd, Finish
<1>8. ASSUME NEW r \in Report, ReleaseClaims(r) PROVE OwnKept(q)'
  BY <1>8 DEF ReleaseClaims, Free
<1>9. ASSUME NEW r \in Report, CloseGroup(r) PROVE OwnKept(q)'
  BY <1>9 DEF CloseGroup, Unclaimed
<1>10. ASSUME NEW r \in Report, ReleaseRemote(r) PROVE OwnKept(q)'
  BY <1>10 DEF ReleaseRemote, Unclaimed
<1>11. ASSUME NEW r \in Report, Abort(r) PROVE OwnKept(q)'
  BY <1>11 DEF Abort, Awaits, Finish
<1>12. ASSUME NEW r \in Report, NEW s \in Slot, SelectSlot(r, s) PROVE OwnKept(q)'
  <2>1. CASE UNCHANGED <<owners, chosen>>
    BY <1>12, <2>1 DEF SelectSlot
  <2>2. CASE \E x \in Host : Taken(r, s, x)
    <3>1. PICK x \in Host : Taken(r, s, x)
      BY <2>2
    <3>2. \A h \in Host :
            /\ owners'[h] = IF h = x THEN r ELSE owners[h]
            /\ \A t \in Report :
                 h \in chosen'[t] <=> h \in chosen[t] \/ (t = r /\ h = x)
      BY <3>1, TakenPointwise
    <3>3. x \in Candidates[s] /\ owners[x] = Nobody
      BY <3>1 DEF Taken
    <3> QED
      BY <1>12, <3>2, <3>3 DEF SelectSlot
  <2> QED
    BY <1>12, <2>1, <2>2, SelectSlotTakes
<1>13. ASSUME NEW r \in Report, NEW s \in Slot, SlotServed(r, s) PROVE OwnKept(q)'
  BY <1>13 DEF SlotServed
<1>14. ASSUME NEW r \in Report, NEW s \in Slot, SlotUnserved(r, s) PROVE OwnKept(q)'
  BY <1>14 DEF SlotUnserved, Free
<1>15. ASSUME NEW r \in Report, NEW h \in Host, ConnectHost(r, h) PROVE OwnKept(q)'
  BY <1>15 DEF ConnectHost, Claimable
<1>16. ASSUME NEW r \in Report, NEW h \in Host, TrySibling(r, h) PROVE OwnKept(q)'
  BY <1>16 DEF TrySibling, Open
<1>17. ASSUME NEW r \in Report, NEW h \in Host, RemoveHost(r, h) PROVE OwnKept(q)'
  BY <1>17 DEF RemoveHost
<1>18. ASSUME NEW r \in Report, NEW h \in Named, AddNamed(r, h) PROVE OwnKept(q)'
  BY <1>0, <1>18 DEF AddNamed
<1>19. ASSUME NEW h \in Host, ForeignClaim(h) PROVE OwnKept(q)'
  BY <1>19 DEF ForeignClaim
<1>20. ASSUME NEW r \in Report, StartWithoutStore(r) PROVE OwnKept(q)'
  BY <1>0, <1>20 DEF StartWithoutStore
<1>21. ASSUME NEW r \in Report, CloseRemoved(r) PROVE OwnKept(q)'
  BY <1>21 DEF CloseRemoved, Unclaimed
<1>22. ASSUME NEW r \in Report, ReleaseRemoved(r) PROVE OwnKept(q)'
  BY <1>22 DEF ReleaseRemoved, Free
<1>23. CASE UNCHANGED vars
  BY <1>23 DEF vars
<1> QED
  BY <1>1, <1>2, <1>3, <1>4, <1>5, <1>6, <1>7, <1>8, <1>9, <1>10, <1>11,
     <1>12, <1>13, <1>14, <1>15, <1>16, <1>17, <1>18, <1>19, <1>20,
     <1>21, <1>22, <1>23 DEF
     Next, Step

(* A host that is owned is connected by the end of the command, or given   *)
(* back with its slot.                                                     *)
LEMMA UsedStep ==
  ASSUME OneLoad, SlotsApart, NoRefHosts, LoadInv, \A r \in Report : OwnKept(r),
         \A r \in Report : SlotKept(r), \A r \in Report : UsedKept(r),
         [Next]_vars, NEW q \in Report
  PROVE  UsedKept(q)'
<1>0. \A r \in Report : adds[r] <= MaxAdds => pc[r] = "unloaded"
  BY LoadsOnce
<1>s. \A r \in Report : faults = 0 /\ pc[r] = "backups" =>
        \A h \in live[r] : owners[h] = r /\ h \in group[r]
  BY DEF LoadInv, AgreeInv, AgreeKept, OwnKept
<1> USE PoolAssumption DEF OwnKept, SlotKept, UsedKept, LoadInv, LoadKept,
    AgreeInv, AgreeKept, TypeInv, TypeOK, ClaimInv, ClaimsKept, Owned, batch,
    Goto
<1>1. ASSUME NEW r \in Report, StartSelection(r) PROVE UsedKept(q)'
  <2>1. Owned(r) = {} /\ pc[r] = "unloaded"
    BY <1>0, <1>1 DEF StartSelection
  <2> QED
    BY <1>1, <2>1 DEF StartSelection
<1>2. ASSUME NEW r \in Report, Record(r) PROVE UsedKept(q)'
  BY <1>2 DEF Record
<1>3. ASSUME NEW r \in Report, Fold(r) PROVE UsedKept(q)'
  BY <1>3 DEF Fold
<1>4. ASSUME NEW r \in Report, GiveUpSlot(r) PROVE UsedKept(q)'
  BY <1>4 DEF GiveUpSlot
<1>5. ASSUME NEW r \in Report, DialSucceeds(r) PROVE UsedKept(q)'
  BY <1>5 DEF DialSucceeds, Claimable
<1>6. ASSUME NEW r \in Report, DialFails(r) PROVE UsedKept(q)'
  BY <1>6 DEF DialFails, Free
<1>7. ASSUME NEW r \in Report, EndAdd(r) PROVE UsedKept(q)'
  BY <1>7 DEF EndAdd, Finish
<1>8. ASSUME NEW r \in Report, ReleaseClaims(r) PROVE UsedKept(q)'
  BY <1>8 DEF ReleaseClaims, Free
<1>9. ASSUME NEW r \in Report, CloseGroup(r) PROVE UsedKept(q)'
  BY <1>9 DEF CloseGroup, Unclaimed
<1>10. ASSUME NEW r \in Report, ReleaseRemote(r) PROVE UsedKept(q)'
  BY <1>10 DEF ReleaseRemote, Unclaimed
<1>11. ASSUME NEW r \in Report, Abort(r) PROVE UsedKept(q)'
  BY <1>11 DEF Abort, Awaits, Finish
<1>12. ASSUME NEW r \in Report, NEW s \in Slot, SelectSlot(r, s) PROVE UsedKept(q)'
  <2>1. CASE UNCHANGED <<owners, chosen>>
    BY <1>12, <2>1 DEF SelectSlot
  <2>2. CASE \E x \in Host : Taken(r, s, x)
    <3>1. PICK x \in Host : Taken(r, s, x)
      BY <2>2
    <3>2. \A h \in Host :
            /\ owners'[h] = IF h = x THEN r ELSE owners[h]
            /\ \A t \in Report :
                 h \in chosen'[t] <=> h \in chosen[t] \/ (t = r /\ h = x)
      BY <3>1, TakenPointwise
    <3>3. x \in Candidates[s] /\ owners[x] = Nobody
      BY <3>1 DEF Taken
    <3> QED
      BY <1>12, <3>2, <3>3 DEF SelectSlot
  <2> QED
    BY <1>12, <2>1, <2>2, SelectSlotTakes
<1>13. ASSUME NEW r \in Report, NEW s \in Slot, SlotServed(r, s) PROVE UsedKept(q)'
  <2>1. CASE q # r
    BY <1>13, <2>1 DEF SlotServed
  <2>2. CASE q = r
    <3>1. PICK x \in Host : x \in Candidates[s] /\ x \in live[r]
      BY <1>13 DEF SlotServed
    <3>3. faults = 0 => owners[x] = r /\ x \in group[r]
      <4>1. pc[r] = "backups"
        BY <1>13 DEF SlotServed
      <4> QED
        BY <1>s, <3>1, <4>1
    <3>2. ASSUME NEW h \in Candidates[s], faults = 0, owners[h] = r PROVE h \in group[r]
      <4>1. h = x
        BY <3>1, <3>2, <3>3
      <4> QED
        BY <3>2, <3>3, <4>1
    <3>4. /\ pc[r] = "backups" /\ pc'[r] = "backups" /\ todo'[r] = todo[r] \ {s}
          /\ group' = group /\ owners' = owners /\ faults' = faults
      BY <1>13 DEF SlotServed
    <3> QED
      BY <2>2, <3>2, <3>4
  <2> QED
    BY <2>1, <2>2
<1>14. ASSUME NEW r \in Report, NEW s \in Slot, SlotUnserved(r, s) PROVE UsedKept(q)'
  <2>1. /\ pc[r] = "backups" /\ slots[r] = Candidates /\ chosen[r] = {}
        /\ pc' = [pc EXCEPT ![r] = "try"] /\ todo' = [todo EXCEPT ![r] = @ \ {s}]
        /\ group' = group /\ cand' = cand /\ slots' = slots /\ faults' = faults
    BY <1>14 DEF SlotUnserved
  <2>2. \A h \in Host :
          owners'[h] = IF h \in Candidates[s] \cap claims[r] /\ owners[h] = r
                       THEN Nobody ELSE owners[h]
    BY <1>14, <2>1 DEF SlotUnserved, Free
  <2>3. CASE q # r
    BY <2>1, <2>2, <2>3
  <2>4. CASE q = r
    <3>1. \A h \in Host : owners[h] = r /\ faults = 0 => h \in claims[r]
      BY <2>1
    <3> SUFFICES ASSUME faults = 0, NEW h \in Host, owners'[h] = r
                 PROVE  h \in group[r] \/ \E t \in todo'[r] : h \in Candidates[t]
      BY <2>1, <2>4
    <3>2. owners[h] = r /\ h \notin Candidates[s]
      BY <2>2, <3>1
    <3>3. h \in group[r] \/ \E t \in todo[r] : h \in Candidates[t]
      BY <2>1, <3>2
    <3>4. todo'[r] = todo[r] \ {s}
      BY <2>1
    <3> QED
      BY <3>2, <3>3, <3>4
  <2> QED
    BY <2>3, <2>4
<1>15. ASSUME NEW r \in Report, NEW h \in Host, ConnectHost(r, h) PROVE UsedKept(q)'
  BY <1>15 DEF ConnectHost, Claimable
<1>16. ASSUME NEW r \in Report, NEW h \in Host, TrySibling(r, h) PROVE UsedKept(q)'
  BY <1>16 DEF TrySibling, Open
<1>17. ASSUME NEW r \in Report, NEW h \in Host, RemoveHost(r, h) PROVE UsedKept(q)'
  BY <1>17 DEF RemoveHost
<1>18. ASSUME NEW r \in Report, NEW h \in Named, AddNamed(r, h) PROVE UsedKept(q)'
  BY <1>0, <1>18 DEF AddNamed
<1>19. ASSUME NEW h \in Host, ForeignClaim(h) PROVE UsedKept(q)'
  BY <1>19 DEF ForeignClaim
<1>20. ASSUME NEW r \in Report, StartWithoutStore(r) PROVE UsedKept(q)'
  BY <1>0, <1>20 DEF StartWithoutStore
<1>21. ASSUME NEW r \in Report, CloseRemoved(r) PROVE UsedKept(q)'
  BY <1>21 DEF CloseRemoved, Unclaimed
<1>22. ASSUME NEW r \in Report, ReleaseRemoved(r) PROVE UsedKept(q)'
  BY <1>22 DEF ReleaseRemoved, Free
<1>23. CASE UNCHANGED vars
  BY <1>23 DEF vars
<1> QED
  BY <1>1, <1>2, <1>3, <1>4, <1>5, <1>6, <1>7, <1>8, <1>9, <1>10, <1>11,
     <1>12, <1>13, <1>14, <1>15, <1>16, <1>17, <1>18, <1>19, <1>20,
     <1>21, <1>22, <1>23 DEF
     Next, Step

SlotInv   == LoadInv /\ \A r \in Report : SlotKept(r)
OwnInv    == LoadInv /\ \A r \in Report : OwnKept(r)
UsedInv   == SlotInv /\ OwnInv /\ \A r \in Report : UsedKept(r)
BackedInv == LoadInv /\ NoOrphanClaim /\ \A r \in Report : BackedKept(r)

LEMMA SlotInvHolds ==
  ASSUME OneLoad, SlotsApart
  PROVE  Spec => []SlotInv
<1>1. Init => \A r \in Report : SlotKept(r)
  BY PoolAssumption DEF Init, SlotKept
<1>2. LoadInv /\ (\A r \in Report : SlotKept(r)) /\ [Next]_vars
        => (\A r \in Report : SlotKept(r))'
  BY SlotStep
<1> QED
  BY <1>1, <1>2, LoadInvHolds, PTL DEF Spec, SlotInv

LEMMA OwnInvHolds ==
  ASSUME OneLoad, SlotsApart, NoRefHosts
  PROVE  Spec => []OwnInv
<1>1. Init => \A r \in Report : OwnKept(r)
  BY DEF Init, OwnKept
<1>2. LoadInv /\ (\A r \in Report : OwnKept(r)) /\ [Next]_vars
        => (\A r \in Report : OwnKept(r))'
  BY OwnStep
<1> QED
  BY <1>1, <1>2, LoadInvHolds, PTL DEF Spec, OwnInv

LEMMA BackedInvHolds ==
  ASSUME OneLoad, SlotsApart, RridsApart
  PROVE  Spec => []BackedInv
<1>1. Init => \A r \in Report : BackedKept(r)
  BY DEF Init, BackedKept
<1>2. LoadInv /\ NoOrphanClaim /\ (\A r \in Report : BackedKept(r)) /\ [Next]_vars
        => (\A r \in Report : BackedKept(r))'
  BY BackedStep
<1> QED
  BY <1>1, <1>2, LoadInvHolds, NoOrphanCorrect, PTL DEF Spec, BackedInv

(* What a report owns after its load it is connected to: every host        *)
(* pool_select drew is connected, replaced by a sibling, or given back,    *)
(* when templates name no hosts of their own.                              *)
THEOREM OwnedIsUsedCorrect ==
  OneLoad /\ SlotsApart /\ NoRefHosts => (Spec => []OwnedIsUsed)
<1> SUFFICES ASSUME OneLoad, SlotsApart, NoRefHosts PROVE Spec => []OwnedIsUsed
  OBVIOUS
<1>1. Init => \A r \in Report : UsedKept(r)
  BY PoolAssumption DEF Init, UsedKept
<1>2. SlotInv /\ OwnInv /\ (\A r \in Report : UsedKept(r)) /\ [Next]_vars
        => (\A r \in Report : UsedKept(r))'
  BY UsedStep DEF SlotInv, OwnInv
<1>3. UsedInv => OwnedIsUsed
  BY DEF UsedInv, UsedKept, OwnedIsUsed, Resting, Owned
<1> QED
  BY <1>1, <1>2, <1>3, SlotInvHolds, OwnInvHolds, PTL DEF Spec, UsedInv

(* While a report uses a host it has a pool claim on, the arbiter keeps    *)
(* that host from the other templates: when no two reports share an RRID,  *)
(* or none names hosts of its own.                                         *)
THEOREM ClaimBackedCorrect ==
  OneLoad /\ SlotsApart /\ (RridsApart \/ NoRefHosts) => (Spec => []ClaimBacked)
<1>1. BackedInv => ClaimBacked
  BY DEF BackedInv, BackedKept, ClaimBacked
<1>2. OwnInv => ClaimBacked
  BY DEF OwnInv, OwnKept, ClaimBacked
<1>3. OneLoad /\ SlotsApart /\ RridsApart => (Spec => []ClaimBacked)
  <2> SUFFICES ASSUME OneLoad, SlotsApart, RridsApart PROVE Spec => []ClaimBacked
    OBVIOUS
  <2> QED
    BY <1>1, BackedInvHolds, PTL
<1>4. OneLoad /\ SlotsApart /\ NoRefHosts => (Spec => []ClaimBacked)
  <2> SUFFICES ASSUME OneLoad, SlotsApart, NoRefHosts PROVE Spec => []ClaimBacked
    OBVIOUS
  <2> QED
    BY <1>2, OwnInvHolds, PTL
<1> QED
  BY <1>3, <1>4

(* "One distinct free host per test-target slot": of a slot's candidates a *)
(* report has a pool claim on one at most.                                 *)
THEOREM OneHostPerSlotCorrect ==
  OneLoad /\ SlotsApart /\ (RridsApart \/ NoRefHosts) => (Spec => []OneHostPerSlot)
<1> SUFFICES ASSUME OneLoad, SlotsApart, RridsApart \/ NoRefHosts
             PROVE  Spec => []OneHostPerSlot
  OBVIOUS
<1>2. Spec => []ClaimBacked
  BY ClaimBackedCorrect
<1>1. SlotInv /\ ClaimBacked => OneHostPerSlot
  <2> SUFFICES ASSUME SlotInv, ClaimBacked, NEW r \in Report, NEW s \in Slot, Resting(r)
               PROVE  Cardinality({h \in group[r] \cap slots[r][s] :
                                     remote[h] = RridOf[r]}) <= 1
    BY DEF OneHostPerSlot
  <2> DEFINE Held == {h \in group[r] \cap slots[r][s] : remote[h] = RridOf[r]}
  <2>1. \A h \in Held : owners[h] = r /\ h \in Candidates[s]
    BY DEF ClaimBacked, Resting, SlotInv, LoadInv, LoadKept
  <2>2. \A x, y \in Held : x = y
    BY <2>1 DEF SlotInv, SlotKept, Resting
  <2>3. CASE Held = {}
    BY <2>3, FS_EmptySet
  <2>4. CASE Held # {}
    <3>1. PICK x \in Held : TRUE
      BY <2>4
    <3>2. Held = {x}
      BY <2>2, <3>1
    <3>3. Cardinality({x}) = 1
      BY FS_Singleton
    <3> QED
      BY <3>2, <3>3
  <2> QED
    BY <2>3, <2>4
<1> QED
  BY <1>1, <1>2, SlotInvHolds, PTL
=============================================================================
