------------------------ MODULE SessionRegistryProofs ------------------------
(***************************************************************************)
(* The sessions of mtui-mcp for any number of clients and templates.  That *)
(* nothing is left behind unknown is inductive once it is said of every    *)
(* moment: a session with claims is in the live set, in a batch whose      *)
(* close will still see them, or they have gone astray; and it is not in   *)
(* both.                                                                   *)
(***************************************************************************)
EXTENDS SessionRegistry, TLAPS

(* The live set and the batch of a close share no session, and what a      *)
(* close has begun is in its batch.                                        *)
Apart ==
    /\ tracked \subseteq minted /\ batch \subseteq minted
    /\ tracked \cap batch = {}
    /\ \A s \in Session : close[s] # "none" => s \in batch

(* A shutdown finds the batch of the sweeper dropped, empties the live set *)
(* and leaves no batch.                                                    *)
Ending ==
    /\ shut \in {"closing", "exit"} => tracked = {} /\ sweeper = "stopped"
    /\ sweeper = "stopped" /\ shut # "closing" => batch = {}
    /\ sweeper = "stopped" => shut \in {"joining", "closing", "exit"}

(* A claim whose release is to come belongs to a session that will be      *)
(* closed and whose close will still see it; a line without a claim is one *)
(* that its release did not reach.                                         *)
Accounted ==
    \A s \in Session :
        /\ held[s] \subseteq loaded[s]
        /\ lines[s] \subseteq held[s] \cup stuck[s]
        /\ s \in tracked \/ held[s] \ astray[s] = {}
                         \/ /\ s \in batch
                            /\ close[s] = "entries" => held[s] \ astray[s] \subseteq left[s]

Inv == TypeOK /\ Apart /\ Ending /\ Accounted

(* A release takes claims and lines away, and notes what it did not reach. *)
LEMMA ReleaseType ==
  ASSUME TypeOK, NEW s \in Session, NEW t \in Template, Release(s, t)
  PROVE  /\ held' \in [Session -> SUBSET Template] /\ lines' \in [Session -> SUBSET Template]
         /\ stuck' \in [Session -> SUBSET Template]
<1>1. ASSUME NEW f \in [Session -> SUBSET Template], NEW S \in SUBSET Template
      PROVE  [f EXCEPT ![s] = S] \in [Session -> SUBSET Template]
  BY <1>1
<1>2. /\ held[s] \ {t} \in SUBSET Template /\ lines[s] \ {t} \in SUBSET Template
      /\ stuck[s] \ {t} \in SUBSET Template /\ stuck[s] \cup {t} \in SUBSET Template
  BY DEF TypeOK
<1>3. held' \in [Session -> SUBSET Template]
  BY <1>1, <1>2 DEF TypeOK, Release
<1>4. lines' \in [Session -> SUBSET Template]
  <2>1. lines' = [lines EXCEPT ![s] = lines[s] \ {t}] \/ lines' = lines
    BY DEF Release
  <2>2. lines \in [Session -> SUBSET Template]
    BY DEF TypeOK
  <2>3. CASE lines' = [lines EXCEPT ![s] = lines[s] \ {t}]
    BY <1>1, <1>2, <2>2, <2>3
  <2> QED
    BY <2>1, <2>2, <2>3
<1>5. stuck' \in [Session -> SUBSET Template]
  <2>1. \/ stuck' = [stuck EXCEPT ![s] = stuck[s] \ {t}]
        \/ stuck' = [stuck EXCEPT ![s] = stuck[s] \cup {t}]
    BY DEF Release
  <2>2. stuck \in [Session -> SUBSET Template]
    BY DEF TypeOK
  <2>3. CASE stuck' = [stuck EXCEPT ![s] = stuck[s] \ {t}]
    BY <1>1, <1>2, <2>2, <2>3
  <2>4. CASE stuck' = [stuck EXCEPT ![s] = stuck[s] \cup {t}]
    BY <1>1, <1>2, <2>2, <2>4
  <2> QED
    BY <2>1, <2>3, <2>4
<1> QED
  BY <1>3, <1>4, <1>5

(* Every step keeps the types.                                             *)
LEMMA TypeStep ==
  ASSUME TypeOK, [Next]_vars
  PROVE  TypeOK'
<1> USE DEF liveVars, callVars, closeVars, claimVars, TypeOK
<1> DEFINE Goal == TypeOK'
<1>1. CASE Mint
  BY <1>1 DEF Mint, Abandon, Living
<1>2. CASE Wake
  BY <1>2 DEF Wake, Abandon, Living
<1>3. CASE Rest
  BY <1>3 DEF Rest
<1>4. CASE Deadline
  BY <1>4 DEF Deadline, DropBatch, Abandon
<1>5. CASE Signal
  BY <1>5 DEF Signal
<1>6. CASE Drained
  BY <1>6 DEF Drained
<1>7. CASE Stop
  BY <1>7 DEF Stop, DropBatch, Abandon
<1>8. CASE CloseAll
  BY <1>8 DEF CloseAll, Abandon, Living
<1>9. CASE Exit
  BY <1>9 DEF Exit
<1>10. ASSUME NEW s \in Session, GoQuiet(s) PROVE Goal
  BY <1>10 DEF GoQuiet
<1>10a. ASSUME NEW s \in Session, Touch(s) PROVE Goal
  BY <1>10a DEF Touch
<1>11. ASSUME NEW s \in Session, Call(s) PROVE Goal
  <2>1. PICK by \in By : \/ excl' = [excl EXCEPT ![s] = by] /\ UNCHANGED fork
                         \/ /\ \E t \in loaded[s] : fork' = [fork EXCEPT ![s][t] = by]
                            /\ UNCHANGED excl
    BY <1>11 DEF Call, By
  <2>2. excl' \in [Session -> By] /\ fork' \in [Session -> [Template -> By]]
    <3>1. CASE excl' = [excl EXCEPT ![s] = by] /\ UNCHANGED fork
      BY <3>1
    <3>2. ASSUME NEW t \in loaded[s], fork' = [fork EXCEPT ![s][t] = by], UNCHANGED excl
          PROVE  excl' \in [Session -> By] /\ fork' \in [Session -> [Template -> By]]
      <4>1. [fork[s] EXCEPT ![t] = by] \in [Template -> By]
        OBVIOUS
      <4> QED
        BY <3>2, <4>1
    <3> QED
      BY <2>1, <3>1, <3>2
  <2>3. given' \in 0 .. MaxCalls
    BY <1>11, RegistryAssumption DEF Call
  <2> QED
    BY <1>11, <2>2, <2>3 DEF Call
<1>12. ASSUME NEW s \in Session, EndCall(s) PROVE Goal
  <2>1. "none" \in By
    BY DEF By
  <2>2. excl' \in [Session -> By] /\ fork' \in [Session -> [Template -> By]]
    <3>1. ASSUME NEW t \in Template, fork' = [fork EXCEPT ![s][t] = "none"], UNCHANGED excl
          PROVE  excl' \in [Session -> By] /\ fork' \in [Session -> [Template -> By]]
      <4>1. [fork[s] EXCEPT ![t] = "none"] \in [Template -> By]
        BY <2>1
      <4> QED
        BY <3>1, <4>1
    <3>2. CASE excl' = [excl EXCEPT ![s] = "none"] /\ UNCHANGED fork
      BY <2>1, <3>2
    <3>3. \/ excl' = [excl EXCEPT ![s] = "none"] /\ UNCHANGED fork
          \/ UNCHANGED excl /\ \E t \in Template : fork' = [fork EXCEPT ![s][t] = "none"]
      BY <1>12 DEF EndCall
    <3> QED
      BY <3>1, <3>2, <3>3
  <2> QED
    BY <1>12, <2>2 DEF EndCall
<1>13. ASSUME NEW s \in Session, Disconnect(s) PROVE Goal
  BY <1>13 DEF Disconnect
<1>14. ASSUME NEW s \in Session, GuardDrop(s) PROVE Goal
  BY <1>14 DEF GuardDrop, Abandon
<1>15. ASSUME NEW s \in Session, StartClose(s) PROVE Goal
  BY <1>15 DEF StartClose
<1>16. ASSUME NEW s \in Session, TakeHandles(s) PROVE Goal
  BY <1>16 DEF TakeHandles
<1>17. ASSUME NEW s \in Session, Closed(s) PROVE Goal
  BY <1>17 DEF Closed, Through
<1>18. ASSUME NEW s \in Session, Lapse(s) PROVE Goal
  BY <1>18 DEF Lapse, Through, Abandon
<1>19. ASSUME NEW s \in Session, Revalidate(s) PROVE Goal
  BY <1>19 DEF Revalidate
<1>20. ASSUME NEW s \in Session, NEW t \in Template, Claim(s, t) PROVE Goal
  BY <1>20 DEF Claim, InHand, ToClose
<1>21. ASSUME NEW s \in Session, NEW t \in Template, GiveUp(s, t) PROVE Goal
  BY <1>21, ReleaseType DEF GiveUp
<1>22. ASSUME NEW s \in Session, NEW t \in Template, Load(s, t) PROVE Goal
  BY <1>22 DEF Load
<1>23. ASSUME NEW s \in Session, NEW t \in Template, Unload(s, t) PROVE Goal
  BY <1>23, ReleaseType DEF Unload
<1>24. ASSUME NEW s \in Session, NEW t \in Template, CloseEntry(s, t) PROVE Goal
  BY <1>24, ReleaseType DEF CloseEntry
<1>25. CASE UNCHANGED vars
  BY <1>25 DEF vars, liveVars, callVars, closeVars, claimVars
<1> QED
  BY <1>1, <1>2, <1>3, <1>4, <1>5, <1>6, <1>7, <1>8, <1>9, <1>10, <1>10a, <1>11,
     <1>12, <1>13, <1>14, <1>15, <1>16, <1>17, <1>18, <1>19, <1>20, <1>21,
     <1>22, <1>23, <1>24, <1>25 DEF Next, Client, Close

(* Sessions move from the live set into a batch, and out of it closed.     *)
LEMMA ApartStep ==
  ASSUME TypeOK, Apart, Ending, [Next]_vars
  PROVE  Apart'
<1> USE DEF liveVars, callVars, closeVars, claimVars, TypeOK, Apart, Ending
<1> DEFINE Goal == Apart'
<1>1. CASE Mint
  BY <1>1 DEF Mint, Abandon, Living
<1>2. CASE Wake
  BY <1>2 DEF Wake, Abandon, Living
<1>3. CASE Rest
  BY <1>3 DEF Rest
<1>4. CASE Deadline
  BY <1>4 DEF Deadline, DropBatch, Abandon
<1>5. CASE Signal
  BY <1>5 DEF Signal
<1>6. CASE Drained
  BY <1>6 DEF Drained
<1>7. CASE Stop
  BY <1>7 DEF Stop, DropBatch, Abandon
<1>8. CASE CloseAll
  BY <1>8 DEF CloseAll, Abandon, Living
<1>9. CASE Exit
  BY <1>9 DEF Exit
<1>10. ASSUME NEW s \in Session, GoQuiet(s) PROVE Goal
  BY <1>10 DEF GoQuiet
<1>10a. ASSUME NEW s \in Session, Touch(s) PROVE Goal
  BY <1>10a DEF Touch
<1>11. ASSUME NEW s \in Session, Call(s) PROVE Goal
  BY <1>11 DEF Call, By
<1>12. ASSUME NEW s \in Session, EndCall(s) PROVE Goal
  BY <1>12 DEF EndCall
<1>13. ASSUME NEW s \in Session, Disconnect(s) PROVE Goal
  BY <1>13 DEF Disconnect
<1>14. ASSUME NEW s \in Session, GuardDrop(s) PROVE Goal
  BY <1>14 DEF GuardDrop, Abandon
<1>15. ASSUME NEW s \in Session, StartClose(s) PROVE Goal
  BY <1>15 DEF StartClose
<1>16. ASSUME NEW s \in Session, TakeHandles(s) PROVE Goal
  BY <1>16 DEF TakeHandles
<1>17. ASSUME NEW s \in Session, Closed(s) PROVE Goal
  BY <1>17 DEF Closed, Through
<1>18. ASSUME NEW s \in Session, Lapse(s) PROVE Goal
  BY <1>18 DEF Lapse, Through, Abandon
<1>19. ASSUME NEW s \in Session, Revalidate(s) PROVE Goal
  BY <1>19 DEF Revalidate
<1>20. ASSUME NEW s \in Session, NEW t \in Template, Claim(s, t) PROVE Goal
  BY <1>20 DEF Claim, InHand, ToClose
<1>21. ASSUME NEW s \in Session, NEW t \in Template, GiveUp(s, t) PROVE Goal
  BY <1>21 DEF GiveUp, InHand, Release
<1>22. ASSUME NEW s \in Session, NEW t \in Template, Load(s, t) PROVE Goal
  BY <1>22 DEF Load
<1>23. ASSUME NEW s \in Session, NEW t \in Template, Unload(s, t) PROVE Goal
  BY <1>23 DEF Unload, Release
<1>24. ASSUME NEW s \in Session, NEW t \in Template, CloseEntry(s, t) PROVE Goal
  BY <1>24 DEF CloseEntry, Release
<1>25. CASE UNCHANGED vars
  BY <1>25 DEF vars, liveVars, callVars, closeVars, claimVars
<1> QED
  BY <1>1, <1>2, <1>3, <1>4, <1>5, <1>6, <1>7, <1>8, <1>9, <1>10, <1>10a, <1>11,
     <1>12, <1>13, <1>14, <1>15, <1>16, <1>17, <1>18, <1>19, <1>20, <1>21,
     <1>22, <1>23, <1>24, <1>25 DEF Next, Client, Close

(* The steps of a shutdown come in their order.                            *)
LEMMA EndingStep ==
  ASSUME TypeOK, Ending, [Next]_vars
  PROVE  Ending'
<1> USE DEF liveVars, callVars, closeVars, claimVars, TypeOK, Ending
<1> DEFINE Goal == Ending'
<1>1. CASE Mint
  BY <1>1 DEF Mint, Abandon, Living
<1>2. CASE Wake
  BY <1>2 DEF Wake, Abandon, Living
<1>3. CASE Rest
  BY <1>3 DEF Rest
<1>4. CASE Deadline
  BY <1>4 DEF Deadline, DropBatch, Abandon
<1>5. CASE Signal
  BY <1>5 DEF Signal
<1>6. CASE Drained
  BY <1>6 DEF Drained
<1>7. CASE Stop
  BY <1>7 DEF Stop, DropBatch, Abandon
<1>8. CASE CloseAll
  BY <1>8 DEF CloseAll, Abandon, Living
<1>9. CASE Exit
  BY <1>9 DEF Exit
<1>10. ASSUME NEW s \in Session, GoQuiet(s) PROVE Goal
  BY <1>10 DEF GoQuiet
<1>10a. ASSUME NEW s \in Session, Touch(s) PROVE Goal
  BY <1>10a DEF Touch
<1>11. ASSUME NEW s \in Session, Call(s) PROVE Goal
  BY <1>11 DEF Call, By
<1>12. ASSUME NEW s \in Session, EndCall(s) PROVE Goal
  BY <1>12 DEF EndCall
<1>13. ASSUME NEW s \in Session, Disconnect(s) PROVE Goal
  BY <1>13 DEF Disconnect
<1>14. ASSUME NEW s \in Session, GuardDrop(s) PROVE Goal
  BY <1>14 DEF GuardDrop, Abandon
<1>15. ASSUME NEW s \in Session, StartClose(s) PROVE Goal
  BY <1>15 DEF StartClose
<1>16. ASSUME NEW s \in Session, TakeHandles(s) PROVE Goal
  BY <1>16 DEF TakeHandles
<1>17. ASSUME NEW s \in Session, Closed(s) PROVE Goal
  BY <1>17 DEF Closed, Through
<1>18. ASSUME NEW s \in Session, Lapse(s) PROVE Goal
  BY <1>18 DEF Lapse, Through, Abandon
<1>19. ASSUME NEW s \in Session, Revalidate(s) PROVE Goal
  BY <1>19 DEF Revalidate
<1>20. ASSUME NEW s \in Session, NEW t \in Template, Claim(s, t) PROVE Goal
  BY <1>20 DEF Claim, InHand, ToClose
<1>21. ASSUME NEW s \in Session, NEW t \in Template, GiveUp(s, t) PROVE Goal
  BY <1>21 DEF GiveUp, InHand, Release
<1>22. ASSUME NEW s \in Session, NEW t \in Template, Load(s, t) PROVE Goal
  BY <1>22 DEF Load
<1>23. ASSUME NEW s \in Session, NEW t \in Template, Unload(s, t) PROVE Goal
  BY <1>23 DEF Unload, Release
<1>24. ASSUME NEW s \in Session, NEW t \in Template, CloseEntry(s, t) PROVE Goal
  BY <1>24 DEF CloseEntry, Release
<1>25. CASE UNCHANGED vars
  BY <1>25 DEF vars, liveVars, callVars, closeVars, claimVars
<1> QED
  BY <1>1, <1>2, <1>3, <1>4, <1>5, <1>6, <1>7, <1>8, <1>9, <1>10, <1>10a, <1>11,
     <1>12, <1>13, <1>14, <1>15, <1>16, <1>17, <1>18, <1>19, <1>20, <1>21,
     <1>22, <1>23, <1>24, <1>25 DEF Next, Client, Close

(* No step loses a session that holds claims without excusing it.          *)
LEMMA AccountedStep ==
  ASSUME TypeOK, Apart, Ending, Accounted, [Next]_vars
  PROVE  Accounted'
<1> USE DEF liveVars, callVars, closeVars, claimVars, TypeOK, Apart, Ending, Accounted
<1> DEFINE Goal == Accounted'
<1>1. CASE Mint
  BY <1>1 DEF Mint, Abandon, Living
<1>2. CASE Wake
  BY <1>2 DEF Wake, Abandon, Living
<1>3. CASE Rest
  BY <1>3 DEF Rest
<1>4. CASE Deadline
  BY <1>4 DEF Deadline, DropBatch, Abandon
<1>5. CASE Signal
  BY <1>5 DEF Signal
<1>6. CASE Drained
  BY <1>6 DEF Drained
<1>7. CASE Stop
  BY <1>7 DEF Stop, DropBatch, Abandon
<1>8. CASE CloseAll
  BY <1>8 DEF CloseAll, Abandon, Living
<1>9. CASE Exit
  BY <1>9 DEF Exit
<1>10. ASSUME NEW s \in Session, GoQuiet(s) PROVE Goal
  BY <1>10 DEF GoQuiet
<1>10a. ASSUME NEW s \in Session, Touch(s) PROVE Goal
  BY <1>10a DEF Touch
<1>11. ASSUME NEW s \in Session, Call(s) PROVE Goal
  BY <1>11 DEF Call, By
<1>12. ASSUME NEW s \in Session, EndCall(s) PROVE Goal
  BY <1>12 DEF EndCall
<1>13. ASSUME NEW s \in Session, Disconnect(s) PROVE Goal
  BY <1>13 DEF Disconnect
<1>14. ASSUME NEW s \in Session, GuardDrop(s) PROVE Goal
  BY <1>14 DEF GuardDrop, Abandon
<1>15. ASSUME NEW s \in Session, StartClose(s) PROVE Goal
  BY <1>15 DEF StartClose
<1>16. ASSUME NEW s \in Session, TakeHandles(s) PROVE Goal
  BY <1>16 DEF TakeHandles
<1>17. ASSUME NEW s \in Session, Closed(s) PROVE Goal
  BY <1>17 DEF Closed, Through
<1>18. ASSUME NEW s \in Session, Lapse(s) PROVE Goal
  BY <1>18 DEF Lapse, Through, Abandon
<1>19. ASSUME NEW s \in Session, Revalidate(s) PROVE Goal
  BY <1>19 DEF Revalidate
<1>20. ASSUME NEW s \in Session, NEW t \in Template, Claim(s, t) PROVE Goal
  BY <1>20 DEF Claim, InHand, ToClose
<1>21. ASSUME NEW s \in Session, NEW t \in Template, GiveUp(s, t) PROVE Goal
  BY <1>21 DEF GiveUp, InHand, Release
<1>22. ASSUME NEW s \in Session, NEW t \in Template, Load(s, t) PROVE Goal
  BY <1>22 DEF Load
<1>23. ASSUME NEW s \in Session, NEW t \in Template, Unload(s, t) PROVE Goal
  BY <1>23 DEF Unload, Release
<1>24. ASSUME NEW s \in Session, NEW t \in Template, CloseEntry(s, t) PROVE Goal
  BY <1>24 DEF CloseEntry, Release
<1>25. CASE UNCHANGED vars
  BY <1>25 DEF vars, liveVars, callVars, closeVars, claimVars
<1> QED
  BY <1>1, <1>2, <1>3, <1>4, <1>5, <1>6, <1>7, <1>8, <1>9, <1>10, <1>10a, <1>11,
     <1>12, <1>13, <1>14, <1>15, <1>16, <1>17, <1>18, <1>19, <1>20, <1>21,
     <1>22, <1>23, <1>24, <1>25 DEF Next, Client, Close

(* What a sweep takes for closing is quiet.                                *)
OnlyQuiet == \A s \in batch' \ batch : sweeper = "sweep" => s \in quiet

LEMMA SweepStep ==
  ASSUME TypeOK, [Next]_vars
  PROVE  OnlyQuiet
<1> USE DEF liveVars, callVars, closeVars, claimVars, OnlyQuiet
<1> DEFINE Goal == OnlyQuiet
<1>1. CASE Mint
  BY <1>1 DEF Mint, Abandon, Living
<1>2. CASE Wake
  BY <1>2 DEF Wake, Abandon, Living
<1>3. CASE Rest
  BY <1>3 DEF Rest
<1>4. CASE Deadline
  BY <1>4 DEF Deadline, DropBatch, Abandon
<1>5. CASE Signal
  BY <1>5 DEF Signal
<1>6. CASE Drained
  BY <1>6 DEF Drained
<1>7. CASE Stop
  BY <1>7 DEF Stop, DropBatch, Abandon
<1>8. CASE CloseAll
  BY <1>8 DEF CloseAll, Abandon, Living
<1>9. CASE Exit
  BY <1>9 DEF Exit
<1>10. ASSUME NEW s \in Session, GoQuiet(s) PROVE Goal
  BY <1>10 DEF GoQuiet
<1>10a. ASSUME NEW s \in Session, Touch(s) PROVE Goal
  BY <1>10a DEF Touch
<1>11. ASSUME NEW s \in Session, Call(s) PROVE Goal
  BY <1>11 DEF Call, By
<1>12. ASSUME NEW s \in Session, EndCall(s) PROVE Goal
  BY <1>12 DEF EndCall
<1>13. ASSUME NEW s \in Session, Disconnect(s) PROVE Goal
  BY <1>13 DEF Disconnect
<1>14. ASSUME NEW s \in Session, GuardDrop(s) PROVE Goal
  BY <1>14 DEF GuardDrop, Abandon
<1>15. ASSUME NEW s \in Session, StartClose(s) PROVE Goal
  BY <1>15 DEF StartClose
<1>16. ASSUME NEW s \in Session, TakeHandles(s) PROVE Goal
  BY <1>16 DEF TakeHandles
<1>17. ASSUME NEW s \in Session, Closed(s) PROVE Goal
  BY <1>17 DEF Closed, Through
<1>18. ASSUME NEW s \in Session, Lapse(s) PROVE Goal
  BY <1>18 DEF Lapse, Through, Abandon
<1>19. ASSUME NEW s \in Session, Revalidate(s) PROVE Goal
  BY <1>19 DEF Revalidate
<1>20. ASSUME NEW s \in Session, NEW t \in Template, Claim(s, t) PROVE Goal
  BY <1>20 DEF Claim, InHand, ToClose
<1>21. ASSUME NEW s \in Session, NEW t \in Template, GiveUp(s, t) PROVE Goal
  BY <1>21 DEF GiveUp, InHand, Release
<1>22. ASSUME NEW s \in Session, NEW t \in Template, Load(s, t) PROVE Goal
  BY <1>22 DEF Load
<1>23. ASSUME NEW s \in Session, NEW t \in Template, Unload(s, t) PROVE Goal
  BY <1>23 DEF Unload, Release
<1>24. ASSUME NEW s \in Session, NEW t \in Template, CloseEntry(s, t) PROVE Goal
  BY <1>24 DEF CloseEntry, Release
<1>25. CASE UNCHANGED vars
  BY <1>25 DEF vars, liveVars, callVars, closeVars, claimVars
<1> QED
  BY <1>1, <1>2, <1>3, <1>4, <1>5, <1>6, <1>7, <1>8, <1>9, <1>10, <1>10a, <1>11,
     <1>12, <1>13, <1>14, <1>15, <1>16, <1>17, <1>18, <1>19, <1>20, <1>21,
     <1>22, <1>23, <1>24, <1>25 DEF Next, Client, Close

(* The invariant holds of every behaviour.                                 *)
LEMMA InvHolds == Spec => []Inv
<1>1. Init => Inv
  BY RegistryAssumption DEF Init, Inv, TypeOK, By, Apart, Ending, Accounted
<1>2. Inv /\ [Next]_vars => Inv'
  BY TypeStep, ApartStep, EndingStep, AccountedStep DEF Inv
<1> QED
  BY <1>1, <1>2, PTL DEF Spec

(* Type correctness of the registry, the sweeper and the shutdown.         *)
THEOREM TypeCorrect == Spec => []TypeOK
<1>1. Inv => TypeOK
  BY DEF Inv
<1> QED
  BY <1>1, InvHolds, PTL

(* When the process exits, a pool line is left on a host only if its       *)
(* release did not reach it, or was missed, cut short or outrun.           *)
THEOREM LeavesNothing == Spec => []NothingLeftBehind
<1>1. Inv => NothingLeftBehind
  BY DEF Inv, Ending, Accounted, NothingLeftBehind
<1> QED
  BY <1>1, InvHolds, PTL

(* The sweep takes a session out of the live set only if it is quiet then, *)
(* whatever its client did since the sweep collected it.                   *)
THEOREM SweepSpares == Spec => SparesTheActive
<1>1. TypeOK /\ [Next]_vars => [OnlyQuiet]_vars
  BY SweepStep
<1>2. [][OnlyQuiet]_vars => SparesTheActive
  BY PTL DEF OnlyQuiet, SparesTheActive
<1> QED
  BY <1>1, <1>2, TypeCorrect, PTL DEF Spec
===============================================================================
