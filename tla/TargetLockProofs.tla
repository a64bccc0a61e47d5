-------------------------- MODULE TargetLockProofs --------------------------
(***************************************************************************)
(* The operation lock for every number of instances, every stale age and   *)
(* wait budget, and any number of failures and crashes.                    *)
(***************************************************************************)
EXTENDS TargetLock, TLAPS

(* A line written over what the file holds is a line of its writer.        *)
LEMMA OverlayIsLine ==
  ASSUME NEW l \in Line, NEW f
  PROVE  /\ Overlay(l, f) \in Line
         /\ Overlay(l, f).owner = l.owner
BY DEF Overlay, Line

(* Whatever request is under way, the file keeps a content it may have.    *)
LEMMA EffectIsContent ==
  ASSUME TypeOK, NEW i \in Instance
  PROVE  Effect(i) \in Content
BY OverlayIsLine DEF TypeOK, Effect, Content

(* Ending a call, or taking its loop around once more, keeps the types.    *)
LEMMA ReturnTypes ==
  ASSUME TypeOK, NEW i \in Instance, Return(i) \/ Retry(i)
  PROVE  /\ pc' \in [Instance -> PcValue]
         /\ task' \in [Instance -> TaskValue]
         /\ tries' \in [Instance -> 0 .. Retries]
         /\ polls' \in [Instance -> 0 .. LockWait]
<1>1. "idle" \in PcValue /\ "create" \in PcValue /\ "none" \in TaskValue
  BY DEF PcValue, TaskValue
<1>2. CASE Return(i)
  BY <1>1, <1>2, ConstantsAssumption DEF TypeOK, Return, Goto
<1>3. CASE Retry(i) /\ ~ Return(i)
  BY <1>1, <1>3, ConstantsAssumption DEF TypeOK, Retry, Goto
<1>4. QED
  BY <1>2, <1>3

(* A removal leaves handles handles.                                        *)
LEMMA UnlinkedTypes ==
  ASSUME TypeOK
  PROVE  Unlinked(fd) \in [Instance -> FdValue]
<1>1. "unlinked" \in FdValue
  BY DEF FdValue
<1>2. QED
  BY <1>1 DEF TypeOK, Unlinked

(* Every variable has its type in every reachable state.                   *)
THEOREM TypeCorrect == Spec => []TypeOK
<1>1. Init => TypeOK
  <2>1. "idle" \in PcValue /\ "none" \in TaskValue /\ "none" \in FdValue
    BY DEF PcValue, TaskValue, FdValue
  <2>2. ASSUME NEW i \in Instance
        PROVE  [owner |-> Identity[i], stamp |-> 0, comment |-> Unmarked] \in Line
    BY ConstantsAssumption DEF Line
  <2>3. Init => line \in [Instance -> Line] /\ \A i \in Instance : line[i].owner = Identity[i]
    BY <2>2 DEF Init
  <2>4. 0 \in 0 .. Retries /\ 0 \in 0 .. LockWait /\ 0 \in 0 .. MaxFaults
    BY ConstantsAssumption
  <2>5. StartTime \in 0 .. MaxTime /\ Leftover \subseteq Content
    BY ConstantsAssumption, ContentAssumption
  <2>6. Init => /\ pc \in [Instance -> PcValue]
                /\ task \in [Instance -> TaskValue]
                /\ fd \in [Instance -> FdValue]
    BY <2>1 DEF Init
  <2>7. Init => /\ tries \in [Instance -> 0 .. Retries]
                /\ polls \in [Instance -> 0 .. LockWait]
                /\ faults \in 0 .. MaxFaults
    BY <2>4 DEF Init
  <2>8. Init => /\ held \in [Instance -> Comment \cup {NotHeld}]
                /\ granted \in [Instance -> BOOLEAN]
                /\ seized \in BOOLEAN
                /\ now \in 0 .. MaxTime /\ file \in Content
    BY <2>5 DEF Init
  <2>9. QED
    BY <2>3, <2>6, <2>7, <2>8 DEF TypeOK
<1>2. TypeOK /\ [Next]_vars => TypeOK'
  <2> SUFFICES ASSUME TypeOK, [Next]_vars PROVE TypeOK'
    OBVIOUS
  <2>1. ASSUME NEW i \in Instance, NEW k \in Comment, StartLock(i, k)
        PROVE  TypeOK'
    <3>1. "create" \in PcValue /\ "lock" \in TaskValue
      BY DEF PcValue, TaskValue
    <3>2. QED
      BY <2>1, <3>1, ConstantsAssumption DEF TypeOK, StartLock, Goto, Line
  <2>2. ASSUME NEW i \in Instance, Create(i)
        PROVE  TypeOK'
    <3>1. "stamp" \in PcValue /\ "load" \in PcValue /\ "linked" \in FdValue
      BY DEF PcValue, FdValue
    <3>2. QED
      BY <2>2, <3>1, EffectIsContent DEF TypeOK, Create, Continue, Goto
  <2>3. ASSUME NEW i \in Instance, Stamp(i)
        PROVE  TypeOK'
    <3>1. "none" \in FdValue /\ line[i].comment \in Comment
      BY DEF FdValue, TypeOK, Line
    <3>2. QED
      BY <2>3, <3>1, EffectIsContent, ReturnTypes DEF TypeOK, Stamp
  <2>4. ASSUME NEW i \in Instance, Load(i)
        PROVE  TypeOK'
    <3>1. "restamp" \in PcValue /\ "age" \in PcValue
      BY DEF PcValue
    <3>2. QED
      BY <2>4, <3>1, ReturnTypes, ConstantsAssumption DEF TypeOK, Load,
         Continue, Goto
  <2>5. ASSUME NEW i \in Instance, Restamp(i)
        PROVE  TypeOK'
    <3>1. "stamp" \in PcValue /\ "linked" \in FdValue
      BY DEF PcValue, FdValue
    <3>2. QED
      BY <2>5, <3>1, EffectIsContent DEF TypeOK, Restamp, Continue, Goto
  <2>6. ASSUME NEW i \in Instance, Age(i)
        PROVE  TypeOK'
    <3>1. "look" \in PcValue /\ "poll" \in PcValue
      BY DEF PcValue
    <3>2. QED
      BY <2>6, <3>1, ReturnTypes DEF TypeOK, Age, Continue, Goto
  <2>7. ASSUME NEW i \in Instance, Poll(i)
        PROVE  TypeOK'
    <3>1. "age" \in PcValue
      BY DEF PcValue
    <3>2. QED
      BY <2>7, <3>1, ReturnTypes, ConstantsAssumption DEF TypeOK, Poll, Goto
  <2>8. ASSUME NEW i \in Instance, NEW f \in BOOLEAN, StartUnlock(i, f)
        PROVE  TypeOK'
    <3>1. "look" \in PcValue /\ "unlock" \in TaskValue /\ "unlock -f" \in TaskValue
      BY DEF PcValue, TaskValue
    <3>2. QED
      BY <2>8, <3>1 DEF TypeOK, StartUnlock, Goto
  <2>9. ASSUME NEW i \in Instance, StartConnect(i)
        PROVE  TypeOK'
    <3>1. "age" \in PcValue /\ "connect" \in TaskValue
      BY DEF PcValue, TaskValue
    <3>2. QED
      BY <2>9, <3>1 DEF TypeOK, StartConnect, Goto
  <2>10. ASSUME NEW i \in Instance, Look(i)
         PROVE  TypeOK'
    <3>1. "remove" \in PcValue
      BY DEF PcValue
    <3>2. QED
      BY <2>10, <3>1, ReturnTypes DEF TypeOK, Look, Released, Continue, Goto
  <2>11. ASSUME NEW i \in Instance, Remove(i)
         PROVE  TypeOK'
    <3>1. seized' \in BOOLEAN
      BY <2>11 DEF TypeOK, Remove
    <3>2. QED
      BY <2>11, <3>1, EffectIsContent, ReturnTypes, UnlinkedTypes DEF TypeOK,
         Remove, Released
  <2>12. ASSUME NEW i \in Instance, Fail(i)
         PROVE  TypeOK'
    <3>1. "none" \in FdValue /\ seized' \in BOOLEAN
      BY <2>12 DEF FdValue, TypeOK, Fail
    <3>2. QED
      BY <2>12, <3>1, EffectIsContent, ReturnTypes, UnlinkedTypes,
         ConstantsAssumption DEF TypeOK, Fail
  <2>13. ASSUME NEW w \in Process, Crash(w)
         PROVE  TypeOK'
    <3>1. "dead" \in PcValue /\ "none" \in FdValue
      BY DEF PcValue, FdValue
    <3>2. QED
      BY <2>13, <3>1 DEF TypeOK, Crash, call
  <2>14. CASE Tick
    BY <2>14, ConstantsAssumption DEF TypeOK, Tick, call
  <2>15. CASE UNCHANGED vars
    BY <2>15 DEF TypeOK, vars
  <2>16. QED
    BY <2>1, <2>2, <2>3, <2>4, <2>5, <2>6, <2>7, <2>8, <2>9,
       <2>10, <2>11, <2>12, <2>13, <2>14, <2>15 DEF Next, Step
<1>3. QED
  BY <1>1, <1>2, PTL DEF Spec

(* The strengthened invariant is inductive.                                *)
LEMMA ExclusionStep ==
  ASSUME Apart, TypeOK, ExclusionInv, [Next]_vars
  PROVE  ExclusionInv'
<1> SUFFICES ASSUME ~ seized'
             PROVE  GrantIsAlone' /\ WriterIsAlone' /\ ReadStaysTrue'
  BY DEF ExclusionInv
<1>1. ASSUME NEW i \in Instance, NEW k \in Comment, StartLock(i, k)
      PROVE  GrantIsAlone' /\ WriterIsAlone' /\ ReadStaysTrue'
  BY <1>1, OverlayIsLine DEF TypeOK, Apart, ExclusionInv, GrantIsAlone,
     WriterIsAlone, ReadStaysTrue, Mine, Unlocked, Forced, StartLock, Goto
<1>2. ASSUME NEW i \in Instance, Load(i)
      PROVE  GrantIsAlone' /\ WriterIsAlone' /\ ReadStaysTrue'
  BY <1>2, OverlayIsLine DEF TypeOK, Apart, ExclusionInv, GrantIsAlone,
     WriterIsAlone, ReadStaysTrue, Mine, Unlocked, Forced, Load, Retry, Return,
     Continue, Goto
<1>3. ASSUME NEW i \in Instance, Age(i)
      PROVE  GrantIsAlone' /\ WriterIsAlone' /\ ReadStaysTrue'
  BY <1>3, OverlayIsLine DEF TypeOK, Apart, ExclusionInv, GrantIsAlone,
     WriterIsAlone, ReadStaysTrue, Mine, Unlocked, Forced, Age, Return,
     Continue, Goto
<1>4. ASSUME NEW i \in Instance, Poll(i)
      PROVE  GrantIsAlone' /\ WriterIsAlone' /\ ReadStaysTrue'
  BY <1>4, OverlayIsLine DEF TypeOK, Apart, ExclusionInv, GrantIsAlone,
     WriterIsAlone, ReadStaysTrue, Mine, Unlocked, Forced, Poll, Retry, Return,
     Goto
<1>5. ASSUME NEW i \in Instance, NEW f \in BOOLEAN, StartUnlock(i, f)
      PROVE  GrantIsAlone' /\ WriterIsAlone' /\ ReadStaysTrue'
  BY <1>5, OverlayIsLine DEF TypeOK, Apart, ExclusionInv, GrantIsAlone,
     WriterIsAlone, ReadStaysTrue, Mine, Unlocked, Forced, StartUnlock, Goto
<1>6. ASSUME NEW i \in Instance, StartConnect(i)
      PROVE  GrantIsAlone' /\ WriterIsAlone' /\ ReadStaysTrue'
  BY <1>6, OverlayIsLine DEF TypeOK, Apart, ExclusionInv, GrantIsAlone,
     WriterIsAlone, ReadStaysTrue, Mine, Unlocked, Forced, StartConnect, Goto
<1>7. ASSUME NEW i \in Instance, Look(i)
      PROVE  GrantIsAlone' /\ WriterIsAlone' /\ ReadStaysTrue'
  BY <1>7, OverlayIsLine DEF TypeOK, Apart, ExclusionInv, GrantIsAlone,
     WriterIsAlone, ReadStaysTrue, Mine, Unlocked, Forced, Look, Released,
     Retry, Return, Continue, Goto
<1>8. ASSUME NEW i \in Instance, Create(i)
      PROVE  GrantIsAlone' /\ WriterIsAlone' /\ ReadStaysTrue'
  <2>1. CASE file = Absent
    <3>1. \A j \in Instance : ~ granted[j] /\ fd[j] = "none" /\ pc[j] # "restamp"
      BY <1>8, <2>1, ContentAssumption DEF Create, TypeOK, ExclusionInv,
         GrantIsAlone, WriterIsAlone, ReadStaysTrue, Mine
    <3>2. /\ file' = Blank /\ granted' = granted /\ task' = task
          /\ fd' = [fd EXCEPT ![i] = "linked"] /\ pc' = [pc EXCEPT ![i] = "stamp"]
      BY <1>8, <2>1 DEF Create, Effect, Continue, Goto
    <3>3. GrantIsAlone' /\ WriterIsAlone'
      BY <1>8, <3>1, <3>2 DEF TypeOK, ExclusionInv, GrantIsAlone,
         WriterIsAlone, ReadStaysTrue, Create
    <3>4. ReadStaysTrue'
      BY <1>8, <2>1, <3>1, <3>2, ContentAssumption DEF TypeOK, ExclusionInv,
         GrantIsAlone, WriterIsAlone, ReadStaysTrue, Create, Mine, Forced
    <3>5. QED
      BY <3>3, <3>4
  <2>2. CASE file # Absent
    <3>1. /\ file' = file /\ granted' = granted /\ task' = task /\ fd' = fd
          /\ pc' = [pc EXCEPT ![i] = "load"]
      BY <1>8, <2>2 DEF Create, Effect, Continue, Goto
    <3>2. QED
      BY <1>8, <3>1 DEF TypeOK, ExclusionInv, GrantIsAlone, WriterIsAlone,
         ReadStaysTrue, Create, Mine, Forced
  <2>3. QED
    BY <2>1, <2>2
<1>9. ASSUME NEW i \in Instance, Stamp(i)
      PROVE  GrantIsAlone' /\ WriterIsAlone' /\ ReadStaysTrue'
  <2>1. /\ ~ seized /\ pc[i] = "stamp" /\ fd[i] = "linked" /\ file = Blank
        /\ \A j \in Instance \ {i} : fd[j] = "none" /\ ~ granted[j]
    BY <1>9 DEF Stamp, TypeOK, ExclusionInv, GrantIsAlone, WriterIsAlone,
       ReadStaysTrue
  <2>2. \A j \in Instance : pc[j] # "restamp" /\ (pc[j] = "remove" => Forced(j))
    BY <2>1, ContentAssumption DEF ExclusionInv, GrantIsAlone, WriterIsAlone,
       ReadStaysTrue, Mine
  <2>3. file' \in Line /\ file'.owner = Identity[i]
    BY <1>9, <2>1, OverlayIsLine DEF Stamp, Effect, TypeOK
  <2>4. /\ granted' = [granted EXCEPT ![i] = TRUE] /\ fd' = [fd EXCEPT ![i] = "none"]
        /\ pc' = [pc EXCEPT ![i] = "idle"] /\ task' = [task EXCEPT ![i] = "none"]
    BY <1>9 DEF Stamp, Return, Goto
  <2>5. GrantIsAlone'
    BY <2>1, <2>3, <2>4, ContentAssumption DEF TypeOK, GrantIsAlone
  <2>6. WriterIsAlone'
    BY <1>9, <2>1, <2>4 DEF TypeOK, ExclusionInv, GrantIsAlone, WriterIsAlone,
       ReadStaysTrue, Stamp
  <2>7. ReadStaysTrue'
    BY <2>2, <2>4 DEF TypeOK, ReadStaysTrue, Forced
  <2>8. QED
    BY <2>5, <2>6, <2>7
<1>10. ASSUME NEW i \in Instance, Restamp(i)
       PROVE  GrantIsAlone' /\ WriterIsAlone' /\ ReadStaysTrue'
  <2>1. /\ ~ seized /\ Mine(i, file) /\ file # Blank
        /\ \A j \in Instance : fd[j] = "none"
    BY <1>10, ContentAssumption DEF Restamp, TypeOK, ExclusionInv,
       GrantIsAlone, WriterIsAlone, ReadStaysTrue, Mine
  <2>2. \A j \in Instance \ {i} : /\ ~ granted[j] /\ pc[j] # "restamp"
                                  /\ pc[j] = "remove" => Forced(j)
    BY <2>1 DEF ExclusionInv, GrantIsAlone, WriterIsAlone, ReadStaysTrue, Mine,
       Apart
  <2>3. /\ granted' = granted /\ fd' = [fd EXCEPT ![i] = "linked"] /\ file' = Blank
        /\ pc' = [pc EXCEPT ![i] = "stamp"] /\ task' = task
    BY <1>10 DEF Restamp, Effect, Continue, Goto
  <2>4. GrantIsAlone'
    BY <2>1, <2>2, <2>3, ContentAssumption DEF TypeOK, GrantIsAlone
  <2>5. WriterIsAlone'
    BY <1>10, <2>1, <2>3 DEF TypeOK, ExclusionInv, GrantIsAlone, WriterIsAlone,
       ReadStaysTrue, Restamp
  <2>6. ReadStaysTrue'
    BY <2>2, <2>3 DEF TypeOK, ReadStaysTrue, Forced
  <2>7. QED
    BY <2>4, <2>5, <2>6
<1>11. ASSUME NEW i \in Instance, Remove(i)
       PROVE  GrantIsAlone' /\ WriterIsAlone' /\ ReadStaysTrue'
  <2>1. CASE file = Absent
    BY <1>11, <2>1 DEF TypeOK, ExclusionInv, GrantIsAlone, WriterIsAlone,
       ReadStaysTrue, Mine, Forced, Remove, Effect, Return, Goto
  <2>2. CASE file # Absent
    <3>1. ~ seized /\ Mine(i, file) /\ pc[i] = "remove"
      BY <1>11, <2>2 DEF Remove
    <3>2. \A j \in Instance : /\ ~ granted[j] /\ fd[j] = "none" /\ pc[j] # "restamp"
                              /\ j # i /\ pc[j] = "remove" => Forced(j)
      BY <3>1, ContentAssumption DEF TypeOK, ExclusionInv, GrantIsAlone,
         WriterIsAlone, ReadStaysTrue, Mine, Apart
    <3>3. granted' = granted /\ \A j \in Instance : fd'[j] = "none"
      BY <1>11, <2>2, <3>2 DEF Remove, Unlinked
    <3>4. /\ \A j \in Instance \ {i} : pc'[j] = pc[j] /\ task'[j] = task[j]
          /\ pc'[i] \in {"idle", "create"}
      BY <1>11, <2>2 DEF TypeOK, Remove, Released, Retry, Return, Goto
    <3>8. \A j \in Instance : pc[j] # "stamp"
      BY <3>1, <3>2 DEF ExclusionInv, WriterIsAlone
    <3>5. GrantIsAlone' /\ WriterIsAlone'
      BY <3>2, <3>3, <3>4, <3>8 DEF GrantIsAlone, WriterIsAlone
    <3>6. ReadStaysTrue'
      BY <3>2, <3>4 DEF ReadStaysTrue, Forced, Mine
    <3>7. QED
      BY <3>5, <3>6
  <2>3. QED
    BY <2>1, <2>2
<1>12. ASSUME NEW i \in Instance, Fail(i)
       PROVE  GrantIsAlone' /\ WriterIsAlone' /\ ReadStaysTrue'
  <2>1. /\ ~ seized /\ granted' = granted /\ pc[i] # "idle"
        /\ pc' = [pc EXCEPT ![i] = "idle"] /\ task' = [task EXCEPT ![i] = "none"]
    BY <1>12 DEF Fail, Return, Goto
  <2>2. CASE file' = file /\ fd' = [fd EXCEPT ![i] = "none"]
    BY <2>1, <2>2 DEF TypeOK, ExclusionInv, GrantIsAlone, WriterIsAlone,
       ReadStaysTrue, Mine, Forced
  <2>3. CASE pc[i] = "create" /\ file = Absent /\ file' = Blank /\ fd' = [fd EXCEPT ![i] = "none"]
    <3>1. \A j \in Instance : ~ granted[j] /\ fd[j] = "none" /\ pc[j] # "restamp"
      BY <2>1, <2>3, ContentAssumption DEF TypeOK, ExclusionInv, GrantIsAlone,
         WriterIsAlone, ReadStaysTrue, Mine
    <3>2. GrantIsAlone' /\ WriterIsAlone'
      BY <2>1, <2>3, <3>1 DEF TypeOK, ExclusionInv, GrantIsAlone,
         WriterIsAlone, ReadStaysTrue
    <3>3. ReadStaysTrue'
      BY <2>1, <2>3, <3>1, ContentAssumption DEF TypeOK, ExclusionInv,
         GrantIsAlone, WriterIsAlone, ReadStaysTrue, Mine, Forced
    <3>4. QED
      BY <3>2, <3>3
  <2>4. CASE /\ pc[i] = "stamp" /\ file' = Overlay(line[i], file)
             /\ fd' = [fd EXCEPT ![i] = "none"]
    <3>1. /\ fd[i] = "linked" /\ file = Blank
          /\ \A j \in Instance \ {i} : fd[j] = "none" /\ ~ granted[j]
      BY <2>1, <2>4 DEF TypeOK, ExclusionInv, GrantIsAlone, WriterIsAlone,
         ReadStaysTrue
    <3>2. \A j \in Instance : pc[j] # "restamp" /\ (pc[j] = "remove" => Forced(j))
      BY <2>1, <3>1, ContentAssumption DEF ExclusionInv, GrantIsAlone,
         WriterIsAlone, ReadStaysTrue, Mine
    <3>3. file' \in Line /\ file'.owner = Identity[i]
      BY <2>4, OverlayIsLine DEF TypeOK
    <3>4. GrantIsAlone' /\ WriterIsAlone'
      BY <2>1, <2>4, <3>1, <3>3, ContentAssumption DEF TypeOK, ExclusionInv,
         GrantIsAlone, WriterIsAlone, ReadStaysTrue
    <3>5. ReadStaysTrue'
      BY <2>1, <3>2 DEF TypeOK, ReadStaysTrue, Forced
    <3>6. QED
      BY <3>4, <3>5
  <2>5. CASE pc[i] = "restamp" /\ file' = Blank /\ fd' = [fd EXCEPT ![i] = "none"]
    <3>1. /\ Mine(i, file) /\ file # Blank
          /\ \A j \in Instance : fd[j] = "none"
      BY <2>1, <2>5, ContentAssumption DEF TypeOK, ExclusionInv, GrantIsAlone,
         WriterIsAlone, ReadStaysTrue, Mine
    <3>2. \A j \in Instance \ {i} : /\ ~ granted[j] /\ pc[j] # "restamp"
                                    /\ pc[j] = "remove" => Forced(j)
      BY <2>1, <3>1 DEF ExclusionInv, GrantIsAlone, WriterIsAlone,
         ReadStaysTrue, Mine, Apart
    <3>3. GrantIsAlone' /\ WriterIsAlone'
      BY <2>1, <2>5, <3>1, <3>2, ContentAssumption DEF TypeOK, ExclusionInv,
         GrantIsAlone, WriterIsAlone, ReadStaysTrue
    <3>4. ReadStaysTrue'
      BY <2>1, <3>2 DEF TypeOK, ReadStaysTrue, Forced
    <3>5. QED
      BY <3>3, <3>4
  <2>6. CASE /\ pc[i] = "remove" /\ file # Absent /\ file' = Absent
             /\ Mine(i, file) /\ fd' = Unlinked(fd)
    <3>1. \A j \in Instance : /\ ~ granted[j] /\ fd[j] = "none" /\ pc[j] # "restamp"
                              /\ j # i /\ pc[j] = "remove" => Forced(j)
      BY <2>1, <2>6, ContentAssumption DEF TypeOK, ExclusionInv, GrantIsAlone,
         WriterIsAlone, ReadStaysTrue, Mine, Apart
    <3>2. \A j \in Instance : fd'[j] = "none"
      BY <2>6, <3>1 DEF Unlinked
    <3>6. \A j \in Instance : pc'[j] # "stamp"
      BY <2>1, <3>1 DEF TypeOK, ExclusionInv, WriterIsAlone
    <3>3. GrantIsAlone' /\ WriterIsAlone'
      BY <2>1, <3>1, <3>2, <3>6 DEF GrantIsAlone, WriterIsAlone
    <3>4. ReadStaysTrue'
      BY <2>1, <3>1 DEF TypeOK, ReadStaysTrue, Forced, Mine
    <3>5. QED
      BY <3>3, <3>4
  <2>7. CASE pc[i] = "remove" /\ file = Absent /\ file' = Absent /\ fd' = Unlinked(fd)
    <3>1. fd' = fd
      BY <2>1, <2>7, ContentAssumption DEF TypeOK, ExclusionInv, GrantIsAlone,
         WriterIsAlone, ReadStaysTrue, Unlinked
    <3>2. QED
      BY <2>1, <2>7, <3>1 DEF TypeOK, ExclusionInv, GrantIsAlone,
         WriterIsAlone, ReadStaysTrue, Mine, Forced
  <2>8. pc[i] = "stamp" => fd[i] = "linked"
    BY <2>1 DEF ExclusionInv, GrantIsAlone, WriterIsAlone, ReadStaysTrue
  <2>9. QED
    BY <1>12, <2>1, <2>2, <2>3, <2>4, <2>5, <2>6, <2>7, <2>8 DEF Fail, Effect
<1>13. ASSUME NEW w \in Process, Crash(w)
       PROVE  GrantIsAlone' /\ WriterIsAlone' /\ ReadStaysTrue'
  BY <1>13, OverlayIsLine DEF TypeOK, Apart, ExclusionInv, GrantIsAlone,
     WriterIsAlone, ReadStaysTrue, Mine, Unlocked, Forced, Crash, call
<1>14. CASE Tick
  BY <1>14 DEF ExclusionInv, GrantIsAlone, WriterIsAlone, ReadStaysTrue, Mine,
     Forced, Tick, call
<1>15. CASE UNCHANGED vars
  BY <1>15 DEF ExclusionInv, GrantIsAlone, WriterIsAlone, ReadStaysTrue, Mine,
     Forced, vars
<1>16. QED
  BY <1>1, <1>2, <1>3, <1>4, <1>5, <1>6, <1>7, <1>8, <1>9,
     <1>10, <1>11, <1>12, <1>13, <1>14, <1>15 DEF Next, Step

(* A caller that holds the host shares it with its own process only, until *)
(* a file is removed by somebody who does not own it: however creates,     *)
(* re-stamps, waits, reaps, failures and crashes interleave.               *)
THEOREM ExclusionCorrect == Apart => (Spec => []ExclusionUnlessSeized)
<1> SUFFICES ASSUME Apart PROVE Spec => []ExclusionUnlessSeized
  OBVIOUS
<1>1. Init => ExclusionInv
  BY DEF Init, ExclusionInv, GrantIsAlone, WriterIsAlone, ReadStaysTrue
<1>2. TypeOK /\ ExclusionInv /\ [Next]_vars => ExclusionInv'
  BY ExclusionStep
<1>3. ExclusionInv => ExclusionUnlessSeized
  BY DEF ExclusionInv, GrantIsAlone, ExclusionUnlessSeized, MutualExclusion
<1>4. QED
  BY <1>1, <1>2, <1>3, TypeCorrect, PTL DEF Spec

(* Where locks are neither reaped nor forced off, no file is ever seized.  *)
LEMMA UnforcedStep ==
  ASSUME NothingForced, TypeOK, ExclusionInv, UnforcedInv, [Next]_vars
  PROVE  UnforcedInv'
<1>1. ASSUME NEW i \in Instance, NEW k \in Comment, StartLock(i, k)
      PROVE  UnforcedInv'
  BY <1>1 DEF TypeOK, UnforcedInv, StartLock, Goto
<1>2. ASSUME NEW i \in Instance, NEW f \in BOOLEAN, StartUnlock(i, f)
      PROVE  UnforcedInv'
  BY <1>2 DEF TypeOK, UnforcedInv, NothingForced, StartUnlock, Goto
<1>3. ASSUME NEW i \in Instance, StartConnect(i)
      PROVE  UnforcedInv'
  BY <1>3 DEF TypeOK, UnforcedInv, StartConnect, Goto
<1>4. ASSUME NEW i \in Instance, Create(i) \/ Stamp(i) \/ Load(i) \/ Restamp(i)
      PROVE  UnforcedInv'
  BY <1>4 DEF TypeOK, UnforcedInv, Create, Stamp, Load, Restamp, Retry, Return,
              Continue, Goto
<1>5. ASSUME NEW i \in Instance, Age(i) \/ Poll(i)
      PROVE  UnforcedInv'
  BY <1>5 DEF TypeOK, UnforcedInv, NothingForced, Age, Poll, Stale, Retry,
              Return, Continue, Goto
<1>6. ASSUME NEW i \in Instance, Look(i)
      PROVE  UnforcedInv'
  BY <1>6 DEF TypeOK, UnforcedInv, Look, Released, Retry, Return, Continue,
     Goto
<1>7. ASSUME NEW i \in Instance, Remove(i)
      PROVE  UnforcedInv'
  <2>1. Mine(i, file)
    BY <1>7 DEF Remove, UnforcedInv, ExclusionInv, ReadStaysTrue, Forced
  <2>2. QED
    BY <1>7, <2>1 DEF TypeOK, UnforcedInv, Remove, Released, Retry, Return,
       Goto
<1>8. ASSUME NEW i \in Instance, Fail(i)
      PROVE  UnforcedInv'
  <2>1. pc[i] = "remove" => Mine(i, file)
    BY <1>8 DEF UnforcedInv, ExclusionInv, ReadStaysTrue, Forced
  <2>2. QED
    BY <1>8, <2>1 DEF TypeOK, UnforcedInv, Fail, Return, Goto
<1>9. ASSUME NEW w \in Process, Crash(w)
      PROVE  UnforcedInv'
  BY <1>9 DEF TypeOK, UnforcedInv, Crash, call
<1>10. CASE Tick
  BY <1>10 DEF UnforcedInv, Tick, call
<1>11. CASE UNCHANGED vars
  BY <1>11 DEF UnforcedInv, vars
<1>12. QED
  BY <1>1, <1>2, <1>3, <1>4, <1>5, <1>6, <1>7, <1>8, <1>9, <1>10, <1>11
     DEF Next, Step

(* The three invariants together.                                          *)
LEMMA Unforced ==
  ASSUME Apart, NothingForced
  PROVE  Spec => [](TypeOK /\ ExclusionInv /\ UnforcedInv)
<1>1. Init => ExclusionInv /\ UnforcedInv
  BY DEF Init, ExclusionInv, GrantIsAlone, WriterIsAlone, ReadStaysTrue,
     UnforcedInv
<1>2. TypeOK /\ ExclusionInv /\ [Next]_vars => ExclusionInv'
  BY ExclusionStep
<1>3. TypeOK /\ ExclusionInv /\ UnforcedInv /\ [Next]_vars => UnforcedInv'
  BY UnforcedStep
<1>4. QED
  BY <1>1, <1>2, <1>3, TypeCorrect, PTL DEF Spec

(* With reaping off and no `unlock -f`, two processes never both hold the  *)
(* lock of a host.                                                         *)
THEOREM MutualExclusionCorrect ==
  Apart /\ NothingForced => (Spec => []MutualExclusion)
<1> SUFFICES ASSUME Apart, NothingForced PROVE Spec => []MutualExclusion
  OBVIOUS
<1>1. ExclusionInv /\ UnforcedInv => MutualExclusion
  BY DEF ExclusionInv, UnforcedInv, GrantIsAlone, MutualExclusion
<1>2. QED
  BY <1>1, Unforced, PTL

(* One step of the protocol is a step of the mutex, or leaves it alone.    *)
LEMMA MutexStep ==
  ASSUME TypeOK, ExclusionInv, UnforcedInv, [Next]_vars
  PROVE  [Mutex!Next]_Holders
<1>1. ASSUME NEW i \in Instance, Stamp(i)
      PROVE  Mutex!Grant(i)
  <2>1. \A j \in Instance \ {i} : ~ granted[j]
    BY <1>1 DEF Stamp, TypeOK, UnforcedInv, ExclusionInv, GrantIsAlone,
       WriterIsAlone
  <2>2. granted' = [granted EXCEPT ![i] = TRUE]
    BY <1>1 DEF Stamp
  <2>3. Holders' = Holders \cup {i}
    BY <2>2 DEF TypeOK, Holders
  <2>4. QED
    BY <2>1, <2>3 DEF Mutex!Grant, Holders
<1>2. ASSUME NEW i \in Instance, NEW f \in BOOLEAN, StartUnlock(i, f)
      PROVE  Mutex!Release(i) \/ UNCHANGED Holders
  <2>1. granted' = [granted EXCEPT ![i] = FALSE]
    BY <1>2 DEF StartUnlock
  <2>2. Holders' = Holders \ {i}
    BY <2>1 DEF TypeOK, Holders
  <2>3. QED
    BY <2>2 DEF Mutex!Release
<1>3. ASSUME NEW w \in Process, Crash(w)
      PROVE  [Mutex!Next]_Holders
  <2>1. PICK i \in Instance : Identity[i] = w
    BY <1>3 DEF Crash
  <2>2. Holders' = {k \in Holders : Identity[k] # Identity[i]}
    BY <1>3, <2>1 DEF Crash, Holders
  <2>3. QED
    BY <2>1, <2>2 DEF Mutex!Next, Mutex!Perish
<1>4. ASSUME NEW i \in Instance, NEW k \in Comment,
             \/ StartLock(i, k) \/ StartConnect(i) \/ Create(i) \/ Load(i)
             \/ Restamp(i) \/ Age(i) \/ Poll(i) \/ Look(i) \/ Remove(i) \/ Fail(i)
      PROVE  UNCHANGED Holders
  BY <1>4 DEF StartLock, StartConnect, Create, Load, Restamp, Age, Poll, Look,
              Remove, Fail, Holders
<1>5. CASE Tick \/ UNCHANGED vars
  BY <1>5 DEF Tick, vars, Holders
<1>6. QED
  BY <1>1, <1>2, <1>3, <1>4, <1>5, ConstantsAssumption DEF Next, Step,
     Mutex!Next

(* The lockfile protocol implements the mutex of one host.                 *)
THEOREM MutexImplemented ==
  Apart /\ NothingForced => (Spec => ImplementsMutex)
<1> SUFFICES ASSUME Apart, NothingForced PROVE Spec => ImplementsMutex
  OBVIOUS
<1>1. Init => Mutex!Init
  BY DEF Init, Mutex!Init, Holders
<1>2. TypeOK /\ ExclusionInv /\ UnforcedInv /\ [Next]_vars => [Mutex!Next]_Holders
  BY MutexStep
<1>3. QED
  BY <1>1, <1>2, Unforced, PTL DEF Spec, ImplementsMutex, Mutex!Spec

(* One step leaves the line of a granted caller on the host, with the      *)
(* comment it stamped last, unless the caller is writing it anew.          *)
LEMMA StampedStep ==
  ASSUME Apart, TypeOK, ExclusionInv, GrantIsStamped, [Next]_vars
  PROVE  GrantIsStamped'
<1> SUFFICES ASSUME ~ seized', faults' = 0,
                    NEW i \in Instance, granted'[i], pc'[i] # "stamp"
             PROVE  file' \in Line /\ file'.comment = held'[i]
  BY DEF GrantIsStamped
<1>1. ASSUME NEW j \in Instance, Stamp(j)
      PROVE  file' \in Line /\ file'.comment = held'[i]
  <2>1. /\ fd[j] = "linked" /\ file = Blank
        /\ \A k \in Instance \ {j} : ~ granted[k]
    BY <1>1 DEF Stamp, TypeOK, ExclusionInv, GrantIsAlone, WriterIsAlone
  <2>2. i = j
    BY <1>1, <2>1 DEF Stamp, TypeOK
  <2>3. file' = line[j]
    BY <1>1, <2>1, ContentAssumption DEF Stamp, Effect, Overlay
  <2>4. QED
    BY <1>1, <2>2, <2>3 DEF Stamp, TypeOK
<1>2. ASSUME ~ seized, faults = 0, granted[i], pc[i] # "stamp", held'[i] = held[i], file' = file
      PROVE  file' \in Line /\ file'.comment = held'[i]
  BY <1>2 DEF GrantIsStamped
<1>3. ASSUME NEW j \in Instance, NEW k \in Comment, StartLock(j, k)
      PROVE  file' \in Line /\ file'.comment = held'[i]
  BY <1>2, <1>3 DEF StartLock, Goto, TypeOK
<1>4. ASSUME NEW j \in Instance, NEW f \in BOOLEAN, StartUnlock(j, f)
      PROVE  file' \in Line /\ file'.comment = held'[i]
  BY <1>2, <1>4 DEF StartUnlock, Goto, TypeOK
<1>5. ASSUME NEW j \in Instance, StartConnect(j) \/ Load(j) \/ Age(j) \/ Poll(j)
      PROVE  file' \in Line /\ file'.comment = held'[i]
  <2>1. pc[i] # "stamp"
    BY <1>5 DEF StartConnect, Load, Age, Poll, Continue, Retry, Return, Goto,
       TypeOK
  <2>2. QED
    BY <1>2, <1>5, <2>1 DEF StartConnect, Load, Age, Poll
<1>6. ASSUME NEW j \in Instance, Create(j)
      PROVE  file' \in Line /\ file'.comment = held'[i]
  <2>1. file # Absent
    BY <1>6 DEF Create, ExclusionInv, GrantIsAlone
  <2>2. pc[i] # "stamp"
    BY <1>6, <2>1 DEF Create, Continue, Goto, TypeOK
  <2>3. QED
    BY <1>2, <1>6, <2>1, <2>2 DEF Create, Effect
<1>7. ASSUME NEW j \in Instance, Restamp(j)
      PROVE  file' \in Line /\ file'.comment = held'[i]
  <2>1. Mine(j, file) /\ i # j
    BY <1>7 DEF Restamp, Continue, Goto, TypeOK, ExclusionInv, ReadStaysTrue
  <2>2. QED
    BY <1>7, <2>1 DEF Restamp, ExclusionInv, GrantIsAlone, Mine, Apart
<1>8. ASSUME NEW j \in Instance, Look(j)
      PROVE  file' \in Line /\ file'.comment = held'[i]
  <2>1. i # j
    BY <1>8 DEF Look, ExclusionInv, GrantIsAlone
  <2>2. pc[i] # "stamp" /\ held'[i] = held[i]
    BY <1>8, <2>1 DEF Look, Released, Retry, Return, Continue, Goto, TypeOK
  <2>3. QED
    BY <1>2, <1>8, <2>2 DEF Look
<1>9. ASSUME NEW j \in Instance, Remove(j)
      PROVE  file' \in Line /\ file'.comment = held'[i]
  <2>1. i # j /\ file # Absent
    BY <1>9 DEF Remove, ExclusionInv, GrantIsAlone
  <2>2. Mine(j, file)
    BY <1>9, <2>1 DEF Remove
  <2>3. QED
    BY <1>9, <2>1, <2>2 DEF Remove, ExclusionInv, GrantIsAlone, Mine, Apart
<1>10. ASSUME NEW j \in Instance, Fail(j)
       PROVE  file' \in Line /\ file'.comment = held'[i]
  BY <1>10 DEF Fail, TypeOK
<1>11. ASSUME NEW w \in Process, Crash(w)
       PROVE  file' \in Line /\ file'.comment = held'[i]
  BY <1>2, <1>11 DEF Crash, TypeOK
<1>12. CASE Tick \/ UNCHANGED vars
  BY <1>2, <1>12 DEF Tick, vars
<1>13. QED
  BY <1>1, <1>3, <1>4, <1>5, <1>6, <1>7, <1>8, <1>9, <1>10, <1>11, <1>12
     DEF Next, Step

(* A lock the caller relies on is on the host for all to see, with the     *)
(* comment the field `held` records, until a file is seized or a call      *)
(* fails: however the calls of the other processes interleave.             *)
THEOREM GrantedIsVisibleCorrect == Apart => (Spec => []GrantedIsVisible)
<1> SUFFICES ASSUME Apart PROVE Spec => []GrantedIsVisible
  OBVIOUS
<1>1. Init => ExclusionInv /\ GrantIsStamped
  BY DEF Init, ExclusionInv, GrantIsAlone, WriterIsAlone, ReadStaysTrue,
     GrantIsStamped
<1>2. TypeOK /\ ExclusionInv /\ [Next]_vars => ExclusionInv'
  BY ExclusionStep
<1>3. TypeOK /\ ExclusionInv /\ GrantIsStamped /\ [Next]_vars => GrantIsStamped'
  BY StampedStep
<1>4. ExclusionInv /\ GrantIsStamped => GrantedIsVisible
  BY DEF ExclusionInv, GrantIsAlone, GrantIsStamped, GrantedIsVisible, Mine
<1>5. QED
  BY <1>1, <1>2, <1>3, <1>4, TypeCorrect, PTL DEF Spec

(* With reaping off and no `unlock -f`, the truncating open of a re-stamp  *)
(* never hits a line of another process: what the load read as its own is  *)
(* still its own when the open arrives.                                    *)
THEOREM NoBlindOverwriteCorrect ==
  Apart /\ NothingForced => (Spec => NoBlindOverwrite)
<1> SUFFICES ASSUME Apart, NothingForced PROVE Spec => NoBlindOverwrite
  OBVIOUS
<1>1. ExclusionInv /\ UnforcedInv =>
        [\A i \in Instance : /\ pc[i] = "restamp" /\ pc'[i] = "stamp"
                             /\ file \in Line
           => Mine(i, file)]_vars
  BY DEF ExclusionInv, UnforcedInv, ReadStaysTrue
<1>2. QED
  BY <1>1, Unforced, PTL DEF NoBlindOverwrite
=============================================================================
