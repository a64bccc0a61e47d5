--------------------------- MODULE ReadersWriters ---------------------------
(***************************************************************************)
(* What the gate promises its callers: any number of readers or one        *)
(* writer, and no reader enters past a writer that has queued.             *)
(***************************************************************************)
CONSTANT Task

VARIABLES reading, writing, queued

vars == <<reading, writing, queued>>

Init == reading = {} /\ writing = {} /\ queued = {}

Away(t) == t \notin reading \cup writing \cup queued

Queue(t) ==
  /\ Away(t)
  /\ queued' = queued \cup {t}
  /\ UNCHANGED <<reading, writing>>

Withdraw(t) ==
  /\ t \in queued
  /\ queued' = queued \ {t}
  /\ UNCHANGED <<reading, writing>>

Read(t) ==
  /\ Away(t) /\ queued = {} /\ writing = {}
  /\ reading' = reading \cup {t}
  /\ UNCHANGED <<writing, queued>>

Write(t) ==
  /\ t \in queued /\ reading = {} /\ writing = {}
  /\ writing' = {t}
  /\ queued' = queued \ {t}
  /\ UNCHANGED reading

Leave(t) ==
  /\ t \in reading \cup writing
  /\ reading' = reading \ {t}
  /\ writing' = writing \ {t}
  /\ UNCHANGED queued

Next == \E t \in Task : Queue(t) \/ Withdraw(t) \/ Read(t) \/ Write(t) \/ Leave(t)

Spec == Init /\ [][Next]_vars
=============================================================================
