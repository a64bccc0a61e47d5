---------------------------- MODULE MCTargetLock ----------------------------
(* Small instances of TargetLock.                                          *)
EXTENDS TargetLock

CONSTANTS a, b, c, p, q, r, Reserved

(* Each instance in a process of its own.                                  *)
MCApart == [i \in Instance |-> CASE i = a -> p [] i = b -> q [] OTHER -> r]

(* What a host may carry when the run starts: nothing, the old line of a   *)
(* dead process, the trace of one that died inside lock(), noise.          *)
MCOrphan == [owner |-> r, stamp |-> 0, comment |-> Unmarked]
MCClean  == {Absent}
MCUsed   == {Absent, MCOrphan}
MCDirty  == {Absent, Blank, Garbled}
=============================================================================
