--------------------------- MODULE MCPoolSelection ---------------------------
(* Two templates that want one host for each of two slots.                 *)
EXTENDS PoolSelection

CONSTANTS r1, r2, u1, u2, s1, s2, h1, h2, h3

MCRridOf == [r \in Report |-> IF r = r1 THEN u1 ELSE u2]
MCDisjoint == [s \in Slot |-> IF s = s1 THEN {h1, h2} ELSE {h3}]
MCNested == [s \in Slot |-> IF s = s1 THEN {h1, h2} ELSE {h2}]
MCNoRefHosts == [r \in Report |-> {}]
MCRefHosts == [r \in Report |-> IF r = r1 THEN {h1} ELSE {}]
=============================================================================
