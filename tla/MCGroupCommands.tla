--------------------------- MODULE MCGroupCommands ---------------------------
EXTENDS GroupCommands
CONSTANTS t, n, p1, p2

\* The report knows a required version for all packages of one host only.
MCRequired == [h \in Hosts |-> IF h = t THEN {p1, p2} ELSE {p1}]

\* The options with the most steps: prepare goes package by package, update
\* runs all its bodies.
MCOptions == {{"newpackage", "installedOnly", "testing"}}
===============================================================================
