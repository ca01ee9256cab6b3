---------------------------- MODULE MCRegulator -----------------------------
EXTENDS Regulator

CONSTANTS commit, serialA, serialB, operator

\* Two serial numbers that end in the same eight characters.
MCSuffixOf == [s \in Subjects |-> IF s \in Serials THEN "SN-00001" ELSE "other"]
=============================================================================
