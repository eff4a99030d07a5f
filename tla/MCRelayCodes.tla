---------------------------- MODULE MCRelayCodes ----------------------------
(* Instances of RelayCodes for TLC.                                        *)
EXTENDS RelayCodes, TLC

CONSTANTS i1

(* All connections behind one address, the worst case for its budget.      *)
OneAddress == [c \in Conns |-> i1]

(* Then connections are interchangeable, and so are session IDs.           *)
Symmetry == Permutations(Conns) \cup Permutations(Sessions)
=============================================================================
