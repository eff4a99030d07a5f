----------------------------- MODULE MCRelayHub -----------------------------
(* Instances of RelayHub for TLC: who connects from where.                 *)
EXTENDS RelayHub, TLC

CONSTANTS c1, c2, c3, i1, i2

(* All connections behind one address.                                     *)
OneAddress == [c \in Conns |-> i1]

(* The first connection at home, the others behind a second address.       *)
TwoAddresses == [c \in Conns |-> IF c = c1 THEN i1 ELSE i2]

(* Connections from one address are interchangeable, and so are IDs.       *)
AllConns == Permutations(Conns) \cup Permutations(Sessions)
=============================================================================
