---------------------------- MODULE SessionSlots ----------------------------
(***************************************************************************)
(* What the relay promises about the two slots of a session, whatever the  *)
(* handlers, the reaper and the clients do at the same time:               *)
(*                                                                         *)
(*   - a connection occupies at most one slot, once in its life;           *)
(*   - it enters only a slot nobody occupies: "a live connection can't be  *)
(*     hijacked by a reconnect attempt" (docs/PROTOCOL.md);                *)
(*   - the guest slot opens only after a host has created the session;     *)
(*   - a slot is vacated by its own occupant only, never on its behalf.    *)
(***************************************************************************)
CONSTANTS Conns, Sessions, Nil

VARIABLES
    occupant,   \* occupant[s][r]: the connection in slot r of s, or Nil
    opened,     \* sessions that have been created
    life        \* life[c]: "new", "in" (a slot), "out"

slotVars == <<occupant, opened, life>>

Slots == {"host", "guest"}

SlotInit ==
    /\ occupant = [s \in Sessions |-> [r \in Slots |-> Nil]]
    /\ opened = {}
    /\ life = [c \in Conns |-> "new"]

Occupy(c, s, r) ==
    /\ life[c] = "new"
    /\ occupant[s][r] = Nil
    /\ occupant' = [occupant EXCEPT ![s][r] = c]
    /\ life' = [life EXCEPT ![c] = "in"]

(* A host creates a session.                                               *)
Create(c, s) ==
    /\ s \notin opened
    /\ opened' = opened \cup {s}
    /\ Occupy(c, s, "host")

(* A guest joins, or either peer resumes, a session that exists.           *)
Enter(c, s, r) ==
    /\ s \in opened
    /\ Occupy(c, s, r)
    /\ UNCHANGED opened

(* The occupant's connection is gone; the slot waits for a reconnect.      *)
Vacate(c, s, r) ==
    /\ occupant[s][r] = c
    /\ occupant' = [occupant EXCEPT ![s][r] = Nil]
    /\ life' = [life EXCEPT ![c] = "out"]
    /\ UNCHANGED opened

(* A connection is turned away without ever getting a slot.                *)
TurnAway(c) ==
    /\ life[c] = "new"
    /\ life' = [life EXCEPT ![c] = "out"]
    /\ UNCHANGED <<occupant, opened>>

SlotNext ==
    \E c \in Conns :
        \/ TurnAway(c)
        \/ \E s \in Sessions :
              \/ Create(c, s)
              \/ \E r \in Slots : Enter(c, s, r) \/ Vacate(c, s, r)

SlotSpec == SlotInit /\ [][SlotNext]_slotVars
=============================================================================
