-------------------------- MODULE RelayRefinement ---------------------------
(***************************************************************************)
(* The relay implements SessionSlots, for any number of connections and    *)
(* sessions: every step of RelayHub creates, enters or vacates one slot,   *)
(* turns one connection away, or leaves the slots as they are.             *)
(***************************************************************************)
EXTENDS RelayHubProofs

(* A session was created, with a host, before anybody finds it: in the     *)
(* registry, or through a lookup that is not attached yet.                 *)
HostFirst ==
    /\ \A s \in sessions : peers[s][RoleHost].conn # Nil
    /\ \A c \in Conns : handler[c].pc \in Joining =>
          peers[handler[c].sess][RoleHost].conn # Nil

(* A connection's life, as lifeOf maps it, by where its handler is.         *)
LifeAt(pc) ==
    IF pc \in {"first"} \cup Joining THEN "new"
    ELSE IF pc \in Attached \cup {"ended"} THEN "in" ELSE "out"

(* Nobody enters or leaves a slot.                                         *)
SameSlots ==
    \A s \in Sessions, r \in Roles :
        /\ peers'[s][r].conn = peers[s][r].conn
        /\ peers'[s][r].disconnectedAt = peers[s][r].disconnectedAt

(* A step of SessionSlots, or a stutter.                                   *)
SlotStep == Abstract!SlotNext \/ UNCHANGED Abstract!slotVars

-----------------------------------------------------------------------------
(* The kinds of step, seen through the refinement mapping.                 *)

(* A handler's move changes its own connection's life only.                *)
LEMMA LifeMoves ==
    ASSUME NEW c \in Conns, NEW h \in HandlerRecord, TypeOK, become(c, h)
    PROVE  /\ \A d \in Conns : lifeOf(d) = LifeAt(handler[d].pc)
           /\ \A d \in Conns :
                 lifeOf(d)' = IF d = c THEN LifeAt(h.pc) ELSE lifeOf(d)
<1>1. \A d \in Conns : handler'[d] = IF d = c THEN h ELSE handler[d]
  BY DEF become, TypeOK
<1> QED BY <1>1 DEF lifeOf, LifeAt

(* SameSlots leaves the abstract slots as they are.                        *)
LEMMA SlotsStay ==
    ASSUME SameSlots
    PROVE  /\ \A s \in Sessions, r \in Roles : connOf(s, r)' = connOf(s, r)
           /\ UNCHANGED [s \in Sessions |-> [r \in Roles |-> connOf(s, r)]]
           /\ UNCHANGED {s \in Sessions : peers[s][RoleHost].conn # Nil}
<1>1. \A s \in Sessions, r \in Roles : connOf(s, r)' = connOf(s, r)
  BY DEF SameSlots, connOf, connected
<1>2. \A s \in Sessions : peers'[s][RoleHost].conn = peers[s][RoleHost].conn
  BY DEF SameSlots, Roles
<1> QED BY <1>1, <1>2

(* A move from one place to another of the same life is a stutter.         *)
LEMMA StutterMove ==
    ASSUME NEW c \in Conns, NEW h \in HandlerRecord, TypeOK, become(c, h),
           SameSlots, LifeAt(h.pc) = LifeAt(handler[c].pc)
    PROVE  SlotStep
<1>1. \A d \in Conns : lifeOf(d)' = lifeOf(d)
  BY LifeMoves
<1>2. UNCHANGED [d \in Conns |-> lifeOf(d)]
  BY <1>1
<1> QED BY <1>2, SlotsStay DEF SlotStep, Abstract!slotVars

(* Steps of the reaper, of the clock and of messages.                      *)
LEMMA StutterIdle ==
    ASSUME SameSlots, UNCHANGED handler
    PROVE  SlotStep
<1>1. \A d \in Conns : lifeOf(d)' = lifeOf(d)
  BY DEF lifeOf
<1>2. UNCHANGED [d \in Conns |-> lifeOf(d)]
  BY <1>1
<1> QED BY <1>2, SlotsStay DEF SlotStep, Abstract!slotVars

(* A connection that gives up without a slot is turned away.               *)
LEMMA TurnAwayMove ==
    ASSUME NEW c \in Conns, NEW h \in HandlerRecord, TypeOK, become(c, h),
           SameSlots, LifeAt(handler[c].pc) = "new", LifeAt(h.pc) = "out"
    PROVE  SlotStep
<1>1. [d \in Conns |-> lifeOf(d)]' = [[d \in Conns |-> lifeOf(d)]
                                        EXCEPT ![c] = "out"]
  BY LifeMoves
<1>2. Abstract!TurnAway(c)
  BY <1>1, LifeMoves, SlotsStay DEF Abstract!TurnAway
<1> QED BY <1>2 DEF SlotStep, Abstract!SlotNext

(* A peer record that changes changes one abstract slot.                   *)
LEMMA OneSlot ==
    ASSUME NEW s \in Sessions, NEW r \in Roles, NEW p \in PeerRecord,
           TypeOK, setPeer(s, r, p)
    PROVE  LET o == IF connected(p) THEN p.conn ELSE Nil IN
           [t \in Sessions |-> [q \in Roles |-> connOf(t, q)]]'
             = [[t \in Sessions |-> [q \in Roles |-> connOf(t, q)]]
                  EXCEPT ![s][r] = o]
<1> DEFINE o == IF connected(p) THEN p.conn ELSE Nil
<1>1. \A t \in Sessions, q \in Roles :
         peers'[t][q] = IF t = s /\ q = r THEN p ELSE peers[t][q]
  BY DEF setPeer, TypeOK
<1>2. \A t \in Sessions, q \in Roles :
         connOf(t, q)' = IF t = s /\ q = r THEN o ELSE connOf(t, q)
  BY <1>1 DEF connOf, connected
<1> HIDE DEF o
<1>3. [t \in Sessions |-> [q \in Roles |-> connOf(t, q)]]'
        = [[t \in Sessions |-> [q \in Roles |-> connOf(t, q)]]
             EXCEPT ![s][r] = o]
  BY <1>2
<1> QED BY <1>3 DEF o

(* A connection without a slot takes one nobody is connected in.           *)
LEMMA OccupyMove ==
    ASSUME NEW c \in Conns, NEW h \in HandlerRecord, NEW s \in Sessions,
           NEW r \in Roles, NEW p \in PeerRecord, TypeOK,
           become(c, h), setPeer(s, r, p), ~connected(peers[s][r]),
           LifeAt(handler[c].pc) = "new", LifeAt(h.pc) = "in",
           p.conn = c, p.disconnectedAt = Zero
    PROVE  Abstract!Occupy(c, s, r)
<1>1. [d \in Conns |-> lifeOf(d)]' = [[d \in Conns |-> lifeOf(d)]
                                        EXCEPT ![c] = "in"]
  BY LifeMoves
<1>2. connected(p) /\ connOf(s, r) = Nil
  BY ValuesAssumption DEF connected, connOf
<1>3. [t \in Sessions |-> [q \in Roles |-> connOf(t, q)]]'
        = [[t \in Sessions |-> [q \in Roles |-> connOf(t, q)]]
             EXCEPT ![s][r] = c]
  BY <1>2, OneSlot
<1> QED BY <1>1, <1>2, <1>3, LifeMoves DEF Abstract!Occupy

(* The host's slot of a session that has none is taken.                    *)
LEMMA CreateMove ==
    ASSUME NEW c \in Conns, NEW s \in Sessions, NEW p \in PeerRecord, TypeOK,
           setPeer(s, RoleHost, p), p.conn = c, peers[s][RoleHost].conn = Nil,
           Abstract!Occupy(c, s, "host")
    PROVE  SlotStep
<1>1. \A t \in Sessions :
         peers'[t][RoleHost] = IF t = s THEN p ELSE peers[t][RoleHost]
  BY DEF setPeer, TypeOK, Roles
<1>2. {t \in Sessions : peers[t][RoleHost].conn # Nil}'
        = {t \in Sessions : peers[t][RoleHost].conn # Nil} \cup {s}
  BY <1>1, ValuesAssumption
<1>3. Abstract!Create(c, s)
  BY <1>2 DEF Abstract!Create
<1> QED BY <1>3 DEF SlotStep, Abstract!SlotNext

(* A slot of a session that has a host is taken.                           *)
LEMMA EnterMove ==
    ASSUME NEW c \in Conns, NEW s \in Sessions, NEW r \in Roles,
           NEW p \in PeerRecord, TypeOK, setPeer(s, r, p), p.conn = c,
           peers[s][RoleHost].conn # Nil, Abstract!Occupy(c, s, r)
    PROVE  SlotStep
<1>1. \A t \in Sessions, q \in Roles :
         peers'[t][q] = IF t = s /\ q = r THEN p ELSE peers[t][q]
  BY DEF setPeer, TypeOK
<1>2. UNCHANGED {t \in Sessions : peers[t][RoleHost].conn # Nil}
  BY <1>1, ValuesAssumption DEF Roles
<1>3. Abstract!Enter(c, s, r)
  BY <1>2 DEF Abstract!Enter
<1> QED BY <1>3 DEF SlotStep, Abstract!SlotNext, Abstract!Slots, Roles,
                    RoleHost, RoleGuest

(* A connected peer is marked down while its own handler leaves.           *)
LEMMA VacateMove ==
    ASSUME NEW c \in Conns, NEW h \in HandlerRecord, NEW s \in Sessions,
           NEW r \in Roles, NEW p \in PeerRecord, TypeOK,
           become(c, h), setPeer(s, r, p), connOf(s, r) = c,
           LifeAt(h.pc) = "out", p.conn = c, ~connected(p)
    PROVE  SlotStep
<1>1. [d \in Conns |-> lifeOf(d)]' = [[d \in Conns |-> lifeOf(d)]
                                        EXCEPT ![c] = "out"]
  BY LifeMoves
<1>2. [t \in Sessions |-> [q \in Roles |-> connOf(t, q)]]'
        = [[t \in Sessions |-> [q \in Roles |-> connOf(t, q)]]
             EXCEPT ![s][r] = Nil]
  BY OneSlot
<1>3. \A t \in Sessions, q \in Roles :
         peers'[t][q].conn = peers[t][q].conn
  BY ValuesAssumption DEF setPeer, TypeOK, connOf
<1>4. UNCHANGED {t \in Sessions : peers[t][RoleHost].conn # Nil}
  BY <1>3 DEF Roles
<1>5. Abstract!Vacate(c, s, r)
  BY <1>1, <1>2, <1>4 DEF Abstract!Vacate
<1> QED BY <1>5 DEF SlotStep, Abstract!SlotNext, Abstract!Slots, Roles,
                    RoleHost, RoleGuest

-----------------------------------------------------------------------------
(* HostFirst is kept: no host is forgotten, nothing is found that was not. *)

(* A session that has had a host keeps it on record.                       *)
HostsStay ==
    \A s \in Sessions :
        peers[s][RoleHost].conn # Nil => peers'[s][RoleHost].conn # Nil

(* No step takes a peer off the record: slots are kept or filled.          *)
LEMMA HostsStayIf ==
    ASSUME TypeOK,
           \/ SameSlots
           \/ \E s \in Sessions, r \in Roles, p \in PeerRecord :
                 setPeer(s, r, p) /\ p.conn \in Conns
    PROVE  HostsStay
<1>1. CASE SameSlots
  BY <1>1 DEF SameSlots, HostsStay, Roles
<1>2. ASSUME NEW s \in Sessions, NEW r \in Roles, NEW p \in PeerRecord,
             setPeer(s, r, p), p.conn \in Conns
      PROVE  HostsStay
  <2>1. \A t \in Sessions, q \in Roles :
           peers'[t][q] = IF t = s /\ q = r THEN p ELSE peers[t][q]
    BY <1>2 DEF setPeer, TypeOK
  <2> QED BY <1>2, <2>1, ValuesAssumption DEF HostsStay, Roles
<1> QED BY <1>1, <1>2

(* A handler that starts to join has found its session.                    *)
LEMMA HostFirstMove ==
    ASSUME NEW c \in Conns, NEW h \in HandlerRecord, TypeOK, Placed,
           HostFirst, become(c, h), HostsStay,
           \A s \in sessions' : s \in sessions
                                \/ peers'[s][RoleHost].conn # Nil,
           h.pc \in Joining => \/ h.sess \in sessions
                               \/ /\ handler[c].pc \in Joining
                                  /\ h.sess = handler[c].sess
    PROVE  HostFirst'
<1>1. \A d \in Conns : handler'[d] = IF d = c THEN h ELSE handler[d]
  BY DEF become, TypeOK
<1>2. \A d \in Conns : handler[d].pc \in Joining =>
         handler[d].sess \in Sessions
  BY DEF Placed, WellPlaced
<1>3. \A s \in sessions : s \in Sessions /\ peers'[s][RoleHost].conn # Nil
  BY DEF HostFirst, HostsStay, TypeOK
<1>4. ASSUME NEW d \in Conns, handler'[d].pc \in Joining
      PROVE  peers'[handler'[d].sess][RoleHost].conn # Nil
  <2>1. CASE d = c
    BY <1>1, <1>2, <1>3, <1>4, <2>1 DEF HostFirst, HostsStay
  <2>2. CASE d # c
    BY <1>1, <1>2, <1>4, <2>2 DEF HostFirst, HostsStay
  <2> QED BY <2>1, <2>2
<1> QED BY <1>3, <1>4 DEF HostFirst

(* Nothing new is found by a step that moves no handler.                   *)
LEMMA HostFirstIdle ==
    ASSUME TypeOK, Placed, HostFirst, HostsStay, UNCHANGED handler,
           sessions' \subseteq sessions
    PROVE  HostFirst'
<1>1. \A d \in Conns : handler[d].pc \in Joining =>
         handler[d].sess \in Sessions
  BY DEF Placed, WellPlaced
<1> QED BY <1>1 DEF HostFirst, HostsStay, TypeOK

-----------------------------------------------------------------------------
(* Every action is a step of SessionSlots or a stutter.                    *)

(* What every step is shown to do.                                         *)
Simulated == SlotStep /\ HostFirst'

(* No handler moves and no slot changes hands.                             *)
LEMMA IdleSim ==
    ASSUME Inv, HostFirst, UNCHANGED handler, SameSlots,
           sessions' \subseteq sessions
    PROVE  Simulated
<1>1. TypeOK /\ Placed
  BY InvHeld DEF Held
<1> QED BY <1>1, StutterIdle, HostsStayIf, HostFirstIdle DEF Simulated

(* A handler moves on, with or without a slot.                             *)
LEMMA QuietSim ==
    ASSUME Inv, HostFirst, NEW c \in Conns, NEW h \in HandlerRecord,
           become(c, h), UNCHANGED peers, sessions' \subseteq sessions,
           LifeAt(h.pc) = LifeAt(handler[c].pc),
           h.pc \in Joining => \/ h.sess \in sessions
                               \/ /\ handler[c].pc \in Joining
                                  /\ h.sess = handler[c].sess
    PROVE  Simulated
<1>1. TypeOK /\ Placed /\ SameSlots
  BY InvHeld DEF Held, SameSlots
<1>2. SlotStep
  BY <1>1, StutterMove
<1>3. HostsStay
  BY <1>1, HostsStayIf
<1>4. HostFirst'
  BY <1>1, <1>3, HostFirstMove
<1> QED BY <1>2, <1>4 DEF Simulated

(* goto, as QuietSim.                                                      *)
LEMMA GotoSim ==
    ASSUME Inv, HostFirst, NEW c \in Conns, NEW l \in PCs \ Joining,
           goto(c, l), UNCHANGED <<peers, sessions>>,
           LifeAt(l) = LifeAt(handler[c].pc)
    PROVE  Simulated
<1> DEFINE h == [handler[c] EXCEPT !.pc = l]
<1>1. handler[c] \in HandlerRecord
  BY InvHeld DEF Held
<1>2. h \in HandlerRecord /\ h.pc = l
  BY <1>1 DEF HandlerRecord
<1>3. become(c, h)
  BY DEF goto
<1> HIDE DEF h
<1> QED BY <1>2, <1>3, QuietSim

(* keepSlot, as QuietSim.                                                  *)
LEMMA KeepSlotSim ==
    ASSUME Inv, HostFirst, NEW c \in Conns, NEW l \in {"serving", "ended"},
           keepSlot(c, l), UNCHANGED peers, sessions' \subseteq sessions,
           handler[c].pc \in Attached
    PROVE  Simulated
<1> DEFINE h == [Fresh EXCEPT !.pc = l, !.sess = handler[c].sess,
                              !.role = handler[c].role]
<1>1. handler[c] \in HandlerRecord
  BY InvHeld DEF Held
<1>2. h \in HandlerRecord /\ h.pc = l
  BY <1>1 DEF HandlerRecord, Fresh, PCs, Attached
<1>3. become(c, h)
  BY DEF keepSlot
<1> HIDE DEF h
<1>4. h.pc \notin Joining /\ LifeAt(h.pc) = "in" /\ LifeAt(handler[c].pc) = "in"
  BY <1>2 DEF LifeAt, Joining, Attached, Ending
<1> QED BY <1>2, <1>3, <1>4, QuietSim

(* A handler without a slot stops.                                         *)
LEMMA GiveUpSim ==
    ASSUME Inv, HostFirst, NEW c \in Conns, finish(c, "rejected"),
           UNCHANGED <<peers, sessions>>,
           handler[c].pc \in {"first"} \cup Joining
    PROVE  Simulated
<1> DEFINE h == [Fresh EXCEPT !.pc = "rejected"]
<1>1. TypeOK /\ Placed /\ SameSlots
  BY InvHeld DEF Held, SameSlots
<1>2. h \in HandlerRecord /\ h.pc = "rejected"
  BY DEF HandlerRecord, Fresh, PCs, Roles
<1>3. become(c, h)
  BY DEF finish
<1> HIDE DEF h
<1>4. /\ LifeAt(handler[c].pc) = "new" /\ LifeAt(h.pc) = "out"
      /\ h.pc \notin Joining
  BY <1>2 DEF LifeAt, Joining, Attached, Ending
<1>5. SlotStep
  BY <1>1, <1>2, <1>3, <1>4, TurnAwayMove
<1>6. HostsStay
  BY <1>1, HostsStayIf
<1>7. HostFirst'
  BY <1>1, <1>2, <1>3, <1>4, <1>6, HostFirstMove
<1> QED BY <1>5, <1>7 DEF Simulated

(* Sessions begin.                                                         *)
LEMMA StartSim ==
    ASSUME Inv, HostFirst, NEW c \in Conns, NEW s \in unmade,
           startSession(c, s), handler[c].pc = "first"
    PROVE  Simulated
<1> DEFINE h == [Fresh EXCEPT !.pc = "serving", !.sess = s]
           p == [NoPeer EXCEPT !.conn = c]
<1>1. TypeOK /\ Placed
  BY InvHeld DEF Held
<1>2. /\ s \in Sessions /\ RoleHost \in Roles
      /\ peers[s][RoleHost].conn = Nil /\ ~connected(peers[s][RoleHost])
  BY DEF unmade, connected, Roles
<1>3. h \in HandlerRecord /\ h.pc = "serving"
  BY <1>2 DEF HandlerRecord, Fresh, PCs, Attached, Roles
<1>4. p \in PeerRecord /\ p.conn = c /\ p.disconnectedAt = Zero
  BY DEF PeerRecord, NoPeer
<1>5. become(c, h) /\ setPeer(s, RoleHost, p)
  BY DEF startSession, attach
<1> HIDE DEF h, p
<1>6. /\ LifeAt(handler[c].pc) = "new" /\ LifeAt(h.pc) = "in"
      /\ h.pc \notin Joining
  BY <1>3 DEF LifeAt, Joining, Attached, Ending
<1>7. Abstract!Occupy(c, s, RoleHost)
  BY <1>1, <1>2, <1>3, <1>4, <1>5, <1>6, OccupyMove
<1>8. SlotStep
  BY <1>1, <1>2, <1>4, <1>5, <1>7, CreateMove DEF RoleHost
<1>9. HostsStay
  BY <1>1, <1>2, <1>4, <1>5, HostsStayIf
<1>10. peers'[s][RoleHost].conn # Nil
  BY <1>1, <1>2, <1>4, <1>5, ValuesAssumption DEF setPeer, TypeOK
<1>11. \A t \in sessions' : t \in sessions \/ peers'[t][RoleHost].conn # Nil
  BY <1>10 DEF startSession
<1>12. HostFirst'
  BY <1>1, <1>3, <1>5, <1>6, <1>9, <1>11, HostFirstMove
<1> QED BY <1>8, <1>12 DEF Simulated

(* A joining handler takes a slot nobody is connected in.                  *)
LEMMA TakeSlotSim ==
    ASSUME Inv, HostFirst, NEW c \in Conns, NEW h \in HandlerRecord,
           NEW r \in Roles, NEW p \in PeerRecord, become(c, h),
           setPeer(handler[c].sess, r, p),
           ~connected(peers[handler[c].sess][r]),
           UNCHANGED sessions, handler[c].pc \in Joining,
           h.pc \in {"count", "recount"}, p.conn = c, p.disconnectedAt = Zero
    PROVE  Simulated
<1> DEFINE s == handler[c].sess
<1>1. TypeOK /\ Placed
  BY InvHeld DEF Held
<1>2. s \in Sessions /\ peers[s][RoleHost].conn # Nil
  BY <1>1 DEF Placed, WellPlaced, HostFirst
<1>3. setPeer(s, r, p) /\ ~connected(peers[s][r])
  OBVIOUS
<1> HIDE DEF s
<1>4. /\ LifeAt(handler[c].pc) = "new" /\ LifeAt(h.pc) = "in"
      /\ h.pc \notin Joining
  BY DEF LifeAt, Joining, Attached, Ending
<1>5. Abstract!Occupy(c, s, r)
  BY <1>1, <1>2, <1>3, <1>4, OccupyMove
<1>6. SlotStep
  BY <1>1, <1>2, <1>3, <1>5, EnterMove
<1>7. HostsStay
  BY <1>1, <1>2, <1>3, HostsStayIf
<1>8. HostFirst'
  BY <1>1, <1>4, <1>7, HostFirstMove
<1> QED BY <1>6, <1>8 DEF Simulated

(* First messages: create, or be turned away.                              *)
LEMMA CreateSim ==
    ASSUME Inv, HostFirst, NEW c \in Conns,
           CreateSession(c) \/ CreateCodeSession(c) \/ CreateRefused(c)
           \/ FirstMessageInvalid(c) \/ FirstReadFails(c)
    PROVE  Simulated
<1> USE DEF hubVars, sessVars, connVars
<1>1. CASE CreateSession(c) \/ CreateCodeSession(c)
  <2>1. handler[c].pc = "first" /\ \E s \in unmade : startSession(c, s)
    BY <1>1 DEF CreateSession, CreateCodeSession, firstMessage
  <2> QED BY <2>1, StartSim
<1>2. CASE CreateRefused(c) \/ FirstMessageInvalid(c) \/ FirstReadFails(c)
  <2>1. /\ handler[c].pc = "first" /\ finish(c, "rejected")
        /\ UNCHANGED <<peers, sessions>>
    BY <1>2 DEF CreateRefused, FirstMessageInvalid, FirstReadFails,
                firstMessage, reject
  <2> QED BY <2>1, GiveUpSim
<1> QED BY <1>1, <1>2

(* A handler starts a call on a session of the registry.                   *)
LEMMA LookupSim ==
    ASSUME Inv, HostFirst, NEW c \in Conns, NEW h \in HandlerRecord,
           become(c, h), UNCHANGED <<peers, sessions>>,
           handler[c].pc = "first", h.pc \in Joining, h.sess \in sessions
    PROVE  Simulated
<1>1. LifeAt(h.pc) = LifeAt(handler[c].pc)
  BY DEF LifeAt
<1> QED BY <1>1, QuietSim

(* Joins and reconnects, as far as the lookup.                             *)
LEMMA JoinSim ==
    ASSUME Inv, HostFirst, NEW c \in Conns,
           \/ \E s \in Sessions : JoinSession(c, s)
           \/ JoinByCodeBlocked(c)
           \/ \E k \in Codes : JoinByCode(c, k)
           \/ \E s \in Sessions, r \in Roles, t \in Tokens :
                 Reconnect(c, s, r, t)
    PROVE  Simulated
<1> USE DEF hubVars, sessVars, connVars
<1>1. handler[c].pc = "first" /\ UNCHANGED <<peers, sessions>>
  BY DEF JoinSession, JoinByCodeBlocked, JoinByCode, Reconnect, firstMessage
<1>2. CASE finish(c, "rejected")
  BY <1>1, <1>2, GiveUpSim
<1>3. ASSUME NEW s \in sessions, joinLookup(c, s) PROVE Simulated
  <2> DEFINE h == [Fresh EXCEPT !.pc = "findHost", !.sess = s,
                                !.role = RoleGuest]
  <2>1. s \in Sessions
    BY InvHeld DEF TypeOK
  <2>2. h \in HandlerRecord /\ h.pc \in Joining /\ h.sess = s
    BY <2>1 DEF HandlerRecord, Fresh, PCs, Joining, Roles
  <2>3. become(c, h)
    BY <1>3 DEF joinLookup
  <2> HIDE DEF h
  <2> QED BY <1>1, <2>2, <2>3, LookupSim
<1>4. ASSUME NEW s \in sessions, NEW r \in Roles, NEW t \in Tokens,
             become(c, [Fresh EXCEPT !.pc = "reattach", !.sess = s,
                                     !.role = r, !.token = t])
      PROVE  Simulated
  <2> DEFINE h == [Fresh EXCEPT !.pc = "reattach", !.sess = s,
                                !.role = r, !.token = t]
  <2>1. s \in Sessions
    BY InvHeld DEF TypeOK
  <2>2. h \in HandlerRecord /\ h.pc \in Joining /\ h.sess = s
    BY <2>1 DEF HandlerRecord, Fresh, PCs, Joining
  <2>3. become(c, h)
    BY <1>4
  <2> HIDE DEF h
  <2> QED BY <1>1, <2>2, <2>3, LookupSim
<1>5. CASE JoinByCodeBlocked(c)
  BY <1>2, <1>5 DEF JoinByCodeBlocked, reject
<1>6. ASSUME NEW s \in Sessions, JoinSession(c, s) PROVE Simulated
  BY <1>2, <1>3, <1>6 DEF JoinSession, reject
<1>7. ASSUME NEW k \in Codes, JoinByCode(c, k) PROVE Simulated
  BY <1>2, <1>3, <1>7 DEF JoinByCode, reject
<1>8. ASSUME NEW s \in Sessions, NEW r \in Roles, NEW t \in Tokens,
             Reconnect(c, s, r, t)
      PROVE  Simulated
  BY <1>2, <1>4, <1>8 DEF Reconnect, reject
<1> QED BY <1>5, <1>6, <1>7, <1>8

(* attachGuest and the rest of Reconnect.                                  *)
LEMMA AttachSim ==
    ASSUME Inv, HostFirst, NEW c \in Conns,
           AttachFindHost(c) \/ AttachGuest(c) \/ Reattach(c)
    PROVE  Simulated
<1> DEFINE s == handler[c].sess
           r == handler[c].role
<1>1. TypeOK /\ Held /\ handler[c] \in HandlerRecord /\ r \in Roles
  BY InvHeld DEF Held, HandlerRecord
<1>2. handler[c].pc \in Joining /\ s \in Sessions
  BY <1>1 DEF AttachFindHost, AttachGuest, Reattach, Held, Placed, WellPlaced,
              Joining
<1> USE DEF hubVars, sessVars, connVars
<1>3. CASE AttachFindHost(c)
  <2>1. UNCHANGED <<peers, sessions>>
    BY <1>3 DEF AttachFindHost
  <2>2. CASE reject(c, "session_not_found")
    BY <1>2, <2>1, <2>2, GiveUpSim DEF reject
  <2>3. CASE become(c, [handler[c] EXCEPT !.pc = "attach",
                                          !.other = connOf(s, RoleHost)])
    <3> DEFINE h == [handler[c] EXCEPT !.pc = "attach",
                                       !.other = connOf(s, RoleHost)]
    <3>1. connOf(s, RoleHost) \in Conns \cup {Nil}
      BY <1>1, <1>2, ConnOfTyped DEF Roles
    <3>2. h \in HandlerRecord /\ h.pc = "attach" /\ h.sess = s
      BY <1>1, <3>1 DEF HandlerRecord, PCs, Joining
    <3> HIDE DEF h
    <3>3. LifeAt(h.pc) = LifeAt(handler[c].pc)
      BY <1>2, <3>2 DEF LifeAt, Joining
    <3> QED BY <1>2, <2>1, <2>3, <3>2, <3>3, QuietSim DEF h
  <2> QED BY <1>3, <2>2, <2>3 DEF AttachFindHost
<1>4. CASE AttachGuest(c)
  <2>1. CASE /\ slotFree(s, RoleGuest) /\ attach(s, RoleGuest, c)
             /\ goto(c, "count")
    <3> DEFINE h == [handler[c] EXCEPT !.pc = "count"]
               p == [NoPeer EXCEPT !.conn = c]
    <3>1. h \in HandlerRecord /\ h.pc = "count"
      BY <1>1 DEF HandlerRecord, PCs, Attached
    <3>2. p \in PeerRecord /\ p.conn = c /\ p.disconnectedAt = Zero
      BY DEF PeerRecord, NoPeer
    <3>3. /\ become(c, h) /\ setPeer(s, RoleGuest, p)
          /\ ~connected(peers[s][RoleGuest])
      BY <2>1 DEF goto, attach, slotFree
    <3>4. UNCHANGED sessions /\ RoleGuest \in Roles
      BY <1>4 DEF AttachGuest, Roles
    <3> HIDE DEF h, p
    <3> QED BY <1>2, <3>1, <3>2, <3>3, <3>4, TakeSlotSim
  <2>2. CASE reject(c, "session_full") /\ UNCHANGED <<peers, lastActivity>>
    BY <1>2, <1>4, <2>2, GiveUpSim DEF reject, AttachGuest
  <2> QED BY <1>4, <2>1, <2>2 DEF AttachGuest
<1>5. CASE Reattach(c)
  <2>1. CASE /\ mayReattach(s, r, handler[c].token) /\ reattach(s, r, c)
             /\ goto(c, "recount")
    <3> DEFINE h == [handler[c] EXCEPT !.pc = "recount"]
               p == [peers[s][r] EXCEPT !.conn = c, !.disconnectedAt = Zero]
    <3>1. h \in HandlerRecord /\ h.pc = "recount"
      BY <1>1 DEF HandlerRecord, PCs, Attached
    <3>2. peers[s][r] \in PeerRecord
      BY <1>1, <1>2 DEF TypeOK
    <3>3. p \in PeerRecord /\ p.conn = c /\ p.disconnectedAt = Zero
      BY <3>2 DEF PeerRecord
    <3>4. become(c, h) /\ setPeer(s, r, p) /\ ~connected(peers[s][r])
      BY <2>1 DEF goto, reattach, mayReattach
    <3>5. UNCHANGED sessions
      BY <1>5 DEF Reattach
    <3> HIDE DEF h, p
    <3> QED BY <1>1, <1>2, <3>1, <3>3, <3>4, <3>5, TakeSlotSim
  <2>2. CASE /\ reject(c, "invalid_reconnect_token")
             /\ UNCHANGED <<peers, lastActivity>>
    BY <1>2, <1>5, <2>2, GiveUpSim DEF reject, Reattach
  <2> QED BY <1>5, <2>1, <2>2 DEF Reattach
<1> QED BY <1>3, <1>4, <1>5

(* What follows an attach: charges, notices, the return to the read loop.  *)
LEMMA SettleSim ==
    ASSUME Inv, HostFirst, NEW c \in Conns,
           \/ AttachCount(c) \/ PairHost(c) \/ PairGuest(c)
           \/ ReattachCount(c) \/ Announce(c) \/ ConfirmReconnect(c)
    PROVE  Simulated
<1> USE DEF hubVars, sessVars, connVars
<1>1. UNCHANGED <<peers, sessions>> /\ handler[c].pc \in Attached
  BY DEF AttachCount, PairHost, PairGuest, ReattachCount, Announce,
         ConfirmReconnect, Attached
<1>2. ASSUME NEW l \in {"pairHost", "pairGuest", "announce", "confirm"},
             goto(c, l)
      PROVE  Simulated
  <2>1. l \in PCs \ Joining /\ LifeAt(l) = LifeAt(handler[c].pc)
    BY <1>1 DEF LifeAt, PCs, Joining, Attached, Ending
  <2> QED BY <1>1, <1>2, <2>1, GotoSim
<1>3. CASE keepSlot(c, "serving")
  BY <1>1, <1>3, KeepSlotSim
<1> QED BY <1>2, <1>3 DEF AttachCount, PairHost, PairGuest, ReattachCount,
                          Announce, ConfirmReconnect

(* Relayed messages, tokens and drops touch no slot.                       *)
LEMMA ServeSim ==
    ASSUME Inv, HostFirst, NEW c \in Conns,
           \/ Relay(c) \/ Drop(c)
           \/ \E t \in Tokens : RegisterReconnectToken(c, t)
    PROVE  Simulated
<1> USE DEF hubVars, sessVars, connVars
<1>1. TypeOK /\ Held
  BY InvHeld
<1>2. UNCHANGED <<handler, sessions>>
  BY DEF Relay, Drop, RegisterReconnectToken
<1>3. CASE UNCHANGED peers
  BY <1>2, <1>3, IdleSim DEF SameSlots
<1>4. ASSUME NEW t \in Tokens, RegisterReconnectToken(c, t) PROVE SameSlots
  <2> DEFINE s == handler[c].sess
             r == handler[c].role
             p == [peers[s][r] EXCEPT !.token = t]
  <2>1. s \in Sessions /\ r \in Roles
    BY <1>1, <1>4 DEF RegisterReconnectToken, reading, Held, Placed,
                      WellPlaced, Attached, HandlerRecord
  <2>2. peers[s][r] \in PeerRecord
    BY <1>1, <2>1 DEF TypeOK
  <2>3. /\ p.conn = peers[s][r].conn
        /\ p.disconnectedAt = peers[s][r].disconnectedAt
    BY <2>2 DEF PeerRecord
  <2>4. UNCHANGED peers \/ setPeer(s, r, p)
    BY <1>4 DEF RegisterReconnectToken
  <2> HIDE DEF p, s, r
  <2> QED BY <1>1, <2>1, <2>3, <2>4 DEF setPeer, SameSlots, TypeOK
<1>5. CASE Relay(c) \/ Drop(c)
  BY <1>3, <1>5 DEF Relay, Drop
<1> QED BY <1>2, <1>4, <1>5, IdleSim

(* EndSession leaves every slot as it is: the ender stays in its own.      *)
LEMMA EndSim ==
    ASSUME Inv, HostFirst, NEW c \in Conns,
           EndSession(c) \/ EndNotify(c) \/ EndRelease(c) \/ EndRemove(c)
    PROVE  Simulated
<1> USE DEF hubVars, sessVars, connVars
<1>1. /\ TypeOK /\ Held /\ handler[c] \in HandlerRecord
      /\ handler[c].role \in Roles
  BY InvHeld DEF Held, HandlerRecord
<1>2. UNCHANGED peers /\ handler[c].pc \in Attached
  BY DEF EndSession, EndNotify, EndRelease, EndRemove, reading, Attached,
         Ending
<1>3. CASE EndSession(c)
  <2> DEFINE o == connOf(handler[c].sess, otherRole(handler[c].role))
             l == IF o = Nil THEN "endRemove" ELSE "endNotify"
             h == [handler[c] EXCEPT !.pc = l, !.other = o, !.ip = ipOf(o)]
  <2>1. handler[c].sess \in Sessions
    BY <1>1, <1>2 DEF Held, Placed, WellPlaced
  <2>2. o \in Conns \cup {Nil} /\ ipOf(o) \in IPs \cup {Nil}
    BY <1>1, <2>1, ConnOfTyped
  <2>3. become(c, h) /\ UNCHANGED sessions
    BY <1>3 DEF EndSession
  <2>4. l \in Ending
    BY DEF Ending
  <2> HIDE DEF o, l
  <2>5. h \in HandlerRecord /\ h.pc = l
    BY <1>1, <2>2, <2>4 DEF HandlerRecord, PCs, Attached
  <2> HIDE DEF h
  <2>6. LifeAt(h.pc) = LifeAt(handler[c].pc) /\ h.pc \notin Joining
    BY <1>2, <2>4, <2>5 DEF LifeAt, Joining, Attached, Ending
  <2> QED BY <1>2, <2>3, <2>5, <2>6, QuietSim
<1>4. ASSUME NEW l \in {"endRelease", "endRemove"}, goto(c, l),
             UNCHANGED sessions
      PROVE  Simulated
  <2>1. l \in PCs \ Joining /\ LifeAt(l) = LifeAt(handler[c].pc)
    BY <1>2 DEF LifeAt, PCs, Joining, Attached, Ending
  <2> QED BY <1>2, <1>4, <2>1, GotoSim
<1>5. CASE EndNotify(c) \/ EndRelease(c)
  BY <1>4, <1>5 DEF EndNotify, EndRelease
<1>6. CASE EndRemove(c)
  BY <1>2, <1>6, KeepSlotSim DEF EndRemove
<1> QED BY <1>3, <1>5, <1>6

(* HandleDisconnect vacates the slot of its own connection.                *)
LEMMA LeaveSim ==
    ASSUME Inv, HostFirst, NEW c \in Conns,
           HandleDisconnect(c) \/ DisconnectRelease(c) \/ DisconnectNotify(c)
    PROVE  Simulated
<1> USE DEF hubVars, sessVars, connVars
<1>1. TypeOK /\ Held /\ Placed /\ handler[c] \in HandlerRecord
  BY InvHeld DEF Held
<1>2. CASE HandleDisconnect(c)
  <2> DEFINE s == handler[c].sess
             r == handler[c].role
             o == connOf(s, otherRole(r))
             h == [handler[c] EXCEPT !.pc = "release", !.other = o,
                                     !.ip = ipOf(peers[s][r].conn)]
             p == [peers[s][r] EXCEPT !.disconnectedAt = now]
  <2>1. r \in Roles /\ s \in Sessions /\ handler[c].pc \in Attached
    BY <1>1, <1>2
    DEF HandleDisconnect, Placed, WellPlaced, HandlerRecord, Attached
  <2>2. /\ peers[s][r].conn = c /\ peers[s][r] \in PeerRecord
        /\ connOf(s, r) = c
    BY <1>1, <2>1 DEF Held, SlotOwned, HandlerHasSlot, TypeOK, connOf
  <2>3. o \in Conns \cup {Nil} /\ ipOf(peers[s][r].conn) \in IPs \cup {Nil}
    BY <1>1, <2>1, <2>2, ConnOfTyped, ValuesAssumption DEF ipOf
  <2>4. become(c, h) /\ setPeer(s, r, p) /\ UNCHANGED sessions
    BY <1>2, <2>2, ValuesAssumption DEF HandleDisconnect, markDisconnected
  <2>5. p \in PeerRecord /\ p.conn = c /\ p.disconnectedAt = now
    BY <1>1, <2>2 DEF PeerRecord, TypeOK
  <2> HIDE DEF o
  <2>6. h \in HandlerRecord /\ h.pc = "release"
    BY <1>1, <2>3 DEF HandlerRecord, PCs, Leaving
  <2> HIDE DEF h, p, s, r
  <2>7. ~connected(p)
    BY <1>1, <2>5 DEF connected, Zero, TypeOK
  <2>8. LifeAt(h.pc) = "out" /\ h.pc \notin Joining
    BY <2>6 DEF LifeAt, Joining, Attached, Ending
  <2>9. SlotStep
    BY <1>1, <2>1, <2>2, <2>4, <2>5, <2>6, <2>7, <2>8, VacateMove
  <2>10. HostsStay
    BY <1>1, <2>1, <2>4, <2>5, HostsStayIf
  <2>11. HostFirst'
    BY <1>1, <2>4, <2>6, <2>8, <2>10, HostFirstMove
  <2> QED BY <2>9, <2>11 DEF Simulated
<1>3. CASE DisconnectRelease(c)
  <2>1. /\ "notifyLeft" \in PCs \ Joining
        /\ LifeAt("notifyLeft") = LifeAt(handler[c].pc)
    BY <1>3 DEF DisconnectRelease, LifeAt, PCs, Joining, Attached, Ending,
                Leaving
  <2> QED BY <1>3, <2>1, GotoSim DEF DisconnectRelease
<1>4. CASE DisconnectNotify(c)
  <2> DEFINE h == [Fresh EXCEPT !.pc = "done"]
  <2>1. h \in HandlerRecord /\ h.pc = "done"
    BY DEF HandlerRecord, Fresh, PCs, Roles
  <2>2. become(c, h) /\ UNCHANGED <<peers, sessions>>
    BY <1>4 DEF DisconnectNotify, finish
  <2> HIDE DEF h
  <2>3. LifeAt(h.pc) = LifeAt(handler[c].pc) /\ h.pc \notin Joining
    BY <1>4, <2>1 DEF DisconnectNotify, LifeAt, Joining, Attached, Ending
  <2> QED BY <2>1, <2>2, <2>3, QuietSim
<1> QED BY <1>2, <1>3, <1>4

(* The reaper, which closes connections and removes sessions but leaves    *)
(* their slots to the handlers, and the clock.                             *)
LEMMA ReaperSim ==
    ASSUME Inv, HostFirst, Reaper \/ Tick \/ UNCHANGED vars
    PROVE  Simulated
<1>1. UNCHANGED <<handler, peers>> /\ sessions' \subseteq sessions
  BY DEF Reaper, ReapStart, ReapNext, ReapSnapshot, ReapCloseHost,
         ReapReleaseHost, ReapCloseGuest, ReapReleaseGuest, ReapRemove,
         reapClose, reapRelease, Tick, vars, sessVars
<1> QED BY <1>1, IdleSim DEF SameSlots

(* Every step of the relay is a step of SessionSlots or leaves it alone.   *)
LEMMA NextSim == Inv /\ HostFirst /\ [Next]_vars => Simulated
<1> SUFFICES ASSUME Inv, HostFirst, [Next]_vars PROVE Simulated
  OBVIOUS
<1>1. ASSUME NEW c \in Conns, Client(c) PROVE Simulated
  BY <1>1, CreateSim, JoinSim, ServeSim, EndSim DEF Client
<1>2. ASSUME NEW c \in Conns, Handler(c) PROVE Simulated
  BY <1>2, CreateSim, AttachSim, SettleSim, EndSim, LeaveSim DEF Handler
<1> QED BY <1>1, <1>2, ReaperSim DEF Next

(* Empty slots, and nobody has a life yet.                                 *)
LEMMA InitSim == Init => Abstract!SlotInit /\ HostFirst
<1> SUFFICES ASSUME Init PROVE Abstract!SlotInit /\ HostFirst
  OBVIOUS
<1>1. \A s \in Sessions, r \in Roles : connOf(s, r) = Nil
  BY DEF Init, NoPeer, connOf, connected
<1>2. \A s \in Sessions : peers[s][RoleHost].conn = Nil
  BY DEF Init, NoPeer, Roles
<1>3. \A c \in Conns : handler[c].pc = "first" /\ lifeOf(c) = "new"
  BY DEF Init, Fresh, lifeOf
<1>4. HostFirst
  BY <1>3 DEF Init, HostFirst, Joining
<1> QED BY <1>1, <1>2, <1>3, <1>4 DEF Abstract!SlotInit, Abstract!Slots,
                                      Roles, RoleHost, RoleGuest

(* The relay keeps the promise of SessionSlots for any number of           *)
(* connections and sessions: a live connection is never displaced by a     *)
(* join or a reconnect, and a slot is vacated on behalf of its own         *)
(* occupant only, although markDisconnected never compares connections.    *)
THEOREM RelayImplementsSlots == Spec => ImplementsSessionSlots
<1>1. Init => Inv /\ HostFirst /\ Abstract!SlotInit
  BY InitInv, InitSim
<1>2. Inv /\ HostFirst /\ [Next]_vars => Inv' /\ HostFirst'
  BY NextInv, NextSim DEF Simulated
<1>3. Inv /\ HostFirst /\ [Next]_vars
        => [Abstract!SlotNext]_(Abstract!slotVars)
  BY NextSim DEF Simulated, SlotStep
<1> QED BY <1>1, <1>2, <1>3, PTL
        DEF Spec, ImplementsSessionSlots, Abstract!SlotSpec
=============================================================================
