--------------------------- MODULE RelayHubProofs ---------------------------
(***************************************************************************)
(* Proofs about RelayHub for any number of connections, sessions, codes    *)
(* and addresses, any limits and any clock.                                *)
(***************************************************************************)
EXTENDS RelayHub, FiniteSetTheorems, TLAPS

(* A handler that holds a slot, or held it when it ended the session.      *)
In(h) == h.pc \in Attached \cup {"ended"}

(* Located, as far as handlers go.                                         *)
Placed == \A c \in Conns : WellPlaced(handler[c])

(* The part of the invariant that is about handlers and slots.             *)
Held == handler \in [Conns -> HandlerRecord] /\ Placed /\ SlotOwned

(* The inductive invariant.                                                *)
Inv == TypeOK /\ Located /\ SlotOwned

-----------------------------------------------------------------------------
(* What a step can do to the handlers and the slots.                       *)

(* One handler's locals change, to a well-typed and well-placed record.    *)
LEMMA BecomeTyped ==
    ASSUME NEW c \in Conns, NEW h \in HandlerRecord,
           handler \in [Conns -> HandlerRecord], Placed, WellPlaced(h),
           become(c, h)
    PROVE  handler' \in [Conns -> HandlerRecord] /\ Placed'
<1>1. handler' \in [Conns -> HandlerRecord]
  BY DEF become
<1>2. \A d \in Conns : handler'[d] = IF d = c THEN h ELSE handler[d]
  BY DEF become
<1> QED BY <1>1, <1>2 DEF Placed, WellPlaced

(* A handler moves on without gaining or losing a slot.                    *)
LEMMA QuietStep ==
    ASSUME NEW c \in Conns, NEW h \in HandlerRecord, TypeOK, SlotOwned,
           become(c, h), UNCHANGED peers,
           In(h) <=> In(handler[c]),
           h.pc \in Attached => handler[c].pc \in Attached,
           In(h) => h.sess = handler[c].sess /\ h.role = handler[c].role
    PROVE  SlotOwned'
<1>1. \A d \in Conns : handler'[d] = IF d = c THEN h ELSE handler[d]
  BY DEF become, TypeOK
<1>2. HandlerHasSlot'
  BY <1>1 DEF SlotOwned, HandlerHasSlot, connected, In
<1>3. SlotHasHandler'
  <2> SUFFICES ASSUME NEW s \in Sessions, NEW r \in Roles,
                      connected(peers[s][r])
               PROVE  LET g == handler'[peers[s][r].conn] IN
                      g.sess = s /\ g.role = r /\ In(g)
    BY DEF SlotHasHandler, connected, In
  <2>1. peers[s][r].conn \in Conns
    BY DEF TypeOK, PeerRecord, connected
  <2>2. LET g == handler[peers[s][r].conn] IN
        g.sess = s /\ g.role = r /\ In(g)
    BY DEF SlotOwned, SlotHasHandler, In
  <2> QED BY <1>1, <2>1, <2>2
<1> QED BY <1>2, <1>3 DEF SlotOwned

(* A handler without a slot takes one that nobody is connected in.         *)
LEMMA OccupyStep ==
    ASSUME NEW c \in Conns, NEW h \in HandlerRecord,
           NEW s \in Sessions, NEW r \in Roles, NEW p \in PeerRecord,
           TypeOK, SlotOwned, become(c, h), setPeer(s, r, p),
           ~connected(peers[s][r]), ~In(handler[c]),
           h.pc \in Attached, h.sess = s, h.role = r,
           p.conn = c, connected(p)
    PROVE  SlotOwned'
<1>1. \A d \in Conns : handler'[d] = IF d = c THEN h ELSE handler[d]
  BY DEF become, TypeOK
<1>2. \A t \in Sessions, q \in Roles :
         peers'[t][q] = IF t = s /\ q = r THEN p ELSE peers[t][q]
  BY DEF setPeer, TypeOK
<1>3. HandlerHasSlot'
  <2> SUFFICES ASSUME NEW d \in Conns, handler'[d].pc \in Attached
               PROVE  LET q == peers'[handler'[d].sess][handler'[d].role] IN
                      q.conn = d /\ connected(q)
    BY DEF HandlerHasSlot, connected
  <2>1. CASE d = c
    BY <1>1, <1>2, <2>1
  <2>2. CASE d # c
    <3>1. /\ handler'[d] = handler[d]
          /\ peers[handler[d].sess][handler[d].role].conn = d
          /\ connected(peers[handler[d].sess][handler[d].role])
      BY <1>1, <2>2 DEF SlotOwned, HandlerHasSlot
    <3>2. handler[d].role \in Roles
      BY DEF TypeOK, HandlerRecord
    <3>3. CASE handler[d].sess \in Sessions
      BY <1>2, <3>1, <3>2, <3>3
    <3>4. CASE handler[d].sess \notin Sessions
      BY <3>1, <3>4 DEF setPeer, TypeOK
    <3> QED BY <3>3, <3>4
  <2> QED BY <2>1, <2>2
<1>4. SlotHasHandler'
  <2> SUFFICES ASSUME NEW t \in Sessions, NEW q \in Roles,
                      connected(peers'[t][q])
               PROVE  LET g == handler'[peers'[t][q].conn] IN
                      g.sess = t /\ g.role = q /\ In(g)
    BY DEF SlotHasHandler, connected, In
  <2>1. CASE t = s /\ q = r
    BY <1>1, <1>2, <2>1 DEF In
  <2>2. CASE ~(t = s /\ q = r)
    <3>1. peers'[t][q] = peers[t][q] /\ peers[t][q].conn \in Conns
      BY <1>2, <2>2 DEF TypeOK, PeerRecord, connected
    <3>2. LET g == handler[peers[t][q].conn] IN
          g.sess = t /\ g.role = q /\ In(g)
      BY <3>1 DEF SlotOwned, SlotHasHandler, In
    <3> QED BY <1>1, <3>1, <3>2
  <2> QED BY <2>1, <2>2
<1> QED BY <1>3, <1>4 DEF SlotOwned

(* The occupant of a slot is marked disconnected and its handler leaves.   *)
LEMMA VacateStep ==
    ASSUME NEW c \in Conns, NEW h \in HandlerRecord, NEW p \in PeerRecord,
           TypeOK, Placed, SlotOwned, become(c, h),
           setPeer(handler[c].sess, handler[c].role, p),
           handler[c].pc \in Attached, ~In(h), ~connected(p)
    PROVE  SlotOwned'
<1> DEFINE s == handler[c].sess
           r == handler[c].role
<1>0. s \in Sessions /\ r \in Roles
  BY DEF Placed, WellPlaced, TypeOK, HandlerRecord
<1>1. \A d \in Conns : handler'[d] = IF d = c THEN h ELSE handler[d]
  BY DEF become, TypeOK
<1>2. \A t \in Sessions, q \in Roles :
         peers'[t][q] = IF t = s /\ q = r THEN p ELSE peers[t][q]
  BY <1>0 DEF setPeer, TypeOK
<1>3. peers[s][r].conn = c
  BY DEF SlotOwned, HandlerHasSlot
<1> HIDE DEF s, r
<1>4. HandlerHasSlot'
  <2> SUFFICES ASSUME NEW d \in Conns, handler'[d].pc \in Attached
               PROVE  LET q == peers'[handler'[d].sess][handler'[d].role] IN
                      q.conn = d /\ connected(q)
    BY DEF HandlerHasSlot, connected
  <2>1. d # c /\ handler'[d] = handler[d]
    BY <1>1 DEF In
  <2>2. handler[d].sess \in Sessions /\ handler[d].role \in Roles
    BY <2>1 DEF Placed, WellPlaced, TypeOK, HandlerRecord
  <2>3. /\ peers[handler[d].sess][handler[d].role].conn = d
        /\ connected(peers[handler[d].sess][handler[d].role])
    BY <2>1 DEF SlotOwned, HandlerHasSlot
  <2> QED BY <1>2, <1>3, <2>1, <2>2, <2>3
<1>5. SlotHasHandler'
  <2> SUFFICES ASSUME NEW t \in Sessions, NEW q \in Roles,
                      connected(peers'[t][q])
               PROVE  LET g == handler'[peers'[t][q].conn] IN
                      g.sess = t /\ g.role = q /\ In(g)
    BY DEF SlotHasHandler, connected, In
  <2>1. ~(t = s /\ q = r) /\ peers'[t][q] = peers[t][q]
    BY <1>2
  <2>2. peers[t][q].conn \in Conns
    BY <2>1 DEF TypeOK, PeerRecord, connected
  <2>3. LET g == handler[peers[t][q].conn] IN
        g.sess = t /\ g.role = q /\ In(g)
    BY <2>1 DEF SlotOwned, SlotHasHandler, In
  <2>4. peers[t][q].conn # c
    BY <2>1, <2>3 DEF s, r
  <2> QED BY <1>1, <2>1, <2>2, <2>3, <2>4
<1> QED BY <1>4, <1>5 DEF SlotOwned

(* A step that leaves every handler and every slot as it is.               *)
LEMMA IdleStep ==
    ASSUME Held, UNCHANGED <<handler, peers>>
    PROVE  Held'
BY DEF Held, Placed, WellPlaced, SlotOwned, HandlerHasSlot, SlotHasHandler,
       connected

(* goto: the program counter alone moves, inside or outside a slot.        *)
LEMMA GotoStep ==
    ASSUME NEW c \in Conns, NEW l \in PCs \ {"endNotify", "ended"},
           TypeOK, Held, goto(c, l), UNCHANGED peers,
           handler[c].pc \in Attached \cup Leaving, l \notin Joining,
           l \in Attached <=> handler[c].pc \in Attached
    PROVE  Held'
<1> DEFINE h == [handler[c] EXCEPT !.pc = l]
<1>1. handler[c] \in HandlerRecord /\ handler[c].sess \in Sessions
  BY DEF Held, Placed, WellPlaced
<1>2. /\ h \in HandlerRecord /\ h.pc = l
      /\ h.sess = handler[c].sess /\ h.role = handler[c].role
  BY <1>1 DEF HandlerRecord
<1>3. become(c, h)
  BY DEF goto
<1> HIDE DEF h
<1>4. WellPlaced(h)
  BY <1>1, <1>2 DEF WellPlaced, Joining
<1>5. /\ In(h) <=> In(handler[c])
      /\ h.pc \in Attached => handler[c].pc \in Attached
  BY <1>2 DEF In, Joining, Attached, Ending, Leaving
<1>6. SlotOwned'
  BY <1>2, <1>3, <1>5, QuietStep DEF Held
<1> QED BY <1>2, <1>3, <1>4, <1>6, BecomeTyped DEF Held

(* finish: a handler outside every slot stops for good.                    *)
LEMMA FinishStep ==
    ASSUME NEW c \in Conns, NEW l \in {"rejected", "done"},
           TypeOK, Held, finish(c, l), UNCHANGED peers, ~In(handler[c])
    PROVE  Held'
<1> DEFINE h == [Fresh EXCEPT !.pc = l]
<1>1. h \in HandlerRecord /\ h.pc = l
  BY DEF HandlerRecord, Fresh, PCs, Roles
<1>2. become(c, h)
  BY DEF finish
<1> HIDE DEF h
<1>3. WellPlaced(h) /\ ~In(h) /\ h.pc \notin Attached
  BY <1>1 DEF WellPlaced, In, Joining, Attached, Ending, Leaving
<1>4. SlotOwned'
  BY <1>1, <1>2, <1>3, QuietStep DEF Held
<1> QED BY <1>1, <1>2, <1>3, <1>4, BecomeTyped DEF Held

(* keepSlot: a handler returns from a call, still in its slot.             *)
LEMMA KeepSlotStep ==
    ASSUME NEW c \in Conns, NEW l \in {"serving", "ended"},
           TypeOK, Held, keepSlot(c, l), UNCHANGED peers,
           handler[c].pc \in Attached
    PROVE  Held'
<1> DEFINE h == [Fresh EXCEPT !.pc = l, !.sess = handler[c].sess,
                              !.role = handler[c].role]
<1>1. /\ handler[c] \in HandlerRecord /\ handler[c].sess \in Sessions
      /\ handler[c].role \in Roles
  BY DEF Held, Placed, WellPlaced, HandlerRecord
<1>2. /\ h \in HandlerRecord /\ h.pc = l
      /\ h.sess = handler[c].sess /\ h.role = handler[c].role
  BY <1>1 DEF HandlerRecord, Fresh, PCs, Attached
<1>3. become(c, h)
  BY DEF keepSlot
<1> HIDE DEF h
<1>4. WellPlaced(h) /\ In(h)
  BY <1>1, <1>2 DEF WellPlaced, In, Attached
<1>5. SlotOwned'
  BY <1>2, <1>3, <1>4, QuietStep DEF Held, In
<1> QED BY <1>2, <1>3, <1>4, <1>5, BecomeTyped DEF Held

-----------------------------------------------------------------------------
(* The other state a step touches.                                         *)

(* What the step lemmas above take from the invariant.                     *)
LEMMA InvHeld == Inv => TypeOK /\ Held
BY DEF Inv, Held, TypeOK, Located, Placed

(* Writing a message leaves told well typed.                              *)
LEMMA SendTyped ==
    ASSUME NEW x, NEW m \in Notices, told \in [Conns -> Notices], send(x, m)
    PROVE  told' \in [Conns -> Notices]
BY DEF send

(* Charging an address leaves ipCounts well typed.                        *)
LEMMA AcquireTyped ==
    ASSUME NEW c \in Conns, ipCounts \in [IPs -> Nat], acquire(clientIP[c])
    PROVE  ipCounts' \in [IPs -> Nat]
BY ValuesAssumption DEF acquire

(* The guard of the decrement is what keeps the count a natural number.    *)
LEMMA ReleaseTyped ==
    ASSUME NEW i, ipCounts \in [IPs -> Nat], release(i)
    PROVE  ipCounts' \in [IPs -> Nat]
BY DEF release

(* connOf returns a connection or Nil.                                    *)
LEMMA ConnOfTyped ==
    ASSUME TypeOK, NEW s \in Sessions, NEW r \in Roles
    PROVE  /\ connOf(s, r) \in Conns \cup {Nil}
           /\ ipOf(connOf(s, r)) \in IPs \cup {Nil}
           /\ otherRole(r) \in Roles
BY ValuesAssumption
DEF TypeOK, connOf, ipOf, PeerRecord, otherRole, Roles, RoleHost, RoleGuest

(* sendError and Close: a handler without a slot gives up.                *)
LEMMA RejectStep ==
    ASSUME NEW c \in Conns, NEW code \in Errors, Inv, reject(c, code),
           UNCHANGED peers, handler[c].pc \in {"first"} \cup Joining
    PROVE  Held' /\ told' \in [Conns -> Notices] /\ closed' \subseteq Conns
<1>1. TypeOK /\ Held
  BY InvHeld
<1>2. ~In(handler[c])
  BY DEF In, Joining, Attached, Ending
<1>3. Held'
  BY <1>1, <1>2, FinishStep DEF reject
<1>4. told' \in [Conns -> Notices]
  BY <1>1, SendTyped DEF reject, TypeOK, Notices
<1> QED BY <1>1, <1>3, <1>4 DEF reject, TypeOK

(* A handler that has no slot starts a call on a session it looked up.     *)
LEMMA LookupStep ==
    ASSUME NEW c \in Conns, NEW h \in HandlerRecord, Inv, become(c, h),
           UNCHANGED peers, handler[c].pc \in {"first"} \cup Joining,
           h.pc \in Joining, h.sess \in Sessions,
           h.pc \in {"findHost", "attach"} => h.role = RoleGuest
    PROVE  Held'
<1>1. TypeOK /\ Held
  BY InvHeld
<1>2. ~In(handler[c]) /\ ~In(h) /\ h.pc \notin Attached /\ h.pc # "endNotify"
  BY DEF In, Joining, Attached, Ending
<1>3. WellPlaced(h)
  BY <1>2 DEF WellPlaced
<1>4. SlotOwned'
  BY <1>1, <1>2, QuietStep DEF Held
<1> QED BY <1>1, <1>3, <1>4, BecomeTyped DEF Held

(* A handler takes slot r of s: what attach and reattach have in common.   *)
LEMMA TakeSlotStep ==
    ASSUME NEW c \in Conns, NEW h \in HandlerRecord, NEW s \in Sessions,
           NEW r \in Roles, NEW p \in PeerRecord, Inv,
           become(c, h), setPeer(s, r, p), ~connected(peers[s][r]),
           handler[c].pc \in {"first"} \cup Joining,
           h.pc \in Attached \ {"endNotify"}, h.sess = s, h.role = r,
           p.conn = c, p.disconnectedAt = Zero
    PROVE  Held' /\ peers' \in [Sessions -> [Roles -> PeerRecord]]
<1>1. TypeOK /\ Held
  BY InvHeld
<1>2. ~In(handler[c])
  BY DEF In, Joining, Attached, Ending
<1>3. WellPlaced(h)
  BY DEF WellPlaced, Attached, Ending
<1>4. connected(p)
  BY ValuesAssumption DEF connected
<1>5. SlotOwned'
  BY <1>1, <1>2, <1>4, OccupyStep DEF Held
<1>6. peers' \in [Sessions -> [Roles -> PeerRecord]]
  BY <1>1 DEF TypeOK, setPeer
<1> QED BY <1>1, <1>3, <1>5, <1>6, BecomeTyped DEF Held

-----------------------------------------------------------------------------
(* Every step preserves the invariant: sessions begin.                     *)

(* A relay that has just started, with no session and no handler.          *)
LEMMA InitInv == Init => Inv
<1> SUFFICES ASSUME Init PROVE Inv
  OBVIOUS
<1> USE DEF Init, NoPeer, NoCode, NoBudget, Fresh, Resting, Roles, RoleHost,
            RoleGuest, Zero
<1>1. handler \in [Conns -> HandlerRecord] /\ reaper \in ReaperRecord
  BY DEF HandlerRecord, ReaperRecord, PCs, Notices
<1>2. TypeOK
  BY <1>1 DEF TypeOK, PeerRecord, Notices
<1>3. Located
  BY DEF Located, WellPlaced, Joining, Attached, Ending, Leaving
<1>4. SlotOwned
  BY DEF SlotOwned, HandlerHasSlot, SlotHasHandler, connected, Attached,
         Ending
<1> QED BY <1>2, <1>3, <1>4 DEF Inv

(* startSession takes the host slot of a session nobody has created.      *)
LEMMA StartInv ==
    ASSUME Inv, NEW c \in Conns, NEW s \in unmade, startSession(c, s),
           handler[c].pc = "first"
    PROVE  /\ Held' /\ sessions' \subseteq Sessions
           /\ peers' \in [Sessions -> [Roles -> PeerRecord]]
           /\ lastActivity' \in [Sessions -> Nat]
<1> DEFINE h == [Fresh EXCEPT !.pc = "serving", !.sess = s]
           p == [NoPeer EXCEPT !.conn = c]
<1>1. s \in Sessions /\ TypeOK /\ ~connected(peers[s][RoleHost])
  BY InvHeld DEF unmade, connected
<1>2. /\ h \in HandlerRecord /\ h.pc = "serving" /\ h.sess = s
      /\ h.role = RoleHost /\ RoleHost \in Roles
  BY <1>1 DEF HandlerRecord, Fresh, PCs, Attached, Roles
<1>3. p \in PeerRecord /\ p.conn = c /\ p.disconnectedAt = Zero
  BY DEF PeerRecord, NoPeer
<1>4. become(c, h) /\ setPeer(s, RoleHost, p)
  BY DEF startSession, attach
<1> HIDE DEF h, p
<1>5. h.pc \in Attached \ {"endNotify"}
  BY <1>2 DEF Attached
<1>6. Held' /\ peers' \in [Sessions -> [Roles -> PeerRecord]]
  BY <1>1, <1>2, <1>3, <1>4, <1>5, TakeSlotStep
<1> QED BY <1>1, <1>6 DEF startSession, attach, TypeOK

(* The first messages that create, or are refused, preserve Inv.          *)
LEMMA CreateInv ==
    ASSUME Inv, NEW c \in Conns,
           CreateSession(c) \/ CreateCodeSession(c) \/ CreateRefused(c)
           \/ FirstMessageInvalid(c) \/ FirstReadFails(c)
    PROVE  Inv'
<1>1. TypeOK /\ Held
  BY InvHeld
<1> USE DEF hubVars, sessVars, connVars
<1>2. CASE CreateSession(c)
  <2>1. /\ Held' /\ sessions' \subseteq Sessions
        /\ peers' \in [Sessions -> [Roles -> PeerRecord]]
        /\ lastActivity' \in [Sessions -> Nat]
    BY <1>2, StartInv DEF CreateSession, firstMessage
  <2>2. ipCounts' \in [IPs -> Nat] /\ told' \in [Conns -> Notices]
    BY <1>1, <1>2, AcquireTyped, SendTyped DEF CreateSession, TypeOK, Notices
  <2> QED BY <1>1, <1>2, <2>1, <2>2
          DEF CreateSession, Inv, TypeOK, Located, Held, Placed
<1>3. CASE CreateCodeSession(c)
  <2>1. PICK s \in unmade, k \in Codes :
           /\ startSession(c, s)
           /\ codes' = [codes EXCEPT ![k] =
                          [sess |-> s, expiresAt |-> now + PairingCodeTTL]]
    BY <1>3 DEF CreateCodeSession
  <2>2. /\ Held' /\ sessions' \subseteq Sessions
        /\ peers' \in [Sessions -> [Roles -> PeerRecord]]
        /\ lastActivity' \in [Sessions -> Nat]
    BY <1>3, <2>1, StartInv DEF CreateCodeSession, firstMessage
  <2>3. codes' \in [Codes -> [sess : Sessions \cup {Nil}, expiresAt : Nat]]
    BY <1>1, <2>1, ConfigAssumption DEF TypeOK, unmade
  <2>4. ipCounts' \in [IPs -> Nat] /\ told' \in [Conns -> Notices]
    BY <1>1, <1>3, AcquireTyped, SendTyped
    DEF CreateCodeSession, TypeOK, Notices
  <2> QED BY <1>1, <1>3, <2>2, <2>3, <2>4
          DEF CreateCodeSession, Inv, TypeOK, Located, Held, Placed
<1>4. CASE CreateRefused(c) \/ FirstMessageInvalid(c)
  <2>1. Held' /\ told' \in [Conns -> Notices] /\ closed' \subseteq Conns
    BY <1>4, RejectStep
    DEF CreateRefused, FirstMessageInvalid, firstMessage, Errors
  <2> QED BY <1>1, <1>4, <2>1
          DEF CreateRefused, FirstMessageInvalid, Inv, TypeOK, Located, Held,
              Placed
<1>5. CASE FirstReadFails(c)
  <2>1. Held'
    BY <1>1, <1>5, FinishStep DEF FirstReadFails, In, Attached, Ending
  <2> QED BY <1>1, <1>5, <2>1
          DEF FirstReadFails, Inv, TypeOK, Located, Held, Placed
<1> QED BY <1>2, <1>3, <1>4, <1>5

-----------------------------------------------------------------------------
(* Joining and resuming.                                                   *)

(* checkAndRecordGuessLocked leaves every budget well typed.               *)
LEMMA BudgetTyped ==
    ASSUME TypeOK, NEW i \in IPs, recordGuess(i)
    PROVE  guesses' \in [IPs -> [count : Nat, windowStart : Nat]]
<1>1. budget(i) \in [count : Nat, windowStart : Nat]
  BY DEF budget, TypeOK
<1>2. [budget(i) EXCEPT !.count = @ + 1] \in [count : Nat, windowStart : Nat]
  BY <1>1
<1> QED BY <1>2 DEF recordGuess, TypeOK

(* The lookup that begins a join preserves Inv.                           *)
LEMMA JoinLookupInv ==
    ASSUME Inv, NEW c \in Conns, NEW s \in Sessions, joinLookup(c, s),
           UNCHANGED peers, handler[c].pc = "first"
    PROVE  Held'
<1> DEFINE h == [Fresh EXCEPT !.pc = "findHost", !.sess = s,
                              !.role = RoleGuest]
<1>1. /\ h \in HandlerRecord /\ h.pc \in Joining /\ h.sess = s
      /\ h.role = RoleGuest
  BY DEF HandlerRecord, Fresh, PCs, Joining, Roles
<1>2. become(c, h)
  BY DEF joinLookup
<1> HIDE DEF h
<1> QED BY <1>1, <1>2, LookupStep

(* JoinSession and JoinByCode preserve Inv.                               *)
LEMMA JoinInv ==
    ASSUME Inv, NEW c \in Conns,
           \/ \E s \in Sessions : JoinSession(c, s)
           \/ JoinByCodeBlocked(c)
           \/ \E k \in Codes : JoinByCode(c, k)
    PROVE  Inv'
<1>1. TypeOK /\ Held
  BY InvHeld
<1> USE DEF hubVars, sessVars, connVars
<1>2. ASSUME NEW s \in Sessions, JoinSession(c, s) PROVE Inv'
  <2>1. Held' /\ told' \in [Conns -> Notices] /\ closed' \subseteq Conns
    <3>1. CASE joinLookup(c, s) /\ UNCHANGED connVars
      BY <1>1, <1>2, <3>1, JoinLookupInv DEF JoinSession, firstMessage, TypeOK
    <3>2. CASE reject(c, "session_not_found") \/ reject(c, "too_many_sessions")
      BY <1>2, <3>2, RejectStep DEF JoinSession, firstMessage, Errors
    <3> QED BY <1>2, <3>1, <3>2 DEF JoinSession
  <2> QED BY <1>1, <1>2, <2>1
          DEF JoinSession, Inv, TypeOK, Located, Held, Placed
<1>3. CASE JoinByCodeBlocked(c)
  <2>1. Held' /\ told' \in [Conns -> Notices] /\ closed' \subseteq Conns
    BY <1>3, RejectStep DEF JoinByCodeBlocked, firstMessage, Errors
  <2> QED BY <1>1, <1>3, <2>1
          DEF JoinByCodeBlocked, Inv, TypeOK, Located, Held, Placed
<1>4. ASSUME NEW k \in Codes, JoinByCode(c, k) PROVE Inv'
  <2>1. Held' /\ told' \in [Conns -> Notices] /\ closed' \subseteq Conns
    <3>1. CASE /\ codes[k].sess \in sessions
               /\ joinLookup(c, codes[k].sess)
               /\ UNCHANGED connVars
      BY <1>1, <1>4, <3>1, JoinLookupInv DEF JoinByCode, firstMessage, TypeOK
    <3>2. CASE \E e \in {"invalid_code", "too_many_sessions",
                         "session_not_found"} : reject(c, e)
      BY <1>4, <3>2, RejectStep DEF JoinByCode, firstMessage, Errors
    <3> QED BY <1>4, <3>1, <3>2 DEF JoinByCode
  <2>2. guesses' \in [IPs -> [count : Nat, windowStart : Nat]]
    BY <1>1, <1>4, BudgetTyped, ValuesAssumption DEF JoinByCode
  <2>3. codes' \in [Codes -> [sess : Sessions \cup {Nil}, expiresAt : Nat]]
    BY <1>1, <1>4 DEF JoinByCode, consume, NoCode, TypeOK
  <2> QED BY <1>1, <1>4, <2>1, <2>2, <2>3
          DEF JoinByCode, Inv, TypeOK, Located, Held, Placed
<1> QED BY <1>2, <1>3, <1>4

(* attachGuest preserves Inv: attach looks at the slot it takes.          *)
LEMMA AttachInv ==
    ASSUME Inv, NEW c \in Conns,
           \/ AttachFindHost(c) \/ AttachGuest(c) \/ AttachCount(c)
           \/ PairHost(c) \/ PairGuest(c)
    PROVE  Inv'
<1> DEFINE s == handler[c].sess
<1>1. TypeOK /\ Held
  BY InvHeld
<1>0. /\ handler[c] \in HandlerRecord /\ WellPlaced(handler[c])
      /\ handler[c].pc \in Joining \cup Attached => s \in Sessions
  BY <1>1 DEF Held, Placed, WellPlaced
<1> USE DEF hubVars, sessVars, connVars
<1>2. CASE AttachFindHost(c)
  <2>1. s \in Sessions /\ handler[c].pc \in Joining
    BY <1>0, <1>2 DEF AttachFindHost, Joining
  <2>2. Held' /\ told' \in [Conns -> Notices] /\ closed' \subseteq Conns
    <3>1. CASE reject(c, "session_not_found")
      BY <1>2, <2>1, <3>1, RejectStep DEF AttachFindHost, Errors
    <3>2. CASE /\ become(c, [handler[c] EXCEPT !.pc = "attach",
                                          !.other = connOf(s, RoleHost)])
               /\ UNCHANGED connVars
      <4> DEFINE h == [handler[c] EXCEPT !.pc = "attach",
                                         !.other = connOf(s, RoleHost)]
      <4>1. connOf(s, RoleHost) \in Conns \cup {Nil}
        BY <1>1, <2>1, ConnOfTyped DEF Roles
      <4>2. /\ h \in HandlerRecord /\ h.pc \in Joining /\ h.sess = s
            /\ h.role = handler[c].role
        BY <1>0, <4>1 DEF HandlerRecord, PCs, Joining
      <4>3. h.role = RoleGuest
        BY <1>0, <1>2, <4>2 DEF WellPlaced, AttachFindHost
      <4> HIDE DEF h
      <4>4. Held'
        BY <1>2, <2>1, <3>2, <4>2, <4>3, LookupStep DEF AttachFindHost, h
      <4> QED BY <1>1, <3>2, <4>4 DEF TypeOK
    <3> QED BY <1>2, <3>1, <3>2 DEF AttachFindHost
  <2> QED BY <1>1, <1>2, <2>2
          DEF AttachFindHost, Inv, TypeOK, Located, Held, Placed
<1>3. CASE AttachGuest(c)
  <2>1. s \in Sessions /\ handler[c].pc \in Joining
    BY <1>0, <1>3 DEF AttachGuest, Joining
  <2>2. CASE /\ slotFree(s, RoleGuest)
             /\ attach(s, RoleGuest, c)
             /\ goto(c, "count")
             /\ UNCHANGED connVars
    <3> DEFINE h == [handler[c] EXCEPT !.pc = "count"]
               p == [NoPeer EXCEPT !.conn = c]
    <3>1. /\ h \in HandlerRecord /\ h.pc = "count" /\ h.sess = s
          /\ h.role = handler[c].role
      BY <1>0 DEF HandlerRecord, PCs, Attached
    <3>2. h.role = RoleGuest /\ RoleGuest \in Roles
      BY <1>0, <1>3, <3>1 DEF WellPlaced, AttachGuest, Roles
    <3>3. p \in PeerRecord /\ p.conn = c /\ p.disconnectedAt = Zero
      BY DEF PeerRecord, NoPeer
    <3>4. /\ become(c, h) /\ setPeer(s, RoleGuest, p)
          /\ ~connected(peers[s][RoleGuest])
      BY <2>2 DEF goto, attach, slotFree
    <3> HIDE DEF h, p
    <3>5. h.pc \in Attached \ {"endNotify"}
      BY <3>1 DEF Attached
    <3>6. Held' /\ peers' \in [Sessions -> [Roles -> PeerRecord]]
      BY <2>1, <3>1, <3>2, <3>3, <3>4, <3>5, TakeSlotStep
    <3>7. lastActivity' \in [Sessions -> Nat]
      BY <1>1, <2>1, <2>2 DEF attach, TypeOK
    <3> QED BY <1>1, <1>3, <2>2, <3>6, <3>7
            DEF AttachGuest, Inv, TypeOK, Located, Held, Placed
  <2>3. CASE reject(c, "session_full") /\ UNCHANGED <<peers, lastActivity>>
    <3>1. Held' /\ told' \in [Conns -> Notices] /\ closed' \subseteq Conns
      BY <2>1, <2>3, RejectStep DEF Errors
    <3> QED BY <1>1, <1>3, <2>3, <3>1
            DEF AttachGuest, Inv, TypeOK, Located, Held, Placed
  <2> QED BY <1>3, <2>2, <2>3 DEF AttachGuest
<1>4. CASE AttachCount(c)
  <2>1. Held'
    BY <1>1, <1>4, GotoStep DEF AttachCount, PCs, Attached, Ending, Joining
  <2> QED BY <1>1, <1>4, <2>1, AcquireTyped
          DEF AttachCount, Inv, TypeOK, Located, Held, Placed
<1>5. CASE PairHost(c)
  <2>1. Held'
    BY <1>1, <1>5, GotoStep DEF PairHost, PCs, Attached, Ending, Joining
  <2>2. told' \in [Conns -> Notices]
    BY <1>1, <1>5, SendTyped DEF PairHost, TypeOK, Notices
  <2> QED BY <1>1, <1>5, <2>1, <2>2
          DEF PairHost, Inv, TypeOK, Located, Held, Placed
<1>6. CASE PairGuest(c)
  <2>1. Held'
    BY <1>1, <1>6, KeepSlotStep DEF PairGuest, Attached
  <2>2. told' \in [Conns -> Notices]
    BY <1>1, <1>6, SendTyped DEF PairGuest, TypeOK, Notices
  <2> QED BY <1>1, <1>6, <2>1, <2>2
          DEF PairGuest, Inv, TypeOK, Located, Held, Placed
<1> QED BY <1>2, <1>3, <1>4, <1>5, <1>6

(* Reconnect preserves Inv: reattach looks at the slot it takes.          *)
LEMMA ReconnectInv ==
    ASSUME Inv, NEW c \in Conns,
           \/ \E s \in Sessions, r \in Roles, t \in Tokens :
                 Reconnect(c, s, r, t)
           \/ Reattach(c) \/ ReattachCount(c) \/ Announce(c)
           \/ ConfirmReconnect(c)
    PROVE  Inv'
<1>1. TypeOK /\ Held
  BY InvHeld
<1>0. /\ handler[c] \in HandlerRecord
      /\ handler[c].pc \in Joining \cup Attached => handler[c].sess \in Sessions
  BY <1>1 DEF Held, Placed, WellPlaced
<1> USE DEF hubVars, sessVars, connVars
<1>2. ASSUME NEW s \in Sessions, NEW r \in Roles, NEW t \in Tokens,
             Reconnect(c, s, r, t)
      PROVE  Inv'
  <2> DEFINE h == [Fresh EXCEPT !.pc = "reattach", !.sess = s,
                                !.role = r, !.token = t]
  <2>1. h \in HandlerRecord /\ h.pc = "reattach" /\ h.sess = s
    BY DEF HandlerRecord, Fresh, PCs, Joining, Roles
  <2> HIDE DEF h
  <2>2. Held' /\ told' \in [Conns -> Notices] /\ closed' \subseteq Conns
    <3>1. CASE become(c, h) /\ UNCHANGED connVars
      <4>1. h.pc \in Joining /\ h.pc \notin {"findHost", "attach"}
        BY <2>1 DEF Joining
      <4>2. Held'
        BY <1>2, <2>1, <3>1, <4>1, LookupStep DEF Reconnect, firstMessage
      <4> QED BY <1>1, <3>1, <4>2 DEF TypeOK
    <3>2. CASE \E e \in {"invalid_reconnect_token", "too_many_sessions"} :
                  reject(c, e)
      BY <1>2, <3>2, RejectStep DEF Reconnect, firstMessage, Errors
    <3> QED BY <1>2, <3>1, <3>2 DEF Reconnect, h
  <2> QED BY <1>1, <1>2, <2>2
          DEF Reconnect, Inv, TypeOK, Located, Held, Placed
<1>3. CASE Reattach(c)
  <2> DEFINE s == handler[c].sess
             r == handler[c].role
  <2>1. s \in Sessions /\ r \in Roles /\ handler[c].pc \in Joining
    BY <1>0, <1>3 DEF Reattach, Joining, HandlerRecord
  <2>2. CASE /\ mayReattach(s, r, handler[c].token)
             /\ reattach(s, r, c)
             /\ goto(c, "recount")
             /\ UNCHANGED connVars
    <3> DEFINE h == [handler[c] EXCEPT !.pc = "recount"]
               p == [peers[s][r] EXCEPT !.conn = c, !.disconnectedAt = Zero]
    <3>1. /\ h \in HandlerRecord /\ h.pc = "recount" /\ h.sess = s
          /\ h.role = r
      BY <1>0 DEF HandlerRecord, PCs, Attached
    <3>2. peers[s][r] \in PeerRecord
      BY <1>1, <2>1 DEF TypeOK
    <3>3. p \in PeerRecord /\ p.conn = c /\ p.disconnectedAt = Zero
      BY <3>2 DEF PeerRecord
    <3>4. /\ become(c, h) /\ setPeer(s, r, p) /\ ~connected(peers[s][r])
      BY <2>2 DEF goto, reattach, mayReattach
    <3> HIDE DEF h, p
    <3>5. h.pc \in Attached \ {"endNotify"}
      BY <3>1 DEF Attached
    <3>6. Held' /\ peers' \in [Sessions -> [Roles -> PeerRecord]]
      BY <2>1, <3>1, <3>3, <3>4, <3>5, TakeSlotStep
    <3>7. lastActivity' \in [Sessions -> Nat]
      BY <1>1, <2>1, <2>2 DEF reattach, TypeOK
    <3> QED BY <1>1, <1>3, <2>2, <3>6, <3>7
            DEF Reattach, Inv, TypeOK, Located, Held, Placed
  <2>3. CASE /\ reject(c, "invalid_reconnect_token")
             /\ UNCHANGED <<peers, lastActivity>>
    <3>1. Held' /\ told' \in [Conns -> Notices] /\ closed' \subseteq Conns
      BY <2>1, <2>3, RejectStep DEF Errors
    <3> QED BY <1>1, <1>3, <2>3, <3>1
            DEF Reattach, Inv, TypeOK, Located, Held, Placed
  <2> QED BY <1>3, <2>2, <2>3 DEF Reattach
<1>4. CASE ReattachCount(c)
  <2>1. Held'
    BY <1>1, <1>4, GotoStep DEF ReattachCount, PCs, Attached, Ending, Joining
  <2> QED BY <1>1, <1>4, <2>1, AcquireTyped
          DEF ReattachCount, Inv, TypeOK, Located, Held, Placed
<1>5. CASE Announce(c)
  <2>1. Held'
    BY <1>1, <1>5, GotoStep DEF Announce, PCs, Attached, Ending, Joining
  <2>2. told' \in [Conns -> Notices]
    BY <1>1, <1>5, SendTyped DEF Announce, TypeOK, Notices
  <2> QED BY <1>1, <1>5, <2>1, <2>2
          DEF Announce, Inv, TypeOK, Located, Held, Placed
<1>6. CASE ConfirmReconnect(c)
  <2>1. Held'
    BY <1>1, <1>6, KeepSlotStep DEF ConfirmReconnect, Attached
  <2>2. told' \in [Conns -> Notices]
    BY <1>1, <1>6, SendTyped DEF ConfirmReconnect, TypeOK, Notices
  <2> QED BY <1>1, <1>6, <2>1, <2>2
          DEF ConfirmReconnect, Inv, TypeOK, Located, Held, Placed
<1> QED BY <1>2, <1>3, <1>4, <1>5, <1>6

-----------------------------------------------------------------------------
(* Serving, ending and leaving.                                            *)

(* A slot's token changes, its occupant does not.                          *)
LEMMA TokenStep ==
    ASSUME TypeOK, Held, NEW s \in Sessions, NEW r \in Roles,
           NEW p \in PeerRecord, setPeer(s, r, p), UNCHANGED handler,
           p.conn = peers[s][r].conn,
           p.disconnectedAt = peers[s][r].disconnectedAt
    PROVE  Held' /\ peers' \in [Sessions -> [Roles -> PeerRecord]]
<1>1. \A t \in Sessions, q \in Roles :
         /\ peers'[t][q].conn = peers[t][q].conn
         /\ peers'[t][q].disconnectedAt = peers[t][q].disconnectedAt
  BY DEF setPeer, TypeOK
<1>2. \A c \in Conns : handler[c].pc \in Attached =>
         handler[c].sess \in Sessions /\ handler[c].role \in Roles
  BY DEF Held, Placed, WellPlaced, HandlerRecord
<1>3. HandlerHasSlot'
  BY <1>1, <1>2 DEF Held, SlotOwned, HandlerHasSlot, connected
<1>4. SlotHasHandler'
  BY <1>1 DEF Held, SlotOwned, SlotHasHandler, connected
<1>5. peers' \in [Sessions -> [Roles -> PeerRecord]]
  BY DEF setPeer, TypeOK
<1> QED BY <1>3, <1>4, <1>5 DEF Held, Placed, WellPlaced, SlotOwned

(* Relayed messages, tokens and drops preserve Inv.                       *)
LEMMA ServeInv ==
    ASSUME Inv, NEW c \in Conns,
           \/ Relay(c) \/ Drop(c) \/ EndSession(c)
           \/ \E t \in Tokens : RegisterReconnectToken(c, t)
    PROVE  Inv'
<1> DEFINE s == handler[c].sess
           r == handler[c].role
<1>1. TypeOK /\ Held
  BY InvHeld
<1>0. /\ handler[c] \in HandlerRecord /\ r \in Roles
      /\ handler[c].pc = "serving" => s \in Sessions
  BY <1>1 DEF Held, Placed, WellPlaced, HandlerRecord, Attached
<1> USE DEF hubVars, sessVars, connVars
<1>2. CASE Relay(c)
  <2>1. Held'
    BY <1>1, <1>2, IdleStep DEF Relay
  <2>2. lastActivity' \in [Sessions -> Nat]
    BY <1>1, <1>2 DEF Relay, TypeOK
  <2> QED BY <1>1, <1>2, <2>1, <2>2
          DEF Relay, Inv, TypeOK, Located, Held, Placed
<1>3. CASE Drop(c)
  <2>1. Held'
    BY <1>1, <1>3, IdleStep DEF Drop
  <2>2. told' \in [Conns -> Notices] /\ closed' \subseteq Conns
    BY <1>1, <1>3 DEF Drop, TypeOK, Notices
  <2> QED BY <1>1, <1>3, <2>1, <2>2
          DEF Drop, Inv, TypeOK, Located, Held, Placed
<1>4. CASE EndSession(c)
  <2> DEFINE o == connOf(s, otherRole(r))
             l == IF o = Nil THEN "endRemove" ELSE "endNotify"
             h == [handler[c] EXCEPT !.pc = l, !.other = o, !.ip = ipOf(o)]
  <2>1. handler[c].pc = "serving" /\ s \in Sessions
    BY <1>0, <1>4 DEF EndSession, reading
  <2>2. o \in Conns \cup {Nil} /\ ipOf(o) \in IPs \cup {Nil}
    BY <1>0, <1>1, <2>1, ConnOfTyped
  <2>3. become(c, h)
    BY <1>4 DEF EndSession
  <2>4. l \in Ending /\ (l = "endNotify" => o \in Conns)
    BY <2>2 DEF Ending
  <2> HIDE DEF o, l
  <2>5. /\ h \in HandlerRecord /\ h.pc = l /\ h.other = o
        /\ h.sess = s /\ h.role = r
    BY <1>0, <2>2, <2>4 DEF HandlerRecord, PCs, Attached
  <2> HIDE DEF h
  <2>6. WellPlaced(h)
    BY <2>1, <2>4, <2>5 DEF WellPlaced, Ending
  <2>7. /\ h.pc \in Attached /\ handler[c].pc \in Attached
        /\ In(h) /\ In(handler[c])
    BY <2>1, <2>4, <2>5 DEF Attached, In
  <2>8. SlotOwned'
    BY <1>1, <1>4, <2>3, <2>5, <2>7, QuietStep DEF EndSession, Held
  <2>9. Held'
    BY <1>1, <2>3, <2>5, <2>6, <2>8, BecomeTyped DEF Held
  <2> QED BY <1>1, <1>4, <2>9
          DEF EndSession, Inv, TypeOK, Located, Held, Placed
<1>5. ASSUME NEW t \in Tokens, RegisterReconnectToken(c, t) PROVE Inv'
  <2>1. s \in Sessions
    BY <1>0, <1>5 DEF RegisterReconnectToken, reading
  <2>2. Held' /\ peers' \in [Sessions -> [Roles -> PeerRecord]]
    <3>1. CASE UNCHANGED peers
      BY <1>1, <1>5, <3>1, IdleStep DEF RegisterReconnectToken, TypeOK
    <3>2. CASE setPeer(s, r, [peers[s][r] EXCEPT !.token = t])
      <4> DEFINE p == [peers[s][r] EXCEPT !.token = t]
      <4>1. peers[s][r] \in PeerRecord
        BY <1>0, <1>1, <2>1 DEF TypeOK
      <4>2. /\ p \in PeerRecord /\ p.conn = peers[s][r].conn
            /\ p.disconnectedAt = peers[s][r].disconnectedAt
        BY <4>1 DEF PeerRecord
      <4> HIDE DEF p
      <4> QED BY <1>0, <1>1, <1>5, <2>1, <3>2, <4>2, TokenStep
              DEF RegisterReconnectToken, p
    <3> QED BY <1>5, <3>1, <3>2 DEF RegisterReconnectToken
  <2> QED BY <1>1, <1>5, <2>2
          DEF RegisterReconnectToken, Inv, TypeOK, Located, Held, Placed
<1> QED BY <1>2, <1>3, <1>4, <1>5

(* EndSession preserves Inv: the ender keeps its slot.                    *)
LEMMA EndInv ==
    ASSUME Inv, NEW c \in Conns, EndNotify(c) \/ EndRelease(c) \/ EndRemove(c)
    PROVE  Inv'
<1>1. TypeOK /\ Held
  BY InvHeld
<1> USE DEF hubVars, sessVars, connVars
<1>2. CASE EndNotify(c)
  <2>1. Held'
    BY <1>1, <1>2, GotoStep DEF EndNotify, PCs, Attached, Ending, Joining
  <2>2. told' \in [Conns -> Notices]
    BY <1>1, <1>2, SendTyped DEF EndNotify, TypeOK, Notices
  <2>3. closed' \subseteq Conns
    BY <1>1, <1>2 DEF EndNotify, Held, Placed, WellPlaced, TypeOK
  <2> QED BY <1>1, <1>2, <2>1, <2>2, <2>3
          DEF EndNotify, Inv, TypeOK, Located, Held, Placed
<1>3. CASE EndRelease(c)
  <2>1. Held'
    BY <1>1, <1>3, GotoStep DEF EndRelease, PCs, Attached, Ending, Joining
  <2> QED BY <1>1, <1>3, <2>1, ReleaseTyped
          DEF EndRelease, Inv, TypeOK, Located, Held, Placed
<1>4. CASE EndRemove(c)
  <2>1. Held'
    BY <1>1, <1>4, KeepSlotStep DEF EndRemove, Attached, Ending
  <2>2. told' \in [Conns -> Notices]
    BY <1>1, <1>4 DEF EndRemove, TypeOK, Notices
  <2> QED BY <1>1, <1>4, <2>1, <2>2
          DEF EndRemove, Inv, TypeOK, Located, Held, Placed
<1> QED BY <1>2, <1>3, <1>4

(* HandleDisconnect preserves Inv: the slot it marks is its own.          *)
LEMMA LeaveInv ==
    ASSUME Inv, NEW c \in Conns,
           HandleDisconnect(c) \/ DisconnectRelease(c) \/ DisconnectNotify(c)
    PROVE  Inv'
<1>1. TypeOK /\ Held
  BY InvHeld
<1> USE DEF hubVars, sessVars, connVars
<1>2. CASE HandleDisconnect(c)
  <2> DEFINE s == handler[c].sess
             r == handler[c].role
             o == connOf(s, otherRole(r))
             h == [handler[c] EXCEPT !.pc = "release", !.other = o,
                                     !.ip = ipOf(peers[s][r].conn)]
             p == [peers[s][r] EXCEPT !.disconnectedAt = now]
  <2>1. /\ handler[c] \in HandlerRecord /\ r \in Roles /\ s \in Sessions
        /\ handler[c].pc = "serving" /\ handler[c].pc \in Attached
    BY <1>1, <1>2
    DEF HandleDisconnect, Held, Placed, WellPlaced, HandlerRecord, Attached
  <2>2. peers[s][r].conn = c /\ peers[s][r] \in PeerRecord
    BY <1>1, <2>1 DEF Held, SlotOwned, HandlerHasSlot, TypeOK
  <2>3. o \in Conns \cup {Nil} /\ ipOf(peers[s][r].conn) \in IPs \cup {Nil}
    BY <1>1, <2>1, <2>2, ConnOfTyped, ValuesAssumption DEF ipOf
  <2>4. c # Nil
    BY ValuesAssumption
  <2>5. become(c, h) /\ setPeer(s, r, p)
    BY <1>2, <2>2, <2>4 DEF HandleDisconnect, markDisconnected
  <2>6. p \in PeerRecord /\ p.disconnectedAt = now
    BY <1>1, <2>2 DEF PeerRecord, TypeOK
  <2> HIDE DEF o
  <2>7. h \in HandlerRecord /\ h.pc = "release" /\ h.sess = s
    BY <2>1, <2>3 DEF HandlerRecord, PCs, Leaving
  <2> HIDE DEF h, p
  <2>8. ~connected(p)
    BY <1>1, <2>6 DEF connected, Zero, TypeOK
  <2>9. ~In(h)
    BY <2>7 DEF In, Attached, Ending
  <2>10. WellPlaced(h)
    BY <2>1, <2>7 DEF WellPlaced
  <2>11. SlotOwned'
    BY <1>1, <2>1, <2>5, <2>6, <2>7, <2>8, <2>9, VacateStep DEF Held
  <2>12. Held'
    BY <1>1, <2>5, <2>7, <2>10, <2>11, BecomeTyped DEF Held
  <2>13. peers' \in [Sessions -> [Roles -> PeerRecord]]
    BY <1>1, <2>5, <2>6 DEF setPeer, TypeOK
  <2> QED BY <1>1, <1>2, <2>12, <2>13
          DEF HandleDisconnect, Inv, TypeOK, Located, Held, Placed
<1>3. CASE DisconnectRelease(c)
  <2>1. Held'
    BY <1>1, <1>3, GotoStep
    DEF DisconnectRelease, PCs, Attached, Ending, Leaving, Joining
  <2> QED BY <1>1, <1>3, <2>1, ReleaseTyped
          DEF DisconnectRelease, Inv, TypeOK, Located, Held, Placed
<1>4. CASE DisconnectNotify(c)
  <2>1. Held'
    BY <1>1, <1>4, FinishStep DEF DisconnectNotify, In, Attached, Ending
  <2>2. told' \in [Conns -> Notices]
    BY <1>1, <1>4, SendTyped DEF DisconnectNotify, TypeOK, Notices
  <2> QED BY <1>1, <1>4, <2>1, <2>2
          DEF DisconnectNotify, Inv, TypeOK, Located, Held, Placed
<1> QED BY <1>2, <1>3, <1>4

-----------------------------------------------------------------------------
(* The reaper and the clock.                                               *)

(* The reaper never touches a slot, only the registry and connections.     *)
LEMMA ReaperInv == ASSUME Inv, Reaper PROVE Inv'
<1>1. TypeOK /\ Held
  BY InvHeld
<1> USE DEF hubVars, sessVars, connVars
<1>2. reaper \in ReaperRecord /\ reapedOne \in ReaperRecord
  BY <1>1 DEF TypeOK, ReaperRecord, reapedOne, Resting, Notices
<1>3. Held'
  BY <1>1, IdleStep
  DEF Reaper, ReapStart, ReapNext, ReapSnapshot, ReapCloseHost,
      ReapReleaseHost, ReapCloseGuest, ReapReleaseGuest, ReapRemove,
      reapClose, reapRelease
<1>4. CASE ReapStart
  <2>1. reaper' \in ReaperRecord /\ reaper'.pc = "next"
    BY <1>1, <1>4 DEF ReapStart, Resting, ReaperRecord, TypeOK, Notices
  <2>2. /\ codes' \in [Codes -> [sess : Sessions \cup {Nil}, expiresAt : Nat]]
        /\ guesses' \in [IPs -> [count : Nat, windowStart : Nat]]
    BY <1>1, <1>4 DEF ReapStart, NoCode, NoBudget, TypeOK
  <2> QED BY <1>1, <1>3, <1>4, <2>1, <2>2
          DEF ReapStart, Inv, TypeOK, Located, Held, Placed
<1>5. CASE ReapNext
  <2>1. /\ reaper' \in ReaperRecord
        /\ reaper'.pc \notin {"idle", "next"} => reaper'.sess \in Sessions
    <3>1. CASE reaper' = Resting
      BY <3>1 DEF Resting, ReaperRecord, Notices
    <3>2. ASSUME NEW t \in reaper.ids,
                 reaper' = [reaper EXCEPT !.ids = @ \ {t}, !.sess = t,
                                          !.pc = "snapshot"]
          PROVE  reaper' \in ReaperRecord /\ reaper'.sess \in Sessions
      BY <1>2, <3>2 DEF ReaperRecord
    <3>3. ASSUME NEW t \in reaper.ids,
                 reaper' = [reaper EXCEPT !.ids = @ \ {t}]
          PROVE  reaper' \in ReaperRecord /\ reaper'.pc = reaper.pc
      BY <1>2, <3>3 DEF ReaperRecord
    <3> QED BY <1>5, <3>1, <3>2, <3>3 DEF ReapNext
  <2> QED BY <1>1, <1>3, <1>5, <2>1
          DEF ReapNext, Inv, TypeOK, Located, Held, Placed
<1>6. CASE ReapSnapshot
  <2>1. reaper.sess \in Sessions
    BY <1>6 DEF Inv, Located, ReapSnapshot
  <2>2. /\ connOf(reaper.sess, RoleHost) \in Conns \cup {Nil}
        /\ connOf(reaper.sess, RoleGuest) \in Conns \cup {Nil}
    BY <1>1, <2>1, ConnOfTyped DEF Roles
  <2>3. /\ reaper' \in ReaperRecord
        /\ reaper'.pc \notin {"idle", "next"} => reaper'.sess \in Sessions
    <3>1. CASE reaper' = reapedOne
      BY <1>2, <3>1 DEF reapedOne, Resting
    <3>2. ASSUME NEW why \in {"inactivity_timeout", "peer_timeout"},
                 reaper' = [reaper EXCEPT
                              !.pc = "closeHost",
                              !.host = connOf(reaper.sess, RoleHost),
                              !.guest = connOf(reaper.sess, RoleGuest),
                              !.reason = why]
          PROVE  reaper' \in ReaperRecord /\ reaper'.sess = reaper.sess
      BY <1>2, <2>2, <3>2 DEF ReaperRecord, Notices
    <3> QED BY <1>6, <2>1, <3>1, <3>2 DEF ReapSnapshot
  <2> QED BY <1>1, <1>3, <1>6, <2>3
          DEF ReapSnapshot, Inv, TypeOK, Located, Held, Placed
<1>7. CASE ReapCloseHost \/ ReapCloseGuest
  <2>1. /\ reaper' \in ReaperRecord
        /\ reaper'.pc \notin {"idle", "next"} => reaper'.sess \in Sessions
    BY <1>2, <1>7
    DEF ReapCloseHost, ReapCloseGuest, reapClose, ReaperRecord, Inv, Located
  <2>2. reaper.reason \in Notices /\ {reaper.host, reaper.guest} \subseteq
                                     Conns \cup {Nil}
    BY <1>2 DEF ReaperRecord
  <2>3. told' \in [Conns -> Notices] /\ closed' \subseteq Conns
    BY <1>1, <1>7, <2>2, SendTyped
    DEF ReapCloseHost, ReapCloseGuest, reapClose, TypeOK
  <2> QED BY <1>1, <1>3, <1>7, <2>1, <2>3
          DEF ReapCloseHost, ReapCloseGuest, reapClose, Inv, TypeOK, Located,
              Held, Placed
<1>8. CASE ReapReleaseHost \/ ReapReleaseGuest
  <2>1. /\ reaper' \in ReaperRecord
        /\ reaper'.pc \notin {"idle", "next"} => reaper'.sess \in Sessions
    BY <1>2, <1>8
    DEF ReapReleaseHost, ReapReleaseGuest, reapRelease, ReaperRecord, Inv,
        Located
  <2>2. ipCounts' \in [IPs -> Nat]
    BY <1>1, <1>8, ReleaseTyped
    DEF ReapReleaseHost, ReapReleaseGuest, reapRelease, TypeOK
  <2> QED BY <1>1, <1>3, <1>8, <2>1, <2>2
          DEF ReapReleaseHost, ReapReleaseGuest, reapRelease, Inv, TypeOK,
              Located, Held, Placed
<1>9. CASE ReapRemove
  <2>1. reaper' \in ReaperRecord /\ reaper'.pc = "next"
    BY <1>2, <1>9 DEF ReapRemove, reapedOne, Resting
  <2> QED BY <1>1, <1>3, <1>9, <2>1
          DEF ReapRemove, Inv, TypeOK, Located, Held, Placed
<1> QED BY <1>4, <1>5, <1>6, <1>7, <1>8, <1>9 DEF Reaper

(* Time passing preserves Inv.                                            *)
LEMMA ClockInv == ASSUME Inv, Tick \/ UNCHANGED vars PROVE Inv'
<1>1. TypeOK /\ Held
  BY InvHeld
<1>2. Held'
  BY <1>1, IdleStep DEF Tick, vars, sessVars
<1> QED BY <1>1, <1>2
        DEF Tick, vars, hubVars, sessVars, connVars, Inv, TypeOK, Located,
            Held, Placed

(* Inv is inductive.                                                      *)
LEMMA NextInv == Inv /\ [Next]_vars => Inv'
<1> SUFFICES ASSUME Inv, [Next]_vars PROVE Inv'
  OBVIOUS
<1>1. ASSUME NEW c \in Conns, Client(c) PROVE Inv'
  BY <1>1, CreateInv, JoinInv, ReconnectInv, ServeInv DEF Client
<1>2. ASSUME NEW c \in Conns, Handler(c) PROVE Inv'
  BY <1>2, CreateInv, AttachInv, ReconnectInv, EndInv, LeaveInv DEF Handler
<1> QED BY <1>1, <1>2, ReaperInv, ClockInv DEF Next

-----------------------------------------------------------------------------
(* Every field keeps its type; in particular no address is ever charged a  *)
(* negative number of sessions, although EndSession and the reaper release *)
(* some connections twice.                                                 *)
THEOREM TypeCorrect == Spec => []TypeOK
<1>1. Inv => TypeOK
  BY DEF Inv
<1> QED BY <1>1, InitInv, NextInv, PTL DEF Spec

(* Handlers and slots agree at all times, for any number of connections,   *)
(* in any interleaving of joins, reconnects, drops, ends and reaping.      *)
THEOREM SlotsOwned == Spec => []SlotOwned
<1>1. Inv => SlotOwned
  BY DEF Inv
<1> QED BY <1>1, InitInv, NextInv, PTL DEF Spec
-----------------------------------------------------------------------------
(* The charges of MaxSessionsPerIP, while no session is ended or reaped.   *)

(* Nobody ends a session, and no timeout passes before the clock stops.    *)
NothingEnds ==
    /\ "end_session" \notin Requests
    /\ MaxTime < SessionInactivityTimeout
    /\ MaxTime < ReconnectGracePeriod

ChargedAt == (Attached \ {"count", "recount"}) \cup {"release"}

(* A handler that ends no session, and releases its own address.           *)
Mild(c, h) ==
    /\ h.pc \notin Ending \cup {"ended"}
    /\ h.pc = "release" => h.ip = clientIP[c]

AllMild == \A c \in Conns : Mild(c, handler[c])

(* CountExact, and what makes the cardinality mean something.              *)
Counted ==
    \A i \in IPs : /\ IsFiniteSet(Charged(i))
                   /\ ipCounts[i] = Cardinality(Charged(i))

(* The reaper never gets past its snapshot.                                *)
NothingDue ==
    /\ now <= MaxTime /\ reaper.now <= MaxTime
    /\ reaper.pc \in {"idle", "next", "snapshot"}

CountInv == Inv /\ AllMild /\ Counted /\ NothingDue

Tallied == AllMild' /\ Counted'

(* One handler moves: its address is charged for it, or no longer, just    *)
(* when ipCounts says so.                                                  *)
LEMMA CountMove ==
    ASSUME CountInv, NEW c \in Conns, NEW h, become(c, h), Mild(c, h),
           \/ /\ h.pc \in ChargedAt <=> handler[c].pc \in ChargedAt
              /\ UNCHANGED ipCounts
           \/ /\ h.pc \in ChargedAt /\ handler[c].pc \notin ChargedAt
              /\ acquire(clientIP[c])
           \/ /\ h.pc \notin ChargedAt /\ handler[c].pc \in ChargedAt
              /\ release(clientIP[c])
    PROVE  Tallied
<1>1. /\ handler \in [Conns -> HandlerRecord] /\ ipCounts \in [IPs -> Nat]
      /\ clientIP[c] \in IPs
  BY ValuesAssumption DEF CountInv, Inv, TypeOK
<1>2. \A d \in Conns : handler'[d] = IF d = c THEN h ELSE handler[d]
  BY <1>1 DEF become
<1>3. AllMild'
  BY <1>2 DEF CountInv, AllMild, Mild
<1> DEFINE S(i) == {d \in Conns : clientIP[d] = i /\ handler[d].pc \in ChargedAt}
           T(i) == {d \in Conns : clientIP[d] = i /\ handler'[d].pc \in ChargedAt}
<1>4. \A i \in IPs : Charged(i) = S(i) /\ Charged(i)' = T(i)
  BY DEF Charged, ChargedAt
<1>5. \A i \in IPs : IsFiniteSet(S(i)) /\ ipCounts[i] = Cardinality(S(i))
  BY <1>4 DEF CountInv, Counted
<1>6. SUFFICES ASSUME NEW i \in IPs
               PROVE  IsFiniteSet(T(i)) /\ ipCounts'[i] = Cardinality(T(i))
  BY <1>3, <1>4 DEF Tallied, Counted
<1>7. CASE (h.pc \in ChargedAt <=> handler[c].pc \in ChargedAt)
           /\ UNCHANGED ipCounts
  <2>1. T(i) = S(i)
    BY <1>2, <1>7
  <2> QED BY <1>5, <1>7, <2>1
<1>8. CASE i # clientIP[c]
  <2>1. T(i) = S(i)
    BY <1>2, <1>8
  <2>2. ipCounts'[i] = ipCounts[i]
    BY <1>1, <1>8 DEF acquire, release
  <2> QED BY <1>5, <2>1, <2>2
<1>9. CASE /\ i = clientIP[c] /\ acquire(clientIP[c])
           /\ h.pc \in ChargedAt /\ handler[c].pc \notin ChargedAt
  <2>1. T(i) = S(i) \cup {c} /\ c \notin S(i)
    BY <1>2, <1>9
  <2>2. ipCounts'[i] = ipCounts[i] + 1
    BY <1>1, <1>9 DEF acquire
  <2> HIDE DEF S, T
  <2> QED BY <1>5, <2>1, <2>2, FS_AddElement
<1>10. CASE /\ i = clientIP[c] /\ release(clientIP[c])
            /\ h.pc \notin ChargedAt /\ handler[c].pc \in ChargedAt
  <2>1. T(i) = S(i) \ {c} /\ c \in S(i)
    BY <1>2, <1>10
  <2> HIDE DEF S, T
  <2>2. /\ IsFiniteSet(T(i)) /\ Cardinality(T(i)) = Cardinality(S(i)) - 1
        /\ Cardinality(S(i)) # 0
    BY <1>5, <2>1, FS_RemoveElement, FS_EmptySet
  <2>3. ipCounts[i] \in Nat /\ ipCounts[i] # 0
    BY <1>1, <1>5, <2>2
  <2>4. ipCounts'[i] = ipCounts[i] - 1
    BY <1>1, <1>10, <2>3 DEF release
  <2> QED BY <1>5, <2>2, <2>4
<1> QED BY <1>7, <1>8, <1>9, <1>10

(* No handler moves and no address is charged.                             *)
LEMMA CountIdle ==
    ASSUME CountInv, UNCHANGED <<handler, ipCounts>>
    PROVE  Tallied
BY DEF CountInv, Tallied, AllMild, Mild, Counted, Charged

(* A handler without a charge gives up, or goes on without one.            *)
LEMMA CountGoto ==
    ASSUME CountInv, NEW c \in Conns, NEW l,
           goto(c, l) \/ finish(c, l) \/ keepSlot(c, l),
           l \notin Ending \cup {"ended", "release"},
           \/ /\ l \in ChargedAt <=> handler[c].pc \in ChargedAt
              /\ UNCHANGED ipCounts
           \/ /\ l \in ChargedAt /\ handler[c].pc \notin ChargedAt
              /\ acquire(clientIP[c])
           \/ /\ l \notin ChargedAt /\ handler[c].pc \in ChargedAt
              /\ release(clientIP[c])
    PROVE  Tallied
<1>1. handler[c] \in HandlerRecord
  BY DEF CountInv, Inv, TypeOK
<1> DEFINE h1 == [handler[c] EXCEPT !.pc = l]
           h2 == [Fresh EXCEPT !.pc = l]
           h3 == [Fresh EXCEPT !.pc = l, !.sess = handler[c].sess,
                               !.role = handler[c].role]
<1>2. h1.pc = l /\ h2.pc = l /\ h3.pc = l
  BY <1>1 DEF HandlerRecord, Fresh
<1>3. become(c, h1) \/ become(c, h2) \/ become(c, h3)
  BY DEF goto, finish, keepSlot
<1> HIDE DEF h1, h2, h3
<1>4. Mild(c, h1) /\ Mild(c, h2) /\ Mild(c, h3)
  BY <1>2 DEF Mild
<1> QED BY <1>2, <1>3, <1>4, CountMove

(* What clients do.                                                        *)
LEMMA ClientCounts ==
    ASSUME CountInv, NothingEnds, NEW c \in Conns, Client(c)
    PROVE  Tallied
<1> USE DEF hubVars, sessVars, connVars
<1>1. "first" \notin ChargedAt /\ "rejected" \notin ChargedAt
      /\ "findHost" \notin ChargedAt /\ "reattach" \notin ChargedAt
      /\ "serving" \in ChargedAt /\ "rejected" \notin Ending
      /\ "findHost" \notin Ending /\ "reattach" \notin Ending
      /\ "serving" \notin Ending
  BY DEF ChargedAt, Attached, Ending
<1>2. ASSUME NEW code, reject(c, code), handler[c].pc = "first",
             UNCHANGED ipCounts
      PROVE  Tallied
  BY <1>1, <1>2, CountGoto DEF reject
<1>3. ASSUME NEW s, joinLookup(c, s), handler[c].pc = "first",
             UNCHANGED ipCounts
      PROVE  Tallied
  <2> DEFINE h == [Fresh EXCEPT !.pc = "findHost", !.sess = s,
                                !.role = RoleGuest]
  <2>1. h.pc = "findHost" /\ become(c, h)
    BY <1>3 DEF Fresh, joinLookup
  <2> HIDE DEF h
  <2>2. Mild(c, h)
    BY <1>1, <2>1 DEF Mild
  <2> QED BY <1>1, <1>3, <2>1, <2>2, CountMove
<1>4. CASE CreateSession(c) \/ CreateCodeSession(c)
  <2>1. PICK s : startSession(c, s)
    BY <1>4 DEF CreateSession, CreateCodeSession
  <2>2. handler[c].pc = "first" /\ acquire(clientIP[c])
    BY <1>4 DEF CreateSession, CreateCodeSession, firstMessage
  <2> DEFINE h == [Fresh EXCEPT !.pc = "serving", !.sess = s]
  <2>3. h.pc = "serving" /\ become(c, h)
    BY <2>1 DEF Fresh, startSession
  <2> HIDE DEF h
  <2>4. Mild(c, h)
    BY <1>1, <2>3 DEF Mild
  <2> QED BY <1>1, <2>2, <2>3, <2>4, CountMove
<1>5. CASE CreateRefused(c) \/ FirstMessageInvalid(c) \/ JoinByCodeBlocked(c)
  BY <1>2, <1>5
  DEF CreateRefused, FirstMessageInvalid, JoinByCodeBlocked, firstMessage
<1>6. ASSUME NEW s \in Sessions, JoinSession(c, s) PROVE Tallied
  BY <1>2, <1>3, <1>6 DEF JoinSession, firstMessage
<1>7. ASSUME NEW k \in Codes, JoinByCode(c, k) PROVE Tallied
  BY <1>2, <1>3, <1>7 DEF JoinByCode, firstMessage
<1>8. ASSUME NEW s \in Sessions, NEW r \in Roles, NEW t \in Tokens,
             Reconnect(c, s, r, t)
      PROVE  Tallied
  <2> DEFINE h == [Fresh EXCEPT !.pc = "reattach", !.sess = s, !.role = r,
                                !.token = t]
  <2>1. handler[c].pc = "first" /\ UNCHANGED ipCounts
    BY <1>8 DEF Reconnect, firstMessage
  <2>2. become(c, h) \/ \E code : reject(c, code)
    BY <1>8 DEF Reconnect
  <2>3. h.pc = "reattach"
    BY DEF Fresh
  <2> HIDE DEF h
  <2>4. Mild(c, h)
    BY <1>1, <2>3 DEF Mild
  <2> QED BY <1>1, <1>2, <2>1, <2>2, <2>3, <2>4, CountMove
<1>9. CASE Relay(c) \/ Drop(c) \/ \E t \in Tokens : RegisterReconnectToken(c, t)
  BY <1>9, CountIdle DEF Relay, Drop, RegisterReconnectToken
<1>10. ~EndSession(c)
  BY DEF EndSession, reading, NothingEnds
<1> QED BY <1>4, <1>5, <1>6, <1>7, <1>8, <1>9, <1>10 DEF Client

(* What handlers do on their own.                                          *)
LEMMA HandlerCounts ==
    ASSUME CountInv, NEW c \in Conns, Handler(c)
    PROVE  Tallied
<1> USE DEF hubVars, sessVars, connVars
<1>0. /\ handler[c] \in HandlerRecord /\ Mild(c, handler[c])
      /\ WellPlaced(handler[c]) /\ HandlerHasSlot
  BY DEF CountInv, Inv, TypeOK, AllMild, Located, SlotOwned
<1>1. /\ \A l \in {"first", "rejected", "findHost", "attach", "reattach",
                   "count", "recount", "notifyLeft", "done"} :
            l \notin ChargedAt \cup Ending \cup {"ended", "release"}
      /\ \A l \in {"pairHost", "pairGuest", "announce", "confirm",
                   "serving"} :
            l \in ChargedAt /\ l \notin Ending \cup {"ended", "release"}
      /\ "release" \in ChargedAt /\ "release" \notin Ending
  BY DEF ChargedAt, Attached, Ending
<1>2. ASSUME NEW code, reject(c, code), UNCHANGED ipCounts,
             handler[c].pc \in {"first", "findHost", "attach", "reattach"}
      PROVE  Tallied
  BY <1>1, <1>2, CountGoto DEF reject
<1>3. CASE FirstReadFails(c)
  BY <1>1, <1>3, CountGoto DEF FirstReadFails
<1>4. CASE AttachFindHost(c)
  <2> DEFINE h == [handler[c] EXCEPT !.pc = "attach",
                     !.other = connOf(handler[c].sess, RoleHost)]
  <2>1. h.pc = "attach"
    BY <1>0 DEF HandlerRecord
  <2>2. handler[c].pc = "findHost" /\ UNCHANGED ipCounts
        /\ (become(c, h) \/ \E code : reject(c, code))
    BY <1>4 DEF AttachFindHost
  <2> HIDE DEF h
  <2>3. Mild(c, h)
    BY <1>1, <2>1 DEF Mild
  <2> QED BY <1>1, <1>2, <2>1, <2>2, <2>3, CountMove
<1>5. CASE AttachGuest(c) \/ Reattach(c)
  <2>1. /\ handler[c].pc \in {"attach", "reattach"} /\ UNCHANGED ipCounts
        /\ \/ goto(c, "count") \/ goto(c, "recount")
           \/ \E code : reject(c, code)
    BY <1>5 DEF AttachGuest, Reattach
  <2> QED BY <1>1, <1>2, <2>1, CountGoto
<1>6. CASE AttachCount(c)
  BY <1>1, <1>6, CountGoto DEF AttachCount
<1>7. CASE ReattachCount(c)
  BY <1>1, <1>7, CountGoto DEF ReattachCount
<1>8. CASE PairHost(c) \/ PairGuest(c)
  BY <1>1, <1>8, CountGoto DEF PairHost, PairGuest
<1>9. CASE Announce(c) \/ ConfirmReconnect(c)
  BY <1>1, <1>9, CountGoto DEF Announce, ConfirmReconnect
<1>10. ~EndNotify(c) /\ ~EndRelease(c) /\ ~EndRemove(c)
  BY <1>0 DEF EndNotify, EndRelease, EndRemove, Mild, Ending
<1>11. CASE HandleDisconnect(c)
  <2> DEFINE s == handler[c].sess
             r == handler[c].role
             h == [handler[c] EXCEPT !.pc = "release",
                                     !.other = connOf(s, otherRole(r)),
                                     !.ip = ipOf(peers[s][r].conn)]
  <2>1. handler[c].pc = "serving" /\ UNCHANGED ipCounts /\ become(c, h)
    BY <1>11 DEF HandleDisconnect
  <2>2. peers[s][r].conn = c
    BY <1>0, <2>1 DEF HandlerHasSlot, Attached
  <2>3. ipOf(peers[s][r].conn) = clientIP[c]
    BY <2>2, ValuesAssumption DEF ipOf
  <2>4. h.pc = "release" /\ h.ip = clientIP[c]
    BY <1>0, <2>3 DEF HandlerRecord
  <2> HIDE DEF h
  <2>5. Mild(c, h)
    BY <1>1, <2>4 DEF Mild
  <2> QED BY <1>1, <2>1, <2>4, <2>5, CountMove
<1>12. CASE DisconnectRelease(c)
  <2>1. handler[c].pc = "release" /\ release(clientIP[c])
        /\ goto(c, "notifyLeft")
    BY <1>0, <1>12 DEF DisconnectRelease, Mild
  <2> QED BY <1>1, <2>1, CountGoto
<1>13. CASE DisconnectNotify(c)
  BY <1>1, <1>13, CountGoto DEF DisconnectNotify
<1> QED BY <1>3, <1>4, <1>5, <1>6, <1>7, <1>8, <1>9, <1>10, <1>11, <1>12,
           <1>13 DEF Handler

(* The reaper finds nothing to end, and releases nothing.                  *)
LEMMA ReaperCounts ==
    ASSUME CountInv, NothingEnds, Reaper \/ Tick \/ UNCHANGED vars
    PROVE  Tallied /\ NothingDue'
<1> USE DEF hubVars, sessVars, connVars
<1>1. /\ reaper \in ReaperRecord /\ now \in Nat /\ TypeOK /\ NothingDue
      /\ reaper.pc = "snapshot" => reaper.sess \in Sessions
  BY DEF CountInv, Inv, TypeOK, Located
<1>2. ConfigAssumption
  BY ConfigAssumption
<1>3. CASE ReapStart \/ ReapNext
  <2>1. UNCHANGED <<handler, ipCounts, now>>
    BY <1>3 DEF ReapStart, ReapNext
  <2>2. reaper'.now <= MaxTime /\ reaper'.pc \in {"idle", "next", "snapshot"}
    <3>1. CASE ReapStart
      BY <1>1, <3>1 DEF ReapStart, Resting, NothingDue
    <3>2. CASE ReapNext
      <4>1. Resting.now = 0 /\ Resting.pc = "idle"
        BY DEF Resting
      <4>2. reaper.now <= MaxTime /\ 0 <= MaxTime /\ reaper.pc = "next"
        <5>1. reaper.pc = "next"
          BY <3>2 DEF ReapNext
        <5>2. 0 <= MaxTime
          BY <1>2 DEF ConfigAssumption
        <5> QED BY <1>1, <5>1, <5>2 DEF NothingDue
      <4>3. CASE reaper' = Resting
        BY <4>1, <4>2, <4>3
      <4>4. ASSUME NEW s \in reaper.ids,
                   reaper' = IF s \in sessions
                             THEN [reaper EXCEPT !.ids = @ \ {s}, !.sess = s,
                                                 !.pc = "snapshot"]
                             ELSE [reaper EXCEPT !.ids = @ \ {s}]
            PROVE  /\ reaper'.now = reaper.now
                   /\ reaper'.pc \in {"next", "snapshot"}
        BY <1>1, <4>2, <4>4 DEF ReaperRecord
      <4> QED BY <3>2, <4>2, <4>3, <4>4 DEF ReapNext
    <3> QED BY <1>3, <3>1, <3>2
  <2> QED BY <1>1, <2>1, <2>2, CountIdle DEF NothingDue
<1>4. CASE ReapSnapshot
  <2> DEFINE s == reaper.sess
             t == reaper.now
  <2>1. s \in Sessions /\ t \in Nat /\ t <= MaxTime
    BY <1>1, <1>4 DEF ReapSnapshot, ReaperRecord, NothingDue
  <2>2. /\ lastActivity[s] \in Nat
        /\ \A r \in Roles : peers[s][r].disconnectedAt \in Nat \cup {Zero}
    BY <1>1, <2>1 DEF TypeOK, PeerRecord
  <2>3. ~idleExpired(s, t)
    BY <1>2, <2>1, <2>2 DEF idleExpired, NothingEnds, ConfigAssumption
  <2>4. \A r \in Roles : ~graceExpired(s, r, t)
    BY <1>2, <2>1, <2>2
    DEF graceExpired, connected, NothingEnds, ConfigAssumption
  <2>5. ~peerGone(s, t)
    BY <2>4 DEF peerGone, Roles
  <2>6. reaper' = reapedOne
    BY <1>4, <2>3, <2>5 DEF ReapSnapshot
  <2>7. reaper'.now = reaper.now /\ reaper'.pc = "next"
    BY <2>6 DEF reapedOne, Resting
  <2>8. UNCHANGED <<handler, ipCounts, now>>
    BY <1>4 DEF ReapSnapshot
  <2> QED BY <1>1, <2>7, <2>8, CountIdle DEF NothingDue
<1>5. /\ ~ReapCloseHost /\ ~ReapReleaseHost /\ ~ReapCloseGuest
      /\ ~ReapReleaseGuest /\ ~ReapRemove
  BY <1>1 DEF ReapCloseHost, ReapReleaseHost, ReapCloseGuest,
              ReapReleaseGuest, ReapRemove, reapClose, reapRelease,
              NothingDue
<1>6. CASE Tick
  <2>1. UNCHANGED <<handler, ipCounts, reaper>> /\ now' <= MaxTime
    BY <1>1, <1>2, <1>6 DEF Tick, ConfigAssumption
  <2> QED BY <1>1, <2>1, CountIdle DEF NothingDue
<1>7. CASE UNCHANGED vars
  <2>1. UNCHANGED <<handler, ipCounts, reaper, now>>
    BY <1>7 DEF vars
  <2> QED BY <1>1, <2>1, CountIdle DEF NothingDue
<1> QED BY <1>3, <1>4, <1>5, <1>6, <1>7 DEF Reaper

LEMMA InitCounts == Init => CountInv
<1> SUFFICES ASSUME Init PROVE CountInv
  OBVIOUS
<1>1. Inv
  BY InitInv
<1>2. \A c \in Conns : handler[c].pc = "first"
  BY DEF Init, Fresh
<1>3. AllMild
  BY <1>2 DEF AllMild, Mild, Ending
<1>4. \A i \in IPs : Charged(i) = {}
  BY <1>2 DEF Charged, Attached, Ending
<1>5. Counted
  BY <1>4, FS_EmptySet DEF Counted, Init
<1>6. NothingDue
  BY ConfigAssumption DEF NothingDue, Init, Resting
<1> QED BY <1>1, <1>3, <1>5, <1>6 DEF CountInv

LEMMA NextCounts ==
    ASSUME NothingEnds, CountInv, [Next]_vars
    PROVE  CountInv'
<1>1. Inv'
  BY NextInv DEF CountInv
<1>2. CASE \E c \in Conns : Client(c) \/ Handler(c)
  <2>1. Tallied
    BY <1>2, ClientCounts, HandlerCounts
  <2>2. UNCHANGED <<now, reaper>>
    <3>1. ASSUME NEW c \in Conns, Client(c) PROVE UNCHANGED <<now, reaper>>
      BY <3>1 DEF Client, CreateSession, CreateCodeSession, CreateRefused,
         FirstMessageInvalid, JoinSession, JoinByCodeBlocked, JoinByCode,
         Reconnect, Relay, RegisterReconnectToken, EndSession, Drop
    <3>2. ASSUME NEW c \in Conns, Handler(c) PROVE UNCHANGED <<now, reaper>>
      BY <3>2 DEF Handler, FirstReadFails, AttachFindHost, AttachGuest,
         AttachCount, PairHost, PairGuest, Reattach, ReattachCount, Announce,
         ConfirmReconnect, EndNotify, EndRelease, EndRemove,
         HandleDisconnect, DisconnectRelease, DisconnectNotify
    <3> QED BY <1>2, <3>1, <3>2
  <2> QED BY <1>1, <2>1, <2>2 DEF CountInv, NothingDue, Tallied
<1>3. CASE Reaper \/ Tick \/ UNCHANGED vars
  BY <1>1, <1>3, ReaperCounts DEF CountInv, Tallied
<1> QED BY <1>2, <1>3 DEF Next

(* While no session is ended or reaped, an address is charged exactly for  *)
(* its connections, for any number of them and any limit: joins, drops,    *)
(* refusals and reconnects lose and invent no charge.                      *)
THEOREM CountsExact ==
    ASSUME NothingEnds
    PROVE  Spec => []CountExact
<1>1. CountInv => CountExact
  BY DEF CountInv, Counted, CountExact
<1>2. CountInv /\ [Next]_vars => CountInv'
  BY NextCounts
<1> QED BY <1>1, <1>2, InitCounts, PTL DEF Spec

=============================================================================
