-------------------------- MODULE RelayCodesProofs --------------------------
(***************************************************************************)
(* Proofs about pairing codes, for any number of connections, sessions and *)
(* codes: a code is used once, until then it leads to the session it was   *)
(* issued for, and the guess budget bounds how fast codes are tried.       *)
(***************************************************************************)
EXTENDS RelayCodes, RelayRefinement, FiniteSetTheorems

(* A session was created: it has had a host.                               *)
Made(s) == peers[s][RoleHost].conn # Nil

CodesTyped ==
    /\ issued \in [Sessions -> [code : Codes \cup {Nil}, until : Nat]]
    /\ matched \in [Sessions -> SUBSET Conns]

(* A code in the map is the one its session was issued, with the same      *)
(* expiry, and nobody has used it.                                         *)
CodeIsIssued ==
    \A k \in Codes : codes[k].sess # Nil =>
        LET s == codes[k].sess IN
        /\ Made(s) /\ matched[s] = {}
        /\ issued[s].code = k /\ issued[s].until = codes[k].expiresAt

(* A session that was never created has no history.                        *)
NoHistory ==
    \A s \in Sessions : ~Made(s) => issued[s].code = Nil /\ matched[s] = {}

(* A code was used by at most one connection.                              *)
UsedOnce ==
    \A s \in Sessions : matched[s] = {} \/ \E c \in Conns : matched[s] = {c}

(* Whoever is told that a code is wrong is done.                           *)
WrongIsLast ==
    /\ \A c \in Conns : handler[c].pc = "first" => told[c] # "invalid_code"
    /\ reaper.reason # "invalid_code"

(* The inductive invariant.                                                *)
CodesInv ==
    /\ Inv /\ HostFirst
    /\ CodesTyped /\ CodeIsIssued /\ NoHistory /\ UsedOnce /\ WrongIsLast
    /\ CodeLeadsHome

-----------------------------------------------------------------------------
(* What the steps that are not about codes leave alone *)

(* Nobody is told that a code is wrong.                                    *)
Unblamed ==
    \A d \in Conns : told'[d] = "invalid_code" => told[d] = "invalid_code"

(* No handler starts anew.                                                 *)
NoneRestarts ==
    \A d \in Conns : handler'[d].pc = "first" => handler[d].pc = "first"

LEMMA SendUnblamed ==
    ASSUME TypeOK, NEW x, NEW m, m # "invalid_code", send(x, m)
    PROVE  Unblamed
BY DEF send, Unblamed, TypeOK

LEMMA BecomeMoves ==
    ASSUME TypeOK, NEW c \in Conns, NEW h, h.pc # "first", become(c, h)
    PROVE  NoneRestarts
BY DEF become, NoneRestarts, TypeOK

(* The helpers that move a handler.                                        *)
LEMMA HelperMoves ==
    ASSUME TypeOK, NEW c \in Conns, NEW l, l # "first",
           goto(c, l) \/ finish(c, l) \/ keepSlot(c, l)
    PROVE  NoneRestarts
<1>1. handler[c] \in HandlerRecord
  BY DEF TypeOK
<1> DEFINE h1 == [handler[c] EXCEPT !.pc = l]
           h2 == [Fresh EXCEPT !.pc = l]
           h3 == [Fresh EXCEPT !.pc = l, !.sess = handler[c].sess,
                               !.role = handler[c].role]
<1>2. h1.pc = l /\ h2.pc = l /\ h3.pc = l
  BY <1>1 DEF HandlerRecord, Fresh
<1>3. become(c, h1) \/ become(c, h2) \/ become(c, h3)
  BY DEF goto, finish, keepSlot
<1> HIDE DEF h1, h2, h3
<1> QED BY <1>2, <1>3, BecomeMoves

LEMMA RejectMoves ==
    ASSUME TypeOK, NEW c \in Conns, NEW code, code # "invalid_code",
           reject(c, code)
    PROVE  NoneRestarts /\ Unblamed
BY HelperMoves, SendUnblamed DEF reject

(* A step of one connection that uses and issues no code.                  *)
Aside == /\ NoneRestarts /\ Unblamed
         /\ UNCHANGED <<now, codes, reaper>>

LEMMA ClientAside ==
    ASSUME Inv, NEW c \in Conns, Client(c), ~CreateCodeSession(c),
           ~\E k \in Codes : JoinByCode(c, k)
    PROVE  Aside
<1> USE DEF hubVars, sessVars, connVars, Aside
<1>1. TypeOK /\ handler[c] \in HandlerRecord
  BY DEF Inv, TypeOK
<1>2. UNCHANGED told => Unblamed
  BY DEF Unblamed
<1>3. UNCHANGED handler => NoneRestarts
  BY DEF NoneRestarts
<1>4. told' = [told EXCEPT ![c] = "none"] => Unblamed
  BY <1>1 DEF Unblamed, TypeOK
<1>5. CASE CreateSession(c)
  <2>1. PICK s \in unmade : startSession(c, s)
    BY <1>5 DEF CreateSession
  <2>2. [Fresh EXCEPT !.pc = "serving", !.sess = s].pc # "first"
    BY DEF Fresh
  <2>3. NoneRestarts
    BY <1>1, <2>1, <2>2, BecomeMoves DEF startSession
  <2> QED BY <1>1, <1>5, <2>3, SendUnblamed DEF CreateSession
<1>6. CASE CreateRefused(c) \/ FirstMessageInvalid(c) \/ JoinByCodeBlocked(c)
  BY <1>1, <1>6, RejectMoves
  DEF CreateRefused, FirstMessageInvalid, JoinByCodeBlocked
<1>7. ASSUME NEW s \in Sessions, JoinSession(c, s) PROVE Aside
  <2>1. [Fresh EXCEPT !.pc = "findHost", !.sess = s,
                      !.role = RoleGuest].pc # "first"
    BY DEF Fresh
  <2>2. joinLookup(c, s) => NoneRestarts
    BY <1>1, <2>1, BecomeMoves DEF joinLookup
  <2> QED BY <1>1, <1>2, <1>7, <2>2, RejectMoves DEF JoinSession
<1>8. ASSUME NEW s \in Sessions, NEW r \in Roles, NEW t \in Tokens,
             Reconnect(c, s, r, t)
      PROVE  Aside
  <2> DEFINE h == [Fresh EXCEPT !.pc = "reattach", !.sess = s, !.role = r,
                                !.token = t]
  <2>1. h.pc # "first"
    BY DEF Fresh
  <2>2. become(c, h) => NoneRestarts
    BY <1>1, <2>1, BecomeMoves
  <2> QED BY <1>1, <1>2, <1>8, <2>2, RejectMoves DEF Reconnect
<1>9. CASE Relay(c) \/ \E t \in Tokens : RegisterReconnectToken(c, t)
  BY <1>2, <1>3, <1>9 DEF Relay, RegisterReconnectToken
<1>10. CASE EndSession(c)
  <2> DEFINE o == connOf(handler[c].sess, otherRole(handler[c].role))
             h == [handler[c] EXCEPT
                     !.pc = IF o = Nil THEN "endRemove" ELSE "endNotify",
                     !.other = o, !.ip = ipOf(o)]
  <2>1. h.pc # "first"
    BY <1>1 DEF HandlerRecord
  <2>2. become(c, h)
    BY <1>10 DEF EndSession
  <2> HIDE DEF h
  <2> QED BY <1>1, <1>2, <1>10, <2>1, <2>2, BecomeMoves DEF EndSession
<1>11. CASE Drop(c)
  BY <1>3, <1>4, <1>11 DEF Drop
<1> QED BY <1>5, <1>6, <1>7, <1>8, <1>9, <1>10, <1>11 DEF Client

LEMMA HandlerAside ==
    ASSUME Inv, NEW c \in Conns, Handler(c)
    PROVE  Aside
<1> USE DEF hubVars, sessVars, connVars, Aside
<1>1. TypeOK /\ handler[c] \in HandlerRecord
  BY DEF Inv, TypeOK
<1>2. UNCHANGED told => Unblamed
  BY DEF Unblamed
<1>3. told' = [told EXCEPT ![c] = "none"] => Unblamed
  BY <1>1 DEF Unblamed, TypeOK
<1>4. CASE AttachFindHost(c)
  <2> DEFINE h == [handler[c] EXCEPT !.pc = "attach",
                     !.other = connOf(handler[c].sess, RoleHost)]
  <2>1. h.pc # "first"
    BY <1>1 DEF HandlerRecord
  <2>2. become(c, h) => NoneRestarts
    BY <1>1, <2>1, BecomeMoves
  <2> QED BY <1>1, <1>2, <1>4, <2>2, RejectMoves DEF AttachFindHost
<1>5. CASE FirstReadFails(c) \/ AttachCount(c) \/ ReattachCount(c)
           \/ EndRelease(c) \/ DisconnectRelease(c)
  BY <1>1, <1>2, <1>5, HelperMoves
  DEF FirstReadFails, AttachCount, ReattachCount, EndRelease,
      DisconnectRelease
<1>6. CASE AttachGuest(c) \/ Reattach(c)
  BY <1>1, <1>2, <1>6, HelperMoves, RejectMoves DEF AttachGuest, Reattach
<1>7. CASE PairHost(c) \/ PairGuest(c) \/ Announce(c) \/ ConfirmReconnect(c)
           \/ EndNotify(c) \/ DisconnectNotify(c)
  BY <1>1, <1>7, HelperMoves, SendUnblamed
  DEF PairHost, PairGuest, Announce, ConfirmReconnect, EndNotify,
      DisconnectNotify
<1>8. CASE EndRemove(c)
  BY <1>1, <1>3, <1>8, HelperMoves DEF EndRemove
<1>9. CASE HandleDisconnect(c)
  <2> DEFINE s == handler[c].sess
             r == handler[c].role
             h == [handler[c] EXCEPT !.pc = "release",
                                     !.other = connOf(s, otherRole(r)),
                                     !.ip = ipOf(peers[s][r].conn)]
  <2>1. h.pc # "first"
    BY <1>1 DEF HandlerRecord
  <2>2. become(c, h)
    BY <1>9 DEF HandleDisconnect
  <2> HIDE DEF h
  <2> QED BY <1>1, <1>2, <1>9, <2>1, <2>2, BecomeMoves DEF HandleDisconnect
<1> QED BY <1>4, <1>5, <1>6, <1>7, <1>8, <1>9 DEF Handler

(* The reaper and the clock: only an expired code is dropped, and time     *)
(* does not go back.                                                       *)
LEMMA ReaperAside ==
    ASSUME Inv, WrongIsLast, Reaper \/ Tick \/ UNCHANGED vars
    PROVE  /\ NoneRestarts /\ Unblamed
           /\ reaper'.reason # "invalid_code"
           /\ now' \in Nat /\ now <= now'
           /\ \A k \in Codes :
                 \/ codes'[k] = codes[k]
                 \/ codes'[k].sess = Nil /\ codeExpired(k, now)
<1> USE DEF hubVars, sessVars, connVars
<1>1. TypeOK /\ reaper \in ReaperRecord /\ reaper.reason # "invalid_code"
  BY DEF Inv, TypeOK, WrongIsLast
<1>2. UNCHANGED handler
  BY DEF Reaper, ReapStart, ReapNext, ReapSnapshot, ReapCloseHost,
         ReapReleaseHost, ReapCloseGuest, ReapReleaseGuest, ReapRemove,
         reapClose, reapRelease, Tick, vars
<1>3. NoneRestarts
  BY <1>2 DEF NoneRestarts
<1>4. Unblamed
  <2>1. UNCHANGED told => Unblamed
    BY DEF Unblamed
  <2>2. UNCHANGED told \/ \E x : send(x, reaper.reason)
    BY DEF Reaper, ReapStart, ReapNext, ReapSnapshot, ReapCloseHost,
           ReapReleaseHost, ReapCloseGuest, ReapReleaseGuest, ReapRemove,
           reapClose, reapRelease, Tick, vars
  <2> QED BY <1>1, <2>1, <2>2, SendUnblamed
<1>5. reaper'.reason # "invalid_code"
  <2>0. Resting.reason = "none" /\ reapedOne.reason = "none"
    BY DEF Resting, reapedOne
  <2>1. CASE ReapStart \/ ReapNext \/ ReapSnapshot \/ ReapRemove
    <3>1. CASE ReapStart
      BY <3>1 DEF ReapStart, Resting
    <3>2. CASE ReapNext
      BY <1>1, <2>0, <3>2 DEF ReapNext, ReaperRecord
    <3>3. CASE ReapSnapshot
      BY <1>1, <2>0, <3>3 DEF ReapSnapshot, ReaperRecord
    <3>4. CASE ReapRemove
      BY <2>0, <3>4 DEF ReapRemove
    <3> QED BY <2>1, <3>1, <3>2, <3>3, <3>4
  <2>2. CASE ReapCloseHost \/ ReapReleaseHost \/ ReapCloseGuest
             \/ ReapReleaseGuest
    BY <1>1, <2>2
    DEF ReapCloseHost, ReapReleaseHost, ReapCloseGuest, ReapReleaseGuest,
        reapClose, reapRelease, ReaperRecord
  <2>3. CASE Tick \/ UNCHANGED vars
    BY <1>1, <2>3 DEF Tick, vars
  <2> QED BY <2>1, <2>2, <2>3 DEF Reaper
<1>6. now' \in Nat /\ now <= now'
  <2>1. now' = now \/ now' = now + 1
    BY DEF Reaper, ReapStart, ReapNext, ReapSnapshot, ReapCloseHost,
           ReapReleaseHost, ReapCloseGuest, ReapReleaseGuest, ReapRemove,
           reapClose, reapRelease, Tick, vars
  <2> QED BY <1>1, <2>1 DEF TypeOK
<1>7. \A k \in Codes : \/ codes'[k] = codes[k]
                       \/ codes'[k].sess = Nil /\ codeExpired(k, now)
  <2>1. CASE ReapStart
    BY <2>1 DEF ReapStart, NoCode
  <2>2. CASE UNCHANGED codes
    BY <2>2
  <2> QED BY <2>1, <2>2
    DEF Reaper, ReapNext, ReapSnapshot, ReapCloseHost, ReapReleaseHost,
        ReapCloseGuest, ReapReleaseGuest, ReapRemove, reapClose,
        reapRelease, Tick, vars
<1> QED BY <1>3, <1>4, <1>5, <1>6, <1>7

-----------------------------------------------------------------------------
(* Codes are issued, used and dropped *)

(* A session stays made, whatever happens.                                 *)
LEMMA MadeStays ==
    ASSUME Inv, HostFirst, [Next]_vars
    PROVE  Inv' /\ HostFirst' /\ \A s \in Sessions : Made(s) => Made(s)'
<1>1. Inv' /\ Simulated
  BY NextInv, NextSim
<1>2. {s \in Sessions : Made(s)} \subseteq {s \in Sessions : Made(s)}'
  BY <1>1 DEF Simulated, SlotStep, Abstract!SlotNext, Abstract!slotVars,
              Abstract!TurnAway, Abstract!Create, Abstract!Enter,
              Abstract!Vacate, Made
<1> QED BY <1>1, <1>2 DEF Simulated

(* A step that issues and uses no code, and drops only expired ones.       *)
LEMMA AsideStep ==
    ASSUME CodesInv, [Next]_vars, UNCHANGED codeVars,
           NoneRestarts, Unblamed, reaper'.reason # "invalid_code",
           now' \in Nat, now <= now',
           \A k \in Codes : \/ codes'[k] = codes[k]
                            \/ codes'[k].sess = Nil /\ codeExpired(k, now)
    PROVE  CodesInv'
<1> USE DEF CodesInv, codeVars
<1>1. /\ Inv' /\ HostFirst' /\ \A s \in Sessions : Made(s) => Made(s)'
  BY MadeStays
<1>2. /\ now \in Nat
      /\ codes \in [Codes -> [sess : Sessions \cup {Nil}, expiresAt : Nat]]
  BY DEF Inv, TypeOK
<1>3. CodesTyped' /\ UsedOnce'
  BY DEF CodesTyped, UsedOnce
<1>4. CodeIsIssued'
  <2> SUFFICES ASSUME NEW j \in Codes, codes'[j].sess # Nil
               PROVE  LET t == codes'[j].sess IN
                      /\ peers'[t][RoleHost].conn # Nil /\ matched[t] = {}
                      /\ issued[t].code = j
                      /\ issued[t].until = codes'[j].expiresAt
    BY DEF CodeIsIssued, Made
  <2>1. codes'[j] = codes[j] /\ codes[j].sess \in Sessions
    BY <1>2
  <2>2. /\ Made(codes[j].sess) /\ matched[codes[j].sess] = {}
        /\ issued[codes[j].sess].code = j
        /\ issued[codes[j].sess].until = codes[j].expiresAt
    BY <2>1 DEF CodeIsIssued
  <2>3. peers'[codes[j].sess][RoleHost].conn # Nil
    BY <1>1, <2>1, <2>2 DEF Made
  <2> QED BY <2>1, <2>2, <2>3
<1>5. NoHistory'
  BY <1>1 DEF NoHistory, Made
<1>6. WrongIsLast'
  BY DEF WrongIsLast, NoneRestarts, Unblamed
<1>7. CodeLeadsHome'
  <2> SUFFICES ASSUME NEW s \in Sessions, issued[s].code # Nil,
                      matched[s] = {}, now' <= issued[s].until
               PROVE  codes'[issued[s].code].sess = s
    BY DEF CodeLeadsHome
  <2>1. issued[s].until \in Nat /\ issued[s].code \in Codes
    BY DEF CodesTyped
  <2>2. now <= issued[s].until
    BY <1>2, <2>1
  <2>3. codes[issued[s].code].sess = s
    BY <2>2 DEF CodeLeadsHome
  <2>4. codes[issued[s].code].expiresAt = issued[s].until
    BY <2>1, <2>3, ValuesAssumption DEF CodeIsIssued
  <2>5. ~codeExpired(issued[s].code, now)
    BY <1>2, <2>1, <2>2, <2>4 DEF codeExpired
  <2> QED BY <2>1, <2>3, <2>5
<1> QED BY <1>1, <1>3, <1>4, <1>5, <1>6, <1>7

(* CreateCodeSession: a fresh session and a code not in use.               *)
LEMMA IssueInv ==
    ASSUME CodesInv, NEW c \in Conns, Issue(c)
    PROVE  CodesInv'
<1> USE DEF CodesInv
<1>0. CreateCodeSession(c) /\ Next
  BY DEF Issue, Next, Client
<1>1. /\ Inv' /\ HostFirst' /\ \A s \in Sessions : Made(s) => Made(s)'
  BY <1>0, MadeStays
<1>2. /\ now \in Nat /\ PairingCodeTTL \in Nat /\ TypeOK
      /\ codes \in [Codes -> [sess : Sessions \cup {Nil}, expiresAt : Nat]]
  BY ConfigAssumption DEF Inv, TypeOK
<1>3. PICK s \in unmade, k \in Codes :
         /\ unusedCode(k) /\ startSession(c, s)
         /\ codes' = [codes EXCEPT ![k] =
                         [sess |-> s, expiresAt |-> now + PairingCodeTTL]]
  BY <1>0 DEF CreateCodeSession
<1>4. s \in Sessions /\ ~Made(s) /\ s \notin sessions /\ codes[k].sess = Nil
  BY <1>3 DEF unmade, Made, HostFirst, unusedCode
<1>5. sessions' \ sessions = {s}
  BY <1>3, <1>4 DEF startSession
<1>6. /\ codes'[k].sess = s /\ codes'[k].expiresAt = now + PairingCodeTTL
      /\ \A j \in Codes : j # k => codes'[j] = codes[j]
  BY <1>2, <1>3
<1>7. \A j \in Codes : codes[j].sess # s
  BY <1>4, ValuesAssumption DEF CodeIsIssued
<1>8. (CHOOSE j \in Codes : codes'[j].sess = s) = k
  BY <1>6, <1>7
<1>9. /\ issued'[s].code = k /\ issued'[s].until = now + PairingCodeTTL
      /\ \A t \in Sessions : t # s => issued'[t] = issued[t]
      /\ issued' \in [Sessions -> [code : Codes \cup {Nil}, until : Nat]]
      /\ UNCHANGED matched
  BY <1>2, <1>4, <1>5, <1>8 DEF Issue, CodesTyped
<1>10. Made(s)'
  BY <1>1, <1>3, <1>5 DEF HostFirst, Made
<1>11. CodesTyped' /\ UsedOnce'
  BY <1>9 DEF CodesTyped, UsedOnce
<1>12. CodeIsIssued'
  <2> SUFFICES ASSUME NEW j \in Codes, codes'[j].sess # Nil
               PROVE  LET t == codes'[j].sess IN
                      /\ peers'[t][RoleHost].conn # Nil /\ matched'[t] = {}
                      /\ issued'[t].code = j
                      /\ issued'[t].until = codes'[j].expiresAt
    BY DEF CodeIsIssued, Made
  <2>1. CASE j = k
    BY <1>4, <1>6, <1>9, <1>10, <2>1 DEF NoHistory, Made
  <2>2. CASE j # k
    <3>1. codes'[j] = codes[j] /\ codes[j].sess \in Sessions \ {s}
      BY <1>2, <1>6, <1>7, <2>2
    <3>2. /\ Made(codes[j].sess) /\ matched[codes[j].sess] = {}
          /\ issued[codes[j].sess].code = j
          /\ issued[codes[j].sess].until = codes[j].expiresAt
      BY <3>1 DEF CodeIsIssued
    <3>3. peers'[codes[j].sess][RoleHost].conn # Nil
      BY <1>1, <3>1, <3>2 DEF Made
    <3> QED BY <1>9, <3>1, <3>2, <3>3
  <2> QED BY <2>1, <2>2
<1>13. NoHistory'
  BY <1>1, <1>9, <1>10 DEF NoHistory, Made
<1>14. WrongIsLast'
  <2>1. NoneRestarts
    <3>1. [Fresh EXCEPT !.pc = "serving", !.sess = s].pc # "first"
      BY DEF Fresh
    <3> QED BY <1>2, <1>3, <3>1, BecomeMoves DEF startSession
  <2>2. Unblamed /\ UNCHANGED reaper
    BY <1>0, <1>2, SendUnblamed DEF CreateCodeSession
  <2> QED BY <2>1, <2>2 DEF WrongIsLast, NoneRestarts, Unblamed
<1>15. CodeLeadsHome'
  <2> SUFFICES ASSUME NEW t \in Sessions, issued'[t].code # Nil,
                      matched'[t] = {}, now' <= issued'[t].until
               PROVE  codes'[issued'[t].code].sess = t
    BY DEF CodeLeadsHome
  <2>1. CASE t = s
    BY <1>6, <1>9, <2>1
  <2>2. CASE t # s
    <3>1. now' = now
      BY <1>0 DEF CreateCodeSession
    <3>2. codes[issued[t].code].sess = t /\ issued[t].code \in Codes
      BY <1>9, <2>2, <3>1 DEF CodeLeadsHome, CodesTyped
    <3>3. issued[t].code # k
      BY <1>4, <3>2, ValuesAssumption
    <3> QED BY <1>6, <1>9, <2>2, <3>2, <3>3
  <2> QED BY <2>1, <2>2
<1> QED BY <1>1, <1>11, <1>12, <1>13, <1>14, <1>15

(* JoinByCode: the code is gone, and its session has been matched, unless  *)
(* it had expired.                                                         *)
LEMMA LookUpInv ==
    ASSUME CodesInv, NEW c \in Conns, NEW k \in Codes, LookUp(c, k)
    PROVE  CodesInv'
<1> USE DEF CodesInv
<1>0. JoinByCode(c, k) /\ Next
  BY DEF LookUp, Next, Client
<1>1. /\ Inv' /\ HostFirst' /\ \A s \in Sessions : Made(s) => Made(s)'
  BY <1>0, MadeStays
<1>2. /\ now \in Nat /\ TypeOK
      /\ codes \in [Codes -> [sess : Sessions \cup {Nil}, expiresAt : Nat]]
      /\ matched \in [Sessions -> SUBSET Conns]
  BY DEF Inv, TypeOK, CodesTyped
<1>3. /\ codes'[k].sess = Nil
      /\ \A j \in Codes : j # k => codes'[j] = codes[j]
      /\ UNCHANGED <<now, reaper, peers>>
  BY <1>0, <1>2 DEF JoinByCode, consume, NoCode, sessVars
<1>4. handler[c].pc = "first" /\ c \notin closed
  BY <1>0 DEF JoinByCode, firstMessage
<1> DEFINE wrong == told'[c] = "invalid_code"
<1>5. /\ wrong <=> ~codeMatches(k)
      /\ NoneRestarts
      /\ \A d \in Conns : d # c => told'[d] = told[d]
      /\ wrong => handler'[c].pc # "first"
  <2>1. ASSUME NEW code \in Notices, reject(c, code)
        PROVE  /\ told'[c] = code /\ NoneRestarts
               /\ handler'[c].pc # "first"
               /\ \A d \in Conns : d # c => told'[d] = told[d]
    <3>1. handler'[c] = [Fresh EXCEPT !.pc = "rejected"]
      BY <1>2, <2>1 DEF reject, finish, become, TypeOK
    <3>2. handler'[c].pc = "rejected"
      BY <3>1 DEF Fresh
    <3>3. NoneRestarts
      BY <1>2, <2>1, HelperMoves DEF reject
    <3> QED BY <1>2, <1>4, <2>1, <3>2, <3>3 DEF reject, send, TypeOK
  <2>2. ASSUME joinLookup(c, codes[k].sess), UNCHANGED connVars
        PROVE  /\ ~wrong /\ NoneRestarts
               /\ \A d \in Conns : d # c => told'[d] = told[d]
    <3>1. [Fresh EXCEPT !.pc = "findHost", !.sess = codes[k].sess,
                        !.role = RoleGuest].pc # "first"
      BY DEF Fresh
    <3>2. NoneRestarts
      BY <1>2, <2>2, <3>1, BecomeMoves DEF joinLookup
    <3> QED BY <1>4, <2>2, <3>2 DEF connVars, WrongIsLast
  <2> QED BY <1>0, <2>1, <2>2 DEF JoinByCode, Notices, Errors
<1>6. WrongIsLast'
  BY <1>3, <1>5 DEF WrongIsLast, NoneRestarts
<1> DEFINE s == codes[k].sess
<1>7. /\ \A t \in Sessions : matched'[t] = IF t = s /\ ~wrong
                                           THEN matched[t] \cup {c}
                                           ELSE matched[t]
      /\ matched' \in [Sessions -> SUBSET Conns]
      /\ UNCHANGED issued
  BY <1>2 DEF LookUp
<1>8. s # Nil => /\ s \in Sessions /\ Made(s) /\ matched[s] = {}
                 /\ issued[s].code = k
                 /\ issued[s].until = codes[k].expiresAt
  BY <1>2 DEF CodeIsIssued
<1>9. \A j \in Codes : j # k /\ codes[j].sess # Nil => codes[j].sess # s
  BY <1>8 DEF CodeIsIssued
<1> HIDE DEF wrong
<1>10. CodesTyped'
  BY <1>7 DEF CodesTyped
<1>11. UsedOnce'
  <2> SUFFICES ASSUME NEW t \in Sessions
               PROVE  matched'[t] = {} \/ \E d \in Conns : matched'[t] = {d}
    BY DEF UsedOnce
  <2>1. CASE t = s /\ ~wrong
    <3>1. matched'[t] = {c}
      BY <1>7, <1>8, <2>1, ValuesAssumption
    <3> QED BY <3>1
  <2>2. CASE ~(t = s /\ ~wrong)
    BY <1>7, <2>2 DEF UsedOnce
  <2> QED BY <2>1, <2>2
<1>12. CodeIsIssued'
  <2> SUFFICES ASSUME NEW j \in Codes, codes'[j].sess # Nil
               PROVE  LET t == codes'[j].sess IN
                      /\ peers'[t][RoleHost].conn # Nil /\ matched'[t] = {}
                      /\ issued'[t].code = j
                      /\ issued'[t].until = codes'[j].expiresAt
    BY DEF CodeIsIssued, Made
  <2>1. j # k /\ codes'[j] = codes[j] /\ codes[j].sess \in Sessions \ {s}
    BY <1>2, <1>3, <1>9
  <2>2. /\ Made(codes[j].sess) /\ matched[codes[j].sess] = {}
        /\ issued[codes[j].sess].code = j
        /\ issued[codes[j].sess].until = codes[j].expiresAt
    BY <2>1 DEF CodeIsIssued
  <2>3. peers'[codes[j].sess][RoleHost].conn # Nil
    BY <1>1, <2>1, <2>2 DEF Made
  <2> QED BY <1>7, <2>1, <2>2, <2>3
<1>13. NoHistory'
  BY <1>3, <1>7, <1>8, ValuesAssumption DEF NoHistory, Made
<1>14. CodeLeadsHome'
  <2> SUFFICES ASSUME NEW t \in Sessions, issued[t].code # Nil,
                      matched'[t] = {}, now <= issued[t].until
               PROVE  codes'[issued[t].code].sess = t
    BY <1>3, <1>7 DEF CodeLeadsHome
  <2>1. matched[t] = {}
    BY <1>7
  <2>2. codes[issued[t].code].sess = t /\ issued[t].code \in Codes
    BY <2>1 DEF CodeLeadsHome, CodesTyped
  <2>3. issued[t].code # k
    <3> SUFFICES ASSUME issued[t].code = k PROVE FALSE
      OBVIOUS
    <3>1. t = s /\ s # Nil
      BY <2>2, ValuesAssumption
    <3>2. codeMatches(k)
      <4>1. /\ issued[t].until \in Nat /\ codes[k].expiresAt = issued[t].until
        BY <1>8, <3>1 DEF CodesTyped
      <4> QED BY <1>2, <3>1, <4>1 DEF codeMatches, codeExpired
    <3>3. c \in matched'[t]
      BY <1>5, <1>7, <3>1, <3>2
    <3> QED BY <3>3
  <2> QED BY <1>3, <2>2, <2>3
<1> QED BY <1>1, <1>6, <1>10, <1>11, <1>12, <1>13, <1>14

-----------------------------------------------------------------------------
(* The guess budget *)

(* The z lookups w of an address are in order, up to time t.               *)
InOrder(w, z, t) ==
    /\ \A j \in 1..z : w[j] <= t
    /\ \A j, k \in 1..z : j <= k => w[j] <= w[k]

(* The first k of them are PairingCodeTTL older than t.                    *)
OldBy(w, k, t) == \A j \in 1..k : w[j] + PairingCodeTTL <= t

Spread(w, z) ==
    \A j \in 1..z - 2 * MaxPairingAttempts + 1 :
        w[j + 2 * MaxPairingAttempts - 1] - w[j] >= PairingCodeTTL

(* The budget counts the last n lookups, from the one at s that started    *)
(* its window, and what came a full budget before that is old.             *)
Budgeted(w, z, n, s, t) ==
    /\ n <= MaxPairingAttempts
    /\ n = 0 => OldBy(w, z - MaxPairingAttempts + 1, t)
    /\ n # 0 => /\ n <= z
                /\ w[z - n + 1] = s
                /\ OldBy(w, z - n - MaxPairingAttempts + 1, s)

Paced(w, n, s, t) ==
    /\ s <= t
    /\ InOrder(w, Len(w), t)
    /\ Budgeted(w, Len(w), n, s, t)
    /\ Spread(w, Len(w))

AllPaced ==
    \A i \in IPs :
        Paced(lookups[i], guesses[i].count, guesses[i].windowStart, now)

(* The inductive invariant of the guess history.                           *)
GuessInv ==
    /\ Inv /\ AllPaced
    /\ lookups \in [IPs -> Seq(Nat)]

LEMMA Sizes ==
    /\ MaxPairingAttempts \in Nat /\ MaxPairingAttempts >= 1
    /\ PairingCodeTTL \in Nat
BY ConfigAssumption

LEMMA OldLater ==
    ASSUME NEW w \in Seq(Nat), NEW k \in Int, k <= Len(w), NEW t \in Nat,
           NEW u \in Nat, t <= u, OldBy(w, k, t)
    PROVE  OldBy(w, k, u)
<1> SUFFICES ASSUME NEW j \in 1..k PROVE w[j] + PairingCodeTTL <= u
  BY DEF OldBy
<1>1. Len(w) \in Nat /\ j \in 1..Len(w)
  OBVIOUS
<1>2. w[j] \in Nat /\ w[j] + PairingCodeTTL <= t
  BY <1>1 DEF OldBy
<1> QED BY <1>2, Sizes

LEMMA PacedLater ==
    ASSUME NEW w \in Seq(Nat), NEW n \in Nat, NEW s \in Nat, NEW t \in Nat,
           Paced(w, n, s, t), NEW u \in Nat, t <= u
    PROVE  Paced(w, n, s, u)
<1>1. Len(w) \in Nat /\ \A j \in 1..Len(w) : w[j] \in Nat
  OBVIOUS
<1>2. InOrder(w, Len(w), u)
  BY <1>1 DEF Paced, InOrder
<1>3. Budgeted(w, Len(w), n, s, u)
  <2>1. /\ Len(w) - MaxPairingAttempts + 1 \in Int
        /\ Len(w) - MaxPairingAttempts + 1 <= Len(w)
    BY <1>1, Sizes
  <2>2. n = 0 => OldBy(w, Len(w) - MaxPairingAttempts + 1, u)
    BY <2>1, OldLater DEF Paced, Budgeted
  <2> QED BY <2>2 DEF Paced, Budgeted
<1> QED BY <1>2, <1>3 DEF Paced

(* A window that is over, whose budget is dropped.                         *)
LEMMA PacedPruned ==
    ASSUME NEW w \in Seq(Nat), NEW n \in Nat, NEW s \in Nat, NEW t \in Nat,
           Paced(w, n, s, t), n = 0 \/ t - s >= PairingCodeTTL,
           NEW r \in Nat, r <= t
    PROVE  Paced(w, 0, r, t)
<1> DEFINE z == Len(w)
           m == MaxPairingAttempts
<1>1. z \in Nat /\ m \in Nat /\ m >= 1 /\ PairingCodeTTL \in Nat
  BY Sizes
<1>2. OldBy(w, z - m + 1, t)
  <2>1. CASE n = 0
    BY <2>1 DEF Paced, Budgeted
  <2>2. CASE n # 0
    <3>1. n <= m /\ n <= z /\ w[z - n + 1] = s
      BY <2>2 DEF Paced, Budgeted
    <3>0. /\ \A j \in 1..z : w[j] \in Nat
          /\ \A j, k \in 1..z : j <= k => w[j] <= w[k]
      BY DEF Paced, InOrder
    <3> HIDE DEF z, m
    <3> SUFFICES ASSUME NEW j \in 1..z - m + 1
                 PROVE  w[j] + PairingCodeTTL <= t
      BY DEF OldBy
    <3>2. z - n + 1 \in 1..z /\ j \in 1..z /\ j <= z - n + 1
      BY <1>1, <2>2, <3>1
    <3>3. w[j] \in Nat /\ w[j] <= w[z - n + 1]
      BY <3>0, <3>2
    <3> QED BY <1>1, <2>2, <3>1, <3>3
  <2> QED BY <2>1, <2>2
<1>3. Budgeted(w, z, 0, r, t)
  BY <1>1, <1>2 DEF Budgeted
<1> QED BY <1>3 DEF Paced

(* A lookup charged to a budget that is not used up.                       *)
LEMMA PacedCharged ==
    ASSUME NEW w \in Seq(Nat), NEW n \in Nat, NEW s \in Nat, NEW t \in Nat,
           Paced(w, n, s, t), n < MaxPairingAttempts, n = 0 => s = t
    PROVE  Paced(Append(w, t), n + 1, s, t)
<1> DEFINE v == Append(w, t)
           z == Len(w)
           m == MaxPairingAttempts
<1>1. /\ z \in Nat /\ m \in Nat /\ m >= 1 /\ PairingCodeTTL \in Nat
      /\ n < m /\ m = MaxPairingAttempts
  BY Sizes
<1>2. /\ v \in Seq(Nat) /\ Len(v) = z + 1 /\ v[z + 1] = t
      /\ \A j \in 1..z : v[j] = w[j] /\ w[j] \in Nat
  OBVIOUS
<1>3. \A j \in 1..z : w[j] <= t
  BY DEF Paced, InOrder
<1>4. /\ s <= t
      /\ n # 0 => n <= z /\ w[z - n + 1] = s
  BY DEF Paced, Budgeted
<1>5. OldBy(w, z - n - m + 1, s)
  <2>1. CASE n = 0
    <3>1. OldBy(w, z - m + 1, t) /\ s = t
      BY <2>1 DEF Paced, Budgeted
    <3> HIDE DEF z, m
    <3>2. z - n - m + 1 = z - m + 1
      BY <1>1, <2>1
    <3> QED BY <3>1, <3>2
  <2>2. CASE n # 0
    BY <2>2 DEF Paced, Budgeted
  <2> QED BY <2>1, <2>2
<1>6. \A j, k \in 1..z : j <= k => w[j] <= w[k]
  BY DEF Paced, InOrder
<1>7. \A j \in 1..z - 2 * m + 1 : w[j + 2 * m - 1] - w[j] >= PairingCodeTTL
  BY DEF Paced, Spread
<1> HIDE DEF v, z, m
<1>8. \A j \in 1..z - n - m + 1 : j \in 1..z /\ w[j] + PairingCodeTTL <= s
  BY <1>1, <1>5 DEF OldBy
<1>9. InOrder(v, z + 1, t)
  <2>1. \A j \in 1..z + 1 : j \in 1..z \/ j = z + 1
    BY <1>1
  <2>2. ASSUME NEW j \in 1..z + 1 PROVE v[j] \in Nat /\ v[j] <= t
    <3>1. CASE j = z + 1
      BY <1>2, <3>1
    <3>2. CASE j \in 1..z
      BY <1>2, <1>3, <3>2
    <3> QED BY <2>1, <3>1, <3>2
  <2>3. ASSUME NEW j \in 1..z + 1, NEW k \in 1..z + 1, j <= k
        PROVE  v[j] <= v[k]
    <3>1. CASE k = z + 1
      BY <1>2, <2>2, <3>1
    <3>2. CASE k # z + 1
      <4>1. j \in 1..z /\ k \in 1..z
        BY <1>1, <2>3, <3>2
      <4> QED BY <1>2, <1>6, <2>3, <4>1
    <3> QED BY <3>1, <3>2
  <2> QED BY <2>2, <2>3 DEF InOrder
<1>10. Budgeted(v, z + 1, n + 1, s, t)
  <2>1. v[z + 1 - (n + 1) + 1] = s
    <3>1. z + 1 - (n + 1) + 1 = z - n + 1
      BY <1>1
    <3>2. CASE n = 0
      BY <1>1, <1>2, <3>1, <3>2
    <3>3. CASE n # 0
      <4>1. z - n + 1 \in 1..z
        BY <1>1, <1>4, <3>3
      <4> QED BY <1>2, <1>4, <3>1, <3>3, <4>1
    <3> QED BY <3>2, <3>3
  <2>2. OldBy(v, z + 1 - (n + 1) - m + 1, s)
    <3>1. z + 1 - (n + 1) - m + 1 = z - n - m + 1
      BY <1>1
    <3>2. OldBy(v, z - n - m + 1, s)
      BY <1>2, <1>8 DEF OldBy
    <3> QED BY <3>1, <3>2
  <2>3. n + 1 <= m /\ n + 1 # 0 /\ n + 1 <= z + 1
    BY <1>1, <1>4
  <2> QED BY <1>1, <2>1, <2>2, <2>3 DEF Budgeted
<1>11. Spread(v, z + 1)
  <2> SUFFICES ASSUME NEW j \in 1..z + 1 - 2 * m + 1
               PROVE  v[j + 2 * m - 1] - v[j] >= PairingCodeTTL
    BY <1>1 DEF Spread
  <2>1. CASE j = z + 2 - 2 * m
    <3>1. j \in 1..z - n - m + 1 /\ j + 2 * m - 1 = z + 1
      BY <1>1, <2>1
    <3>2. j \in 1..z /\ w[j] + PairingCodeTTL <= s
      BY <1>8, <3>1
    <3>3. v[j + 2 * m - 1] = t /\ v[j] = w[j] /\ w[j] \in Nat
      BY <1>2, <3>1, <3>2
    <3> QED BY <1>1, <1>4, <3>2, <3>3
  <2>2. CASE j # z + 2 - 2 * m
    <3>1. j \in 1..z - 2 * m + 1 /\ j \in 1..z /\ j + 2 * m - 1 \in 1..z
      BY <1>1, <2>2
    <3> QED BY <1>2, <1>7, <3>1
  <2> QED BY <2>1, <2>2
<1>12. Paced(v, n + 1, s, t)
  BY <1>2, <1>4, <1>9, <1>10, <1>11 DEF Paced
<1> QED BY <1>12 DEF v

(* checkAndRecordGuessLocked, when it accepts the attempt.                 *)
LEMMA LookUpPaced ==
    ASSUME GuessInv, NEW c \in Conns, NEW k \in Codes, LookUp(c, k)
    PROVE  AllPaced' /\ (lookups \in [IPs -> Seq(Nat)])'
<1> DEFINE a == clientIP[c]
           d == budget(a)
<1>1. /\ a \in IPs /\ now \in Nat /\ UNCHANGED now
      /\ mayGuess(a) /\ recordGuess(a)
      /\ guesses \in [IPs -> [count : Nat, windowStart : Nat]]
      /\ lookups \in [IPs -> Seq(Nat)]
      /\ lookups' = [lookups EXCEPT ![a] = Append(@, now)]
  BY ValuesAssumption DEF LookUp, JoinByCode, GuessInv, Inv, TypeOK
<1> DEFINE n == guesses[a].count
           s == guesses[a].windowStart
           w == lookups[a]
<1>2. Paced(w, n, s, now) /\ n \in Nat /\ s \in Nat /\ w \in Seq(Nat)
  BY <1>1 DEF GuessInv, AllPaced
<1>3. d \in [count : Nat, windowStart : Nat]
  BY <1>1 DEF budget
<1>4. /\ Paced(w, d.count, d.windowStart, now)
      /\ d.count = 0 => d.windowStart = now
      /\ d.count < MaxPairingAttempts
  <2>1. CASE n = 0 \/ windowOver(a, now)
    <3>1. d = [count |-> 0, windowStart |-> now]
      BY <2>1 DEF budget
    <3>2. d.count = 0 /\ d.windowStart = now
      BY <3>1
    <3>3. n = 0 \/ now - s >= PairingCodeTTL
      BY <2>1 DEF windowOver
    <3> HIDE DEF d, n, s, w
    <3>4. Paced(w, 0, now, now)
      BY <1>1, <1>2, <3>3, PacedPruned
    <3> QED BY <3>2, <3>4, Sizes
  <2>2. CASE ~(n = 0 \/ windowOver(a, now))
    <3>1. d = guesses[a]
      BY <2>2 DEF budget
    <3>2. d.count < MaxPairingAttempts
      BY <1>1 DEF mayGuess
    <3> QED BY <1>2, <2>2, <3>1, <3>2
  <2> QED BY <2>1, <2>2
<1>5. /\ guesses'[a] = [d EXCEPT !.count = @ + 1]
      /\ \A i \in IPs : i # a => guesses'[i] = guesses[i]
  BY <1>1 DEF recordGuess
<1> HIDE DEF d, n, s, w
<1>6. guesses'[a].count = d.count + 1 /\ guesses'[a].windowStart = d.windowStart
  BY <1>3, <1>5
<1>7. Paced(Append(w, now), d.count + 1, d.windowStart, now)
  <2>1. d.count \in Nat /\ d.windowStart \in Nat
    BY <1>3
  <2> QED BY <1>1, <1>2, <1>4, <2>1, PacedCharged
<1>8. Append(w, now) \in Seq(Nat)
  BY <1>1, <1>2
<1>9. /\ lookups'[a] = Append(w, now)
      /\ \A i \in IPs : i # a => lookups'[i] = lookups[i]
      /\ lookups' \in [IPs -> Seq(Nat)]
  BY <1>1, <1>8 DEF w
<1>10. ASSUME NEW i \in IPs
       PROVE  Paced(lookups'[i], guesses'[i].count, guesses'[i].windowStart,
                    now)
  <2>1. CASE i = a
    BY <1>6, <1>7, <1>9, <2>1, Zenon
  <2>2. CASE i # a
    BY <1>5, <1>9, <2>2, Zenon DEF GuessInv, AllPaced
  <2> QED BY <2>1, <2>2
<1> QED BY <1>1, <1>9, <1>10, Zenon DEF AllPaced

(* Nothing else charges a budget, and only the reaper drops one.           *)
LEMMA OthersPaced ==
    ASSUME GuessInv, [Next]_vars, ~isCodeStep \/ (\E c \in Conns : Issue(c)),
           UNCHANGED lookups
    PROVE  AllPaced'
<1>1. /\ now \in Nat
      /\ guesses \in [IPs -> [count : Nat, windowStart : Nat]]
      /\ lookups \in [IPs -> Seq(Nat)]
      /\ \A i \in IPs : /\ guesses[i].count \in Nat
                        /\ guesses[i].windowStart \in Nat
                        /\ lookups[i] \in Seq(Nat)
  BY DEF GuessInv, Inv, TypeOK
<1>2. ASSUME now' \in Nat, now <= now', UNCHANGED guesses
      PROVE  AllPaced'
  BY <1>1, <1>2, PacedLater DEF GuessInv, AllPaced
<1>3. CASE ReapStart
  <2> SUFFICES ASSUME NEW i \in IPs
               PROVE  Paced(lookups[i], guesses'[i].count,
                            guesses'[i].windowStart, now)
    BY <1>3 DEF AllPaced, ReapStart
  <2>1. Paced(lookups[i], guesses[i].count, guesses[i].windowStart, now)
    BY DEF GuessInv, AllPaced
  <2>2. CASE windowOver(i, now)
    <3>1. guesses'[i].count = 0 /\ guesses'[i].windowStart = 0
      BY <1>3, <2>2 DEF ReapStart, NoBudget
    <3>2. now - guesses[i].windowStart >= PairingCodeTTL
      BY <2>2 DEF windowOver
    <3>3. Paced(lookups[i], 0, 0, now)
      BY <1>1, <2>1, <3>2, PacedPruned
    <3> QED BY <3>1, <3>3
  <2>3. CASE ~windowOver(i, now)
    BY <1>3, <2>1, <2>3 DEF ReapStart
  <2> QED BY <2>2, <2>3
<1>4. CASE Tick
  <2>1. now' = now + 1 /\ UNCHANGED guesses
    BY <1>4 DEF Tick, hubVars
  <2> QED BY <1>1, <1>2, <2>1
<1>5. CASE UNCHANGED <<now, guesses>>
  BY <1>1, <1>2, <1>5
<1> USE DEF hubVars, sessVars, connVars
<1>6. ASSUME NEW c \in Conns, Client(c), ~\E k \in Codes : JoinByCode(c, k)
      PROVE  UNCHANGED <<now, guesses>>
  BY <1>6 DEF Client, CreateSession, CreateCodeSession, CreateRefused,
              FirstMessageInvalid, JoinByCodeBlocked, JoinSession, Reconnect,
              Relay, RegisterReconnectToken, EndSession, Drop
<1>7. ASSUME NEW c \in Conns, Handler(c)
      PROVE  UNCHANGED <<now, guesses>>
  BY <1>7 DEF Handler, AttachFindHost, FirstReadFails, AttachCount,
              ReattachCount, EndRelease, DisconnectRelease, AttachGuest,
              Reattach, PairHost, PairGuest, Announce, ConfirmReconnect,
              EndNotify, DisconnectNotify, EndRemove, HandleDisconnect
<1>8. CASE Reaper /\ ~ReapStart
  <2>1. UNCHANGED <<now, guesses>>
    BY <1>8 DEF Reaper, ReapNext, ReapSnapshot, ReapCloseHost,
                ReapReleaseHost, ReapCloseGuest, ReapReleaseGuest,
                ReapRemove, reapClose, reapRelease
  <2> QED BY <1>5, <2>1
<1>9. CASE \E c \in Conns : Issue(c)
  <2>1. UNCHANGED <<now, guesses>>
    BY <1>9 DEF Issue, CreateCodeSession
  <2> QED BY <1>5, <2>1
<1>10. CASE Next /\ ~isCodeStep
  BY <1>3, <1>4, <1>5, <1>6, <1>7, <1>8, <1>10 DEF Next, isCodeStep
<1>11. CASE UNCHANGED vars
  BY <1>5, <1>11 DEF vars
<1> QED BY <1>9, <1>10, <1>11

-----------------------------------------------------------------------------
(* The theorems *)

LEMMA InitCodesInv == CodesInit => CodesInv
<1> SUFFICES ASSUME CodesInit PROVE CodesInv
  OBVIOUS
<1>1. Inv /\ HostFirst
  BY InitInv, InitSim DEF CodesInit
<1>2. CodesTyped
  BY DEF CodesInit, CodesTyped
<1>3. CodeIsIssued
  BY DEF CodesInit, Init, CodeIsIssued, NoCode
<1>4. NoHistory /\ UsedOnce /\ CodeLeadsHome
  BY DEF CodesInit, NoHistory, UsedOnce, CodeLeadsHome
<1>5. WrongIsLast
  BY DEF CodesInit, Init, WrongIsLast, Resting
<1> QED BY <1>1, <1>2, <1>3, <1>4, <1>5 DEF CodesInv

LEMMA NextCodesInv == CodesInv /\ [CodesNext]_<<vars, codeVars>> => CodesInv'
<1> SUFFICES ASSUME CodesInv, [CodesNext]_<<vars, codeVars>> PROVE CodesInv'
  OBVIOUS
<1>1. CASE \E c \in Conns : Issue(c) \/ \E k \in Codes : LookUp(c, k)
  BY <1>1, IssueInv, LookUpInv
<1>2. CASE Next /\ ~isCodeStep /\ UNCHANGED codeVars
  <2>1. CASE \E c \in Conns : Client(c) \/ Handler(c)
    <3>1. Aside
      BY <1>2, <2>1, ClientAside, HandlerAside DEF isCodeStep, CodesInv
    <3>2. now' \in Nat /\ now <= now' /\ reaper'.reason # "invalid_code"
      BY <3>1 DEF Aside, CodesInv, Inv, TypeOK, WrongIsLast
    <3> QED BY <1>2, <3>1, <3>2, AsideStep DEF Aside
  <2>2. CASE Reaper \/ Tick
    <3>1. /\ NoneRestarts /\ Unblamed
          /\ reaper'.reason # "invalid_code"
          /\ now' \in Nat /\ now <= now'
          /\ \A k \in Codes :
                \/ codes'[k] = codes[k]
                \/ codes'[k].sess = Nil /\ codeExpired(k, now)
      BY <2>2, ReaperAside DEF CodesInv
    <3> QED BY <1>2, <3>1, AsideStep
  <2> QED BY <1>2, <2>1, <2>2 DEF Next
<1>3. CASE UNCHANGED <<vars, codeVars>>
  <2>1. /\ NoneRestarts /\ Unblamed
        /\ reaper'.reason # "invalid_code"
        /\ now' \in Nat /\ now <= now'
        /\ \A k \in Codes :
              \/ codes'[k] = codes[k]
              \/ codes'[k].sess = Nil /\ codeExpired(k, now)
    BY <1>3, ReaperAside DEF CodesInv
  <2> QED BY <1>3, <2>1, AsideStep
<1> QED BY <1>1, <1>2, <1>3 DEF CodesNext

(* A pairing code matches for one connection at most, for any number of    *)
(* hosts, guests and codes and any interleaving with the reaper.           *)
THEOREM CodesMatchOnce == CodesSpec => []CodeMatchesOnce
<1>1. CodesInv => CodeMatchesOnce
  <2>1. Cardinality({}) = 0 /\ \A c \in Conns : Cardinality({c}) = 1
    BY FS_EmptySet, FS_Singleton
  <2>2. ASSUME UsedOnce, NEW s \in Sessions
        PROVE  Cardinality(matched[s]) \in {0, 1}
    BY <2>1, <2>2 DEF UsedOnce
  <2> QED BY <2>2 DEF CodesInv, CodeMatchesOnce
<1> QED BY <1>1, InitCodesInv, NextCodesInv, PTL DEF CodesSpec

(* Until a code is used or expires it leads to the session it was issued   *)
(* for, for any number of sessions that share the code space.              *)
THEOREM CodesLeadHome == CodesSpec => []CodeLeadsHome
<1>1. CodesInv => CodeLeadsHome
  BY DEF CodesInv
<1> QED BY <1>1, InitCodesInv, NextCodesInv, PTL DEF CodesSpec

LEMMA NextGuessInv == GuessInv /\ [CodesNext]_<<vars, codeVars>> => GuessInv'
<1> SUFFICES ASSUME GuessInv, [CodesNext]_<<vars, codeVars>> PROVE GuessInv'
  OBVIOUS
<1>1. [Next]_vars
  BY DEF CodesNext, Issue, LookUp, Next, Client
<1>2. Inv'
  BY <1>1, NextInv DEF GuessInv
<1>3. CASE \E c \in Conns : \E k \in Codes : LookUp(c, k)
  BY <1>2, <1>3, LookUpPaced DEF GuessInv
<1>4. CASE ~\E c \in Conns : \E k \in Codes : LookUp(c, k)
  <2>1. UNCHANGED lookups
    BY <1>4 DEF CodesNext, Issue, codeVars
  <2>2. CASE ~isCodeStep \/ (\E c \in Conns : Issue(c))
    BY <1>1, <1>2, <2>1, <2>2, OthersPaced DEF GuessInv
  <2>3. CASE UNCHANGED vars
    <3>1. UNCHANGED <<guesses, now>>
      BY <2>3 DEF vars, hubVars
    <3> QED BY <1>2, <2>1, <3>1 DEF GuessInv, AllPaced
  <2> QED BY <1>4, <2>2, <2>3 DEF CodesNext
<1> QED BY <1>3, <1>4

(* Two full budgets of lookups of one address take PairingCodeTTL at       *)
(* least, for every budget, every window and any number of addresses and   *)
(* connections.                                                            *)
THEOREM GuessesAreRated == CodesSpec => []GuessRateBounded
<1>1. CodesInit => GuessInv
  <2> SUFFICES ASSUME CodesInit PROVE GuessInv
    OBVIOUS
  <2>1. Inv /\ now = 0
    BY InitInv DEF CodesInit, Init
  <2>2. <<>> \in Seq(Nat) /\ Len(<<>>) = 0
    OBVIOUS
  <2>3. lookups \in [IPs -> Seq(Nat)]
    BY <2>2 DEF CodesInit
  <2>4. Paced(<<>>, 0, 0, 0)
    <3>1. \A j \in 1..1 - MaxPairingAttempts : FALSE
      BY Sizes
    <3> QED BY <2>2, <3>1, Sizes
        DEF Paced, InOrder, Budgeted, OldBy, Spread
  <2>5. AllPaced
    BY <2>1, <2>4 DEF CodesInit, Init, AllPaced, NoBudget
  <2> QED BY <2>1, <2>3, <2>5 DEF GuessInv
<1>2. GuessInv => GuessRateBounded
  BY DEF GuessInv, AllPaced, Paced, Spread, GuessRateBounded
<1> QED BY <1>1, <1>2, NextGuessInv, PTL DEF CodesSpec

=============================================================================
