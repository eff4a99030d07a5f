------------------------------ MODULE RelayHub ------------------------------
(***************************************************************************)
(* The relay: the hub's registry, its two-slot sessions, the pairing codes *)
(* and per-IP limits, one handler goroutine per WebSocket connection, and  *)
(* the background reaper.                                                  *)
(*                                                                         *)
(*   server/internal/session/hub.go      Hub                               *)
(*   server/internal/session/session.go  Session, peer                     *)
(*   server/internal/ws/handler.go       ServeHTTP, beginSession           *)
(*                                                                         *)
(* A step is one critical section of h.mu or of a session's mu (or one     *)
(* message written to one connection), because that is where the           *)
(* goroutines interleave: every operation that releases a lock and goes on *)
(* with what it read is several steps here.  Reading the clock and taking  *)
(* the lock right after it are one step, except in ReapOnce, which reads   *)
(* the clock once for a whole scan.                                        *)
(*                                                                         *)
(* A session object outlives its entry in the registry: a handler that     *)
(* holds a *Session keeps using it after removeByID.                       *)
(***************************************************************************)
EXTENDS Integers, FiniteSets

CONSTANTS
    Conns,                     \* WebSocket connections, each served once
    Sessions,                  \* session IDs (random, never reused)
    Codes,                     \* pairing codes
    IPs,                       \* client addresses
    Tokens,                    \* reconnect tokens; Nil is the empty one
    Requests,                  \* bound: the messages clients send
    Nil,                       \* absent pointer, empty token, missing entry
    clientIP,                  \* [Conns -> IPs]
    MaxSessionsPerIP,
    SessionInactivityTimeout,
    ReconnectGracePeriod,
    PairingCodeTTL,
    MaxPairingAttempts,
    MaxTime                    \* bound: the clock stops here

(* What config.Load accepts: the two counts are positive, the durations    *)
(* are whatever the environment says (here: not negative).                 *)
ASSUME ConfigAssumption ==
    /\ MaxSessionsPerIP \in Nat \ {0}
    /\ MaxPairingAttempts \in Nat \ {0}
    /\ SessionInactivityTimeout \in Nat
    /\ ReconnectGracePeriod \in Nat
    /\ PairingCodeTTL \in Nat
    /\ MaxTime \in Nat

(* Every connection has an address, and Nil is none of the values.         *)
ASSUME ValuesAssumption ==
    /\ clientIP \in [Conns -> IPs]
    /\ Nil \notin Conns \cup Sessions \cup IPs

VARIABLES
    now,           \* the clock
    sessions,      \* Hub.sessions: the registered ones
    ipCounts,      \* Hub.ipCounts
    codes,         \* Hub.codes; .sess = Nil: no entry
    guesses,       \* Hub.guesses; .count = 0: no entry
    peers,         \* Session.peers; .conn = Nil: nil pointer
    lastActivity,  \* Session.lastActivity
    handler,       \* ServeHTTP's locals and its program counter
    closed,        \* connections closed by either end
    told,          \* the last message of the relay's own that a connection
                   \* got; "none" again once its client is gone
    reaper         \* ReapOnce's locals and its program counter

hubVars  == <<ipCounts, codes, guesses>>
sessVars == <<sessions, peers, lastActivity>>
connVars == <<closed, told>>
vars == <<now, hubVars, sessVars, handler, connVars, reaper>>

RoleHost  == "host"
RoleGuest == "guest"
Roles     == {RoleHost, RoleGuest}

otherRole(r) == IF r = RoleHost THEN RoleGuest ELSE RoleHost

Zero == -1         \* time.Time{}: the zero time, "connected"

(* ErrXxx as the wire codes errCode turns them into.                       *)
Errors  == {"invalid_message", "too_many_sessions", "session_not_found",
            "session_full", "invalid_code", "too_many_attempts",
            "invalid_reconnect_token"}
Notices == Errors \cup
           {"none", "session_created", "code_session_created", "paired",
            "reconnected", "peer_reconnected", "peer_disconnected",
            "ended_by_peer", "peer_timeout", "inactivity_timeout"}

(* Where a handler can be.  Attached: from the attach that gave it a slot  *)
(* to the markDisconnected (or explicit end) that gives it up.             *)
Joining  == {"findHost", "attach", "reattach"}
Ending   == {"endNotify", "endRelease", "endRemove"}
Attached == {"count", "pairHost", "pairGuest", "recount", "announce",
             "confirm", "serving"} \cup Ending
Leaving  == {"release", "notifyLeft"}
PCs      == {"first", "rejected", "ended", "done"} \cup Joining \cup Attached
            \cup Leaving

NoPeer   == [conn |-> Nil, disconnectedAt |-> Zero, token |-> Nil]
NoCode   == [sess |-> Nil, expiresAt |-> 0]
NoBudget == [count |-> 0, windowStart |-> 0]
Fresh    == [pc |-> "first", sess |-> Nil, role |-> RoleHost, token |-> Nil,
             other |-> Nil, ip |-> Nil]
Resting  == [pc |-> "idle", now |-> 0, ids |-> {}, sess |-> Nil,
             host |-> Nil, guest |-> Nil, reason |-> "none"]

Init ==
    /\ now = 0
    /\ sessions = {}
    /\ ipCounts = [i \in IPs |-> 0]
    /\ codes = [k \in Codes |-> NoCode]
    /\ guesses = [i \in IPs |-> NoBudget]
    /\ peers = [s \in Sessions |-> [r \in Roles |-> NoPeer]]
    /\ lastActivity = [s \in Sessions |-> 0]
    /\ handler = [c \in Conns |-> Fresh]
    /\ closed = {}
    /\ told = [c \in Conns |-> "none"]
    /\ reaper = Resting

-----------------------------------------------------------------------------
(* Helpers *)

connected(p) == p.conn # Nil /\ p.disconnectedAt = Zero

(* peer.ip: the address the peer's connection came from.                   *)
ipOf(conn) == IF conn = Nil THEN Nil ELSE clientIP[conn]

connOf(s, r) == IF connected(peers[s][r]) THEN peers[s][r].conn ELSE Nil

atLimit(ip) == ipCounts[ip] >= MaxSessionsPerIP

acquire(ip) == ipCounts' = [ipCounts EXCEPT ![ip] = @ + 1]

(* Mutant: the decrement without its guard.                                *)
release_unguarded(ip) ==
    ipCounts' = IF ip \in IPs THEN [ipCounts EXCEPT ![ip] = @ - 1]
                ELSE ipCounts

(* The guarded decrement of closeAndRelease and HandleDisconnect.          *)
release(ip) ==
    ipCounts' = IF ip \in IPs /\ ipCounts[ip] > 0
                THEN [ipCounts EXCEPT ![ip] = @ - 1] ELSE ipCounts

(* A write to a connection that is already closed fails and is ignored.    *)
send(c, m) ==
    told' = IF c \in Conns \ closed THEN [told EXCEPT ![c] = m] ELSE told

become(c, h) == handler' = [handler EXCEPT ![c] = h]

goto(c, l) == become(c, [handler[c] EXCEPT !.pc = l])

(* Where a call returns, the locals it no longer needs are forgotten.      *)
finish(c, l) == become(c, [Fresh EXCEPT !.pc = l])

keepSlot(c, l) ==
    become(c, [Fresh EXCEPT !.pc = l, !.sess = handler[c].sess,
                            !.role = handler[c].role])

setPeer(s, r, p) == peers' = [peers EXCEPT ![s][r] = p]

attach(s, r, c) ==
    /\ setPeer(s, r, [NoPeer EXCEPT !.conn = c])
    /\ lastActivity' = [lastActivity EXCEPT ![s] = now]

(* Reattach keeps the peer struct, and with it the token.                  *)
mayReattach(s, r, t) ==
    /\ peers[s][r].conn # Nil
    /\ ~connected(peers[s][r])
    /\ peers[s][r].token # Nil
    /\ peers[s][r].token = t

reattach(s, r, c) ==
    /\ setPeer(s, r, [peers[s][r] EXCEPT !.conn = c,
                                         !.disconnectedAt = Zero])
    /\ lastActivity' = [lastActivity EXCEPT ![s] = now]

(* sendError, then the deferred Close.                                     *)
reject(c, code) ==
    /\ finish(c, "rejected")
    /\ send(c, code)
    /\ closed' = closed \cup {c}

(* The connection is open and its first message has just been read.        *)
firstMessage(c, type) ==
    /\ type \in Requests
    /\ handler[c].pc = "first"
    /\ c \notin closed

(* Mutant: an ID is free again once its session is out of the registry.    *)
unmade_unregistered == Sessions \ sessions

(* IDs no session has been created under.                                  *)
unmade == {s \in Sessions : peers[s][RoleHost].conn = Nil}

-----------------------------------------------------------------------------
(* Starting a session: CreateSession, CreateCodeSession *)

startSession(c, s) ==
    /\ sessions' = sessions \cup {s}
    /\ attach(s, RoleHost, c)
    /\ become(c, [Fresh EXCEPT !.pc = "serving", !.sess = s])

CreateSession(c) ==
    /\ firstMessage(c, "create_session")
    /\ ~atLimit(clientIP[c])
    /\ \E s \in unmade : startSession(c, s)
    /\ acquire(clientIP[c])
    /\ send(c, "session_created")
    /\ UNCHANGED <<now, codes, guesses, closed, reaper>>

(* Mutant: the draw is not compared with the codes in use.                 *)
unusedCode_any(k) == TRUE

(* newUniqueCodeLocked: a code that is not in use.                         *)
unusedCode(k) == codes[k].sess = Nil

CreateCodeSession(c) ==
    /\ firstMessage(c, "create_code_session")
    /\ ~atLimit(clientIP[c])
    /\ \E s \in unmade, k \in {j \in Codes : unusedCode(j)} :
          /\ startSession(c, s)
          /\ codes' = [codes EXCEPT ![k] =
                          [sess |-> s, expiresAt |-> now + PairingCodeTTL]]
    /\ acquire(clientIP[c])
    /\ send(c, "code_session_created")
    /\ UNCHANGED <<now, guesses, closed, reaper>>

(* Both creators refuse an address at its limit.                           *)
CreateRefused(c) ==
    /\ \/ firstMessage(c, "create_session")
       \/ firstMessage(c, "create_code_session")
    /\ atLimit(clientIP[c])
    /\ reject(c, "too_many_sessions")
    /\ UNCHANGED <<now, hubVars, sessVars, reaper>>

(* A malformed first message; or newUniqueCodeLocked's draws all hit codes *)
(* in use, which errCode reports as invalid_message too.                   *)
FirstMessageInvalid(c) ==
    /\ \/ firstMessage(c, "malformed")
       \/ /\ firstMessage(c, "create_code_session")
          /\ ~atLimit(clientIP[c])
          /\ \E k \in Codes : ~unusedCode(k)
    /\ reject(c, "invalid_message")
    /\ UNCHANGED <<now, hubVars, sessVars, reaper>>

(* The connection drops before its first message.                          *)
FirstReadFails(c) ==
    /\ handler[c].pc = "first"
    /\ c \in closed
    /\ finish(c, "rejected")
    /\ UNCHANGED <<now, hubVars, sessVars, connVars, reaper>>

-----------------------------------------------------------------------------
(* Joining: JoinSession, JoinByCode, then attachGuest *)

joinLookup(c, s) ==
    become(c, [Fresh EXCEPT !.pc = "findHost", !.sess = s,
                            !.role = RoleGuest])

JoinSession(c, s) ==
    /\ firstMessage(c, "join")
    /\ \/ /\ s \notin sessions
          /\ reject(c, "session_not_found")
       \/ /\ s \in sessions
          /\ atLimit(clientIP[c])
          /\ reject(c, "too_many_sessions")
       \/ /\ s \in sessions
          /\ ~atLimit(clientIP[c])
          /\ joinLookup(c, s)
          /\ UNCHANGED connVars
    /\ UNCHANGED <<now, hubVars, sessVars, reaper>>

(* Mutant: the window ends one tick early.                                 *)
windowOver_early(ip, t) == t - guesses[ip].windowStart >= PairingCodeTTL - 1

(* checkAndRecordGuessLocked: the budget this attempt is charged to.       *)
windowOver(ip, t) == t - guesses[ip].windowStart >= PairingCodeTTL

budget(ip) ==
    IF guesses[ip].count = 0 \/ windowOver(ip, now)
    THEN [count |-> 0, windowStart |-> now] ELSE guesses[ip]

mayGuess(ip) == budget(ip).count < MaxPairingAttempts

recordGuess(ip) ==
    guesses' = [guesses EXCEPT ![ip] =
                  [budget(ip) EXCEPT !.count = @ + 1]]

codeExpired(k, t) == t > codes[k].expiresAt

codeMatches(k) == codes[k].sess # Nil /\ ~codeExpired(k, now)

(* Mutant: the match leaves the code in place.                             *)
consume_keeps(k) == UNCHANGED codes

(* Single use: looking a code up removes it, whatever comes of the join.   *)
consume(k) == codes' = [codes EXCEPT ![k] = NoCode]

JoinByCodeBlocked(c) ==
    /\ firstMessage(c, "join_by_code")
    /\ ~mayGuess(clientIP[c])
    /\ reject(c, "too_many_attempts")
    /\ UNCHANGED <<now, hubVars, sessVars, reaper>>

JoinByCode(c, k) ==
    /\ firstMessage(c, "join_by_code")
    /\ mayGuess(clientIP[c])
    /\ recordGuess(clientIP[c])
    /\ consume(k)
    /\ \/ /\ ~codeMatches(k)
          /\ reject(c, "invalid_code")
       \/ /\ codeMatches(k)
          /\ atLimit(clientIP[c])
          /\ reject(c, "too_many_sessions")
       \/ /\ codeMatches(k)
          /\ ~atLimit(clientIP[c])
          /\ codes[k].sess \notin sessions
          /\ reject(c, "session_not_found")
       \/ /\ codeMatches(k)
          /\ ~atLimit(clientIP[c])
          /\ codes[k].sess \in sessions
          /\ joinLookup(c, codes[k].sess)
          /\ UNCHANGED connVars
    /\ UNCHANGED <<now, ipCounts, sessVars, reaper>>

AttachFindHost(c) ==
    LET s == handler[c].sess IN
    /\ handler[c].pc = "findHost"
    /\ \/ /\ connOf(s, RoleHost) = Nil
          /\ reject(c, "session_not_found")
       \/ /\ connOf(s, RoleHost) # Nil
          /\ become(c, [handler[c] EXCEPT !.pc = "attach",
                                          !.other = connOf(s, RoleHost)])
          /\ UNCHANGED connVars
    /\ UNCHANGED <<now, hubVars, sessVars, reaper>>

(* Mutant: attach does not look who is in the slot.                        *)
slotFree_unchecked(s, r) == TRUE

(* Session.attach fails only over a connected peer.                        *)
slotFree(s, r) == ~connected(peers[s][r])

AttachGuest(c) ==
    LET s == handler[c].sess IN
    /\ handler[c].pc = "attach"
    /\ \/ /\ slotFree(s, RoleGuest)
          /\ attach(s, RoleGuest, c)
          /\ goto(c, "count")
          /\ UNCHANGED connVars
       \/ /\ ~slotFree(s, RoleGuest)
          /\ reject(c, "session_full")
          /\ UNCHANGED <<peers, lastActivity>>
    /\ UNCHANGED <<now, hubVars, sessions, reaper>>

AttachCount(c) ==
    /\ handler[c].pc = "count"
    /\ acquire(clientIP[c])
    /\ goto(c, "pairHost")
    /\ UNCHANGED <<now, codes, guesses, sessVars, connVars, reaper>>

PairHost(c) ==
    /\ handler[c].pc = "pairHost"
    /\ send(handler[c].other, "paired")
    /\ goto(c, "pairGuest")
    /\ UNCHANGED <<now, hubVars, sessVars, closed, reaper>>

PairGuest(c) ==
    /\ handler[c].pc = "pairGuest"
    /\ send(c, "paired")
    /\ keepSlot(c, "serving")
    /\ UNCHANGED <<now, hubVars, sessVars, closed, reaper>>

-----------------------------------------------------------------------------
(* Resuming: Reconnect *)

Reconnect(c, s, r, t) ==
    /\ firstMessage(c, "reconnect")
    /\ \/ /\ s \notin sessions
          /\ reject(c, "invalid_reconnect_token")
       \/ /\ s \in sessions
          /\ atLimit(clientIP[c])
          /\ reject(c, "too_many_sessions")
       \/ /\ s \in sessions
          /\ ~atLimit(clientIP[c])
          /\ become(c, [Fresh EXCEPT !.pc = "reattach", !.sess = s,
                                     !.role = r, !.token = t])
          /\ UNCHANGED connVars
    /\ UNCHANGED <<now, hubVars, sessVars, reaper>>

Reattach(c) ==
    LET s == handler[c].sess
        r == handler[c].role IN
    /\ handler[c].pc = "reattach"
    /\ \/ /\ mayReattach(s, r, handler[c].token)
          /\ reattach(s, r, c)
          /\ goto(c, "recount")
          /\ UNCHANGED connVars
       \/ /\ ~mayReattach(s, r, handler[c].token)
          /\ reject(c, "invalid_reconnect_token")
          /\ UNCHANGED <<peers, lastActivity>>
    /\ UNCHANGED <<now, hubVars, sessions, reaper>>

(* Mutant: a reconnect is not charged to its address.                      *)
ReattachCount_uncharged(c) ==
    /\ handler[c].pc = "recount"
    /\ goto(c, "announce")
    /\ UNCHANGED <<now, hubVars, sessVars, connVars, reaper>>

ReattachCount(c) ==
    /\ handler[c].pc = "recount"
    /\ acquire(clientIP[c])
    /\ goto(c, "announce")
    /\ UNCHANGED <<now, codes, guesses, sessVars, connVars, reaper>>

Announce(c) ==
    /\ handler[c].pc = "announce"
    /\ send(connOf(handler[c].sess, otherRole(handler[c].role)),
            "peer_reconnected")
    /\ goto(c, "confirm")
    /\ UNCHANGED <<now, hubVars, sessVars, closed, reaper>>

ConfirmReconnect(c) ==
    /\ handler[c].pc = "confirm"
    /\ send(c, "reconnected")
    /\ keepSlot(c, "serving")
    /\ UNCHANGED <<now, hubVars, sessVars, closed, reaper>>

-----------------------------------------------------------------------------
(* The read loop: relayed messages, reconnect_token, end_session, drops *)

reading(c, type) ==
    /\ type \in Requests
    /\ handler[c].pc = "serving"
    /\ c \notin closed

(* Relay refreshes the session; what it forwards is another module's.      *)
Relay(c) ==
    /\ reading(c, "relay")
    /\ lastActivity' = [lastActivity EXCEPT ![handler[c].sess] = now]
    /\ UNCHANGED <<now, hubVars, sessions, peers, handler, connVars,
                   reaper>>

RegisterReconnectToken(c, t) ==
    LET s == handler[c].sess
        r == handler[c].role IN
    /\ reading(c, "reconnect_token")
    /\ IF peers[s][r].conn = Nil THEN UNCHANGED peers
       ELSE setPeer(s, r, [peers[s][r] EXCEPT !.token = t])
    /\ UNCHANGED <<now, hubVars, sessions, lastActivity, handler,
                   connVars, reaper>>

EndSession(c) ==
    LET o == connOf(handler[c].sess, otherRole(handler[c].role)) IN
    /\ reading(c, "end_session")
    /\ become(c, [handler[c] EXCEPT
                     !.pc = IF o = Nil THEN "endRemove" ELSE "endNotify",
                     !.other = o,
                     !.ip = ipOf(o)])
    /\ UNCHANGED <<now, hubVars, sessVars, connVars, reaper>>

EndNotify(c) ==
    /\ handler[c].pc = "endNotify"
    /\ send(handler[c].other, "ended_by_peer")
    /\ closed' = closed \cup {handler[c].other}
    /\ goto(c, "endRelease")
    /\ UNCHANGED <<now, hubVars, sessVars, reaper>>

EndRelease(c) ==
    /\ handler[c].pc = "endRelease"
    /\ release(handler[c].ip)
    /\ goto(c, "endRemove")
    /\ UNCHANGED <<now, codes, guesses, sessVars, connVars, reaper>>

(* removeByID, then ServeHTTP returns without HandleDisconnect.            *)
EndRemove(c) ==
    /\ handler[c].pc = "endRemove"
    /\ sessions' = sessions \ {handler[c].sess}
    /\ keepSlot(c, "ended")
    /\ closed' = closed \cup {c}
    /\ told' = [told EXCEPT ![c] = "none"]
    /\ UNCHANGED <<now, hubVars, peers, lastActivity, reaper>>

markDisconnected(s, r) ==
    IF peers[s][r].conn = Nil THEN UNCHANGED peers
    ELSE setPeer(s, r, [peers[s][r] EXCEPT !.disconnectedAt = now])

(* The read fails; the deferred HandleDisconnect runs.                     *)
HandleDisconnect(c) ==
    LET s == handler[c].sess
        r == handler[c].role IN
    /\ handler[c].pc = "serving"
    /\ c \in closed
    /\ markDisconnected(s, r)
    /\ become(c, [handler[c] EXCEPT !.pc = "release",
                                    !.other = connOf(s, otherRole(r)),
                                    !.ip = ipOf(peers[s][r].conn)])
    /\ UNCHANGED <<now, hubVars, sessions, lastActivity, connVars,
                   reaper>>

DisconnectRelease(c) ==
    /\ handler[c].pc = "release"
    /\ release(handler[c].ip)
    /\ goto(c, "notifyLeft")
    /\ UNCHANGED <<now, codes, guesses, sessVars, connVars, reaper>>

DisconnectNotify(c) ==
    /\ handler[c].pc = "notifyLeft"
    /\ send(handler[c].other, "peer_disconnected")
    /\ finish(c, "done")
    /\ UNCHANGED <<now, hubVars, sessVars, closed, reaper>>

(* The client, the network or the ping loop closes the connection.  The    *)
(* handler notices at its next read, so a drop in the middle of a call is  *)
(* the drop that follows the call.                                         *)
Drop(c) ==
    /\ handler[c].pc \in {"first", "serving"}
    /\ c \notin closed
    /\ closed' = closed \cup {c}
    /\ told' = [told EXCEPT ![c] = "none"]
    /\ UNCHANGED <<now, hubVars, sessVars, handler, reaper>>

-----------------------------------------------------------------------------
(* The reaper: ReapOnce and reapSession *)

ReapStart ==
    /\ reaper.pc = "idle"
    /\ reaper' = [Resting EXCEPT !.pc = "next", !.now = now, !.ids = sessions]
    /\ codes' = [k \in Codes |->
                    IF codeExpired(k, now) THEN NoCode ELSE codes[k]]
    /\ guesses' = [i \in IPs |->
                    IF windowOver(i, now) THEN NoBudget ELSE guesses[i]]
    /\ UNCHANGED <<now, ipCounts, sessVars, handler, connVars>>

ReapNext ==
    /\ reaper.pc = "next"
    /\ \/ /\ reaper.ids = {}
          /\ reaper' = Resting
       \/ \E s \in reaper.ids :
             reaper' = IF s \in sessions
                       THEN [reaper EXCEPT !.ids = @ \ {s}, !.sess = s,
                                           !.pc = "snapshot"]
                       ELSE [reaper EXCEPT !.ids = @ \ {s}]
    /\ UNCHANGED <<now, hubVars, sessVars, handler, connVars>>

(* Back to ReapOnce's loop.                                                *)
reapedOne ==
    [Resting EXCEPT !.pc = "next", !.now = reaper.now, !.ids = reaper.ids]

idleExpired(s, t) == t - lastActivity[s] >= SessionInactivityTimeout

graceExpired(s, r, t) ==
    LET p == peers[s][r] IN
    /\ p.conn # Nil
    /\ ~connected(p)
    /\ t - p.disconnectedAt >= ReconnectGracePeriod

(* Mutant: only the host's disconnection is looked at.                     *)
peerGone_hostOnly(s, t) == graceExpired(s, RoleHost, t)

peerGone(s, t) == graceExpired(s, RoleHost, t) \/ graceExpired(s, RoleGuest, t)

ReapSnapshot ==
    LET s == reaper.sess
        idle == idleExpired(s, reaper.now)
        gone == peerGone(s, reaper.now) IN
    /\ reaper.pc = "snapshot"
    /\ reaper' = IF idle \/ gone
                 THEN [reaper EXCEPT
                         !.pc = "closeHost",
                         !.host = connOf(s, RoleHost),
                         !.guest = connOf(s, RoleGuest),
                         !.reason = IF idle THEN "inactivity_timeout"
                                    ELSE "peer_timeout"]
                 ELSE reapedOne
    /\ UNCHANGED <<now, hubVars, sessVars, handler, connVars>>

(* Send session_ended to, and close, one of the connections in the         *)
(* snapshot; its address is released in a critical section of its own.     *)
reapClose(from, conn, to, skip) ==
    /\ reaper.pc = from
    /\ \/ /\ conn = Nil
          /\ reaper' = [reaper EXCEPT !.pc = skip]
          /\ UNCHANGED connVars
       \/ /\ conn # Nil
          /\ send(conn, reaper.reason)
          /\ closed' = closed \cup {conn}
          /\ reaper' = [reaper EXCEPT !.pc = to]
    /\ UNCHANGED <<now, hubVars, sessVars, handler>>

reapRelease(from, conn, to) ==
    /\ reaper.pc = from
    /\ release(ipOf(conn))
    /\ reaper' = [reaper EXCEPT !.pc = to]
    /\ UNCHANGED <<now, codes, guesses, sessVars, handler, connVars>>

ReapCloseHost    == reapClose("closeHost", reaper.host, "releaseHost",
                              "closeGuest")
ReapReleaseHost  == reapRelease("releaseHost", reaper.host, "closeGuest")
ReapCloseGuest   == reapClose("closeGuest", reaper.guest, "releaseGuest",
                              "remove")
ReapReleaseGuest == reapRelease("releaseGuest", reaper.guest, "remove")

ReapRemove ==
    /\ reaper.pc = "remove"
    /\ sessions' = sessions \ {reaper.sess}
    /\ reaper' = reapedOne
    /\ UNCHANGED <<now, hubVars, peers, lastActivity, handler, connVars>>

-----------------------------------------------------------------------------

Tick ==
    /\ now < MaxTime
    /\ now' = now + 1
    /\ UNCHANGED <<hubVars, sessVars, handler, connVars, reaper>>

(* What a client decides: its first message, and what it sends later.      *)
Client(c) ==
    \/ CreateSession(c)
    \/ CreateCodeSession(c)
    \/ CreateRefused(c)
    \/ FirstMessageInvalid(c)
    \/ \E s \in Sessions : JoinSession(c, s)
    \/ JoinByCodeBlocked(c)
    \/ \E k \in Codes : JoinByCode(c, k)
    \/ \E s \in Sessions, r \in Roles, t \in Tokens :
          Reconnect(c, s, r, t)
    \/ Relay(c)
    \/ \E t \in Tokens : RegisterReconnectToken(c, t)
    \/ EndSession(c)
    \/ Drop(c)

(* What a handler goroutine does on its own once it has started.           *)
Handler(c) ==
    \/ FirstReadFails(c)
    \/ AttachFindHost(c)
    \/ AttachGuest(c)
    \/ AttachCount(c)
    \/ PairHost(c)
    \/ PairGuest(c)
    \/ Reattach(c)
    \/ ReattachCount(c)
    \/ Announce(c)
    \/ ConfirmReconnect(c)
    \/ EndNotify(c)
    \/ EndRelease(c)
    \/ EndRemove(c)
    \/ HandleDisconnect(c)
    \/ DisconnectRelease(c)
    \/ DisconnectNotify(c)

Reaper ==
    \/ ReapStart
    \/ ReapNext
    \/ ReapSnapshot
    \/ ReapCloseHost
    \/ ReapReleaseHost
    \/ ReapCloseGuest
    \/ ReapReleaseGuest
    \/ ReapRemove

Next == (\E c \in Conns : Client(c) \/ Handler(c)) \/ Reaper \/ Tick

Spec == Init /\ [][Next]_vars

(* Goroutines are scheduled, the ticker ticks and time passes; what a      *)
(* client sends, and when it drops, is up to the client.                   *)
Fairness ==
    /\ \A c \in Conns : WF_vars(Handler(c))
    /\ WF_vars(Reaper)
    /\ WF_vars(Tick)

FairSpec == Spec /\ Fairness

-----------------------------------------------------------------------------
(* Properties *)

PeerRecord ==
    [conn : Conns \cup {Nil}, disconnectedAt : Nat \cup {Zero},
     token : Tokens \cup {Nil}]

HandlerRecord ==
    [pc : PCs, sess : Sessions \cup {Nil}, role : Roles,
     token : Tokens \cup {Nil}, other : Conns \cup {Nil},
     ip : IPs \cup {Nil}]

ReaperRecord ==
    [pc : {"idle", "next", "snapshot", "closeHost", "releaseHost",
           "closeGuest", "releaseGuest", "remove"},
     now : Nat, ids : SUBSET Sessions, sess : Sessions \cup {Nil},
     host : Conns \cup {Nil}, guest : Conns \cup {Nil}, reason : Notices]

(* Every field holds a value of its type; in particular the guarded        *)
(* decrements keep ipCounts from going below zero however often a          *)
(* connection is released.                                                 *)
TypeOK ==
    /\ now \in Nat
    /\ sessions \subseteq Sessions
    /\ ipCounts \in [IPs -> Nat]
    /\ codes \in [Codes -> [sess : Sessions \cup {Nil}, expiresAt : Nat]]
    /\ guesses \in [IPs -> [count : Nat, windowStart : Nat]]
    /\ peers \in [Sessions -> [Roles -> PeerRecord]]
    /\ lastActivity \in [Sessions -> Nat]
    /\ handler \in [Conns -> HandlerRecord]
    /\ closed \subseteq Conns
    /\ told \in [Conns -> Notices]
    /\ reaper \in ReaperRecord

(* A handler that works on a session has one, a joiner is a guest, an      *)
(* EndSession that notifies has somebody to notify, and the reaper's scan  *)
(* has a session.                                                          *)
WellPlaced(h) ==
    /\ h.pc \in Joining \cup Attached \cup Leaving \cup {"ended"}
       => h.sess \in Sessions
    /\ h.pc \in {"findHost", "attach"} => h.role = RoleGuest
    /\ h.pc = "endNotify" => h.other \in Conns

Located ==
    /\ \A c \in Conns : WellPlaced(handler[c])
    /\ reaper.pc \notin {"idle", "next"} => reaper.sess \in Sessions

(* A handler past its attach sits, connected, in the slot it serves: no    *)
(* join, reconnect or disconnect of another connection has replaced it or  *)
(* marked it down.  HandleDisconnect relies on it: markDisconnected marks  *)
(* whoever is in the slot.                                                 *)
HandlerHasSlot ==
    \A c \in Conns : handler[c].pc \in Attached =>
        LET p == peers[handler[c].sess][handler[c].role] IN
        p.conn = c /\ connected(p)

(* A connected slot is the slot of a handler that is still at work, or of  *)
(* one that ended the session: EndSession leaves its own slot connected.   *)
SlotHasHandler ==
    \A s \in Sessions, r \in Roles : connected(peers[s][r]) =>
        LET h == handler[peers[s][r].conn] IN
        h.sess = s /\ h.role = r /\ h.pc \in Attached \cup {"ended"}

(* Slots and handlers agree, both ways.                                    *)
SlotOwned == HandlerHasSlot /\ SlotHasHandler

(* The relay implements SessionSlots: a slot's occupant is its live        *)
(* connection.                                                             *)
lifeOf(c) ==
    IF handler[c].pc \in {"first"} \cup Joining THEN "new"
    ELSE IF handler[c].pc \in Attached \cup {"ended"} THEN "in" ELSE "out"

Abstract == INSTANCE SessionSlots WITH
    occupant <- [s \in Sessions |-> [r \in Roles |-> connOf(s, r)]],
    opened   <- {s \in Sessions : peers[s][RoleHost].conn # Nil},
    life     <- [c \in Conns |-> lifeOf(c)]

ImplementsSessionSlots == Abstract!SlotSpec

(* The handlers whose address is charged one slot of MaxSessionsPerIP:     *)
(* from the increment in CreateSession, attachGuest or Reconnect to the    *)
(* decrement in HandleDisconnect.                                          *)
Charged(i) ==
    {c \in Conns : clientIP[c] = i /\
        handler[c].pc \in (Attached \ {"count", "recount"}) \cup {"release"}}

(* As long as no session is ended or reaped, an address is charged exactly *)
(* for the connections it has, across joins, drops and reconnects that     *)
(* overlap in any order.                                                   *)
CountExact == \A i \in IPs : ipCounts[i] = Cardinality(Charged(i))

(* An address with no connection left is charged for nothing.              *)
SlotsReturned ==
    \A i \in IPs :
        /\ reaper.pc = "idle"
        /\ \A c \in Conns : clientIP[c] = i =>
              handler[c].pc \in {"first", "rejected", "ended", "done"}
        => ipCounts[i] = 0

(* A session idle for the inactivity timeout, or with a peer gone for the  *)
(* grace period.                                                           *)
Expired(s) ==
    idleExpired(s, now) \/ \E r \in Roles : graceExpired(s, r, now)

(* The reaper misses no session of the registry: one that has expired is   *)
(* removed, unless a message or a reconnect revives it first.              *)
ExpiredIsReaped ==
    \A s \in Sessions : (s \in sessions /\ Expired(s))
                        ~> (s \notin sessions \/ ~Expired(s))
=============================================================================
