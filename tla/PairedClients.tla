---------------------------- MODULE PairedClients ----------------------------
(***************************************************************************)
(* Two paired browsers and the connections they lose and open again: the   *)
(* paired screen of web/pairing.js with its reconnect attempts, epochs,    *)
(* role swap and disconnect button.                                        *)
(*                                                                         *)
(*   web/pairing.js                  finalizePaired, wirePairedSocket,     *)
(*                                   attemptReconnect, requestRoleSwap     *)
(*   server/internal/session/hub.go  Reconnect, Relay, EndSession,         *)
(*                                   HandleDisconnect, as RelayHub has     *)
(*                                   them, one session's worth: lookup    *)
(*                                   and attach are one step here, and no  *)
(*                                   address is at its limit               *)
(*                                                                         *)
(* A client's sockets are numbered in the order it opens them.  A socket   *)
(* that breaks is noticed by its two ends separately; what was under way   *)
(* may still be read, until an end notices.  A screen that has been left   *)
(* is not entered again here.                                              *)
(***************************************************************************)
EXTENDS Integers, Sequences

CONSTANTS
    RECONNECT_MAX_ATTEMPTS,
    Faults,          \* what users and networks do; see the actions
    MaxConns,        \* bound: sockets a client opens
    MaxSwaps         \* bound: swap requests of a client

ASSUME ClientsAssumption ==
    /\ RECONNECT_MAX_ATTEMPTS \in Nat \ {0}
    /\ MaxConns \in Nat /\ MaxConns > RECONNECT_MAX_ATTEMPTS
    /\ MaxSwaps \in Nat

VARIABLES
    client,     \* client[p]: currentState and the module's variables
    link,       \* link[p][n]: p's n-th socket
    handler,    \* handler[p][n]: the relay's handler of that socket
    slot,       \* slot[p]: p's peer in the Session
    session     \* the session is in the registry

vars == <<client, link, handler, slot, session>>

Peers == {"host", "guest"}
Links == 1..MaxConns
None  == 0           \* null, for a socket

other(p) == IF p = "host" THEN "guest" ELSE "host"

flipped(role) == IF role = "sender" THEN "receiver" ELSE "sender"

Unused ==
    [state |-> "none", broken |-> FALSE, fin |-> FALSE, wired |-> FALSE,
     up |-> <<>>, down |-> <<>>]

(* finalizePaired has run on both sides.                                   *)
Init ==
    /\ client = [p \in Peers |->
         [screen |-> "paired", epoch |-> 0,
          role |-> IF p = "host" THEN "receiver" ELSE "sender",
          token |-> FALSE, active |-> 1, last |-> 1, attempt |-> 0,
          sleeping |-> FALSE, awaiting |-> FALSE, timers |-> 0,
          asked |-> 0, cut |-> FALSE]]
    /\ link = [p \in Peers |-> [n \in Links |->
         IF n = 1 THEN [Unused EXCEPT !.state = "open", !.wired = TRUE]
         ELSE Unused]]
    /\ handler = [p \in Peers |-> [n \in Links |->
         IF n = 1 THEN "serving" ELSE "none"]]
    /\ slot = [p \in Peers |->
         [conn |-> 1, connected |-> TRUE, token |-> FALSE]]
    /\ session = TRUE

-----------------------------------------------------------------------------
(* Helpers *)

carries(l) == l.state = "open" /\ ~l.broken /\ ~l.fin

(* A send on a socket that is gone is ignored.                             *)
sendUp(L, p, n, m) ==
    IF n # None /\ carries(L[p][n])
    THEN [L EXCEPT ![p][n].up = Append(@, m)] ELSE L

sendDown(L, p, n, m) ==
    IF carries(L[p][n]) THEN [L EXCEPT ![p][n].down = Append(@, m)] ELSE L

(* To the peer's connection, if the relay has it connected.                *)
sendPeer(L, p, m) ==
    IF slot[p].connected THEN sendDown(L, p, slot[p].conn, m) ELSE L

closeSocket(L, p, n) ==
    IF n = None THEN L
    ELSE [L EXCEPT ![p][n].state = "closed", ![p][n].down = <<>>]

(* setState: cleanupActive closes the active socket; a socket that is      *)
(* still trying to reconnect is not the active one.                        *)
leave(p, screen, L) ==
    /\ client' = [client EXCEPT ![p].screen = screen, ![p].active = None]
    /\ link' = closeSocket(L, p, client[p].active)

(* render: on the paired screen, renderPaired drops a swap negotiation.    *)
rendered(c) ==
    IF c.screen = "paired" THEN [c EXCEPT !.awaiting = FALSE] ELSE c

(* attemptReconnect, with its k-th attempt, on a paired screen.            *)
attemptReconnect(p, c, k, L) ==
    \/ /\ ~c.token
       /\ client' = [client EXCEPT ![p] = [c EXCEPT !.screen = "error"]]
       /\ link' = L
    \/ /\ c.token
       /\ client' = [client EXCEPT ![p] = [c EXCEPT !.last = @ + 1,
                                                    !.attempt = k]]
       /\ link' = [L EXCEPT ![p][c.last + 1].state = "opening"]

(* Mutant: the first failure is the last.                                  *)
retry_never(c) == c

(* Mutant: off by one.                                                     *)
retry_oneMore(c) ==
    IF c.attempt > RECONNECT_MAX_ATTEMPTS THEN [c EXCEPT !.screen = "error"]
    ELSE [c EXCEPT !.sleeping = TRUE]

(* The close event of a socket that tried to reconnect.                    *)
retry(c) ==
    IF c.attempt >= RECONNECT_MAX_ATTEMPTS THEN [c EXCEPT !.screen = "error"]
    ELSE [c EXCEPT !.sleeping = TRUE]

relayVars == <<handler, slot, session>>

-----------------------------------------------------------------------------
(* A client and its sockets *)

(* deriveReconnectToken's promise, on the socket of the pairing.           *)
DeriveToken(p) ==
    /\ ~client[p].token
    /\ client' = [client EXCEPT ![p].token = TRUE]
    /\ link' = sendUp(link, p, 1, "reconnect_token")
    /\ UNCHANGED relayVars

Opens(p, n) ==
    /\ link[p][n].state = "opening"
    /\ link' = [link EXCEPT ![p][n].state = "open",
                            ![p][n].up = <<"reconnect">>]
    /\ handler' = [handler EXCEPT ![p][n] = "first"]
    /\ UNCHANGED <<client, slot, session>>

ConnectFails(p, n) ==
    /\ "connectFails" \in Faults
    /\ link[p][n].state = "opening"
    /\ link' = closeSocket(link, p, n)
    /\ client' = IF client[p].screen = "paired"
                 THEN [client EXCEPT ![p] = retry(@)] ELSE client
    /\ UNCHANGED relayVars

(* The timer between two attempts.                                         *)
RetryTimer(p) ==
    LET c == [client[p] EXCEPT !.sleeping = FALSE] IN
    /\ client[p].sleeping
    /\ \/ /\ c.screen = "paired"
          /\ attemptReconnect(p, c, c.attempt + 1, link)
       \/ /\ c.screen # "paired"
          /\ client' = [client EXCEPT ![p] = c]
          /\ UNCHANGED link
    /\ UNCHANGED relayVars

(* The close event.  A wired socket has both close listeners, and the one  *)
(* of the attempt that opened it finds it active.                          *)
CloseEvent(p, n) ==
    LET c == client[p]
        L == closeSocket(link, p, n) IN
    /\ link[p][n].state = "open"
    /\ link[p][n].broken \/ (link[p][n].fin /\ link[p][n].down = <<>>)
    /\ \/ /\ c.screen = "paired" /\ link[p][n].wired /\ c.active = n
          /\ attemptReconnect(p, [c EXCEPT !.active = None], 1, L)
       \/ /\ c.screen = "paired" /\ ~link[p][n].wired
          /\ client' = [client EXCEPT ![p] = retry(c)]
          /\ link' = L
       \/ /\ c.screen # "paired" \/ (link[p][n].wired /\ c.active # n)
          /\ link' = L
          /\ UNCHANGED client
    /\ UNCHANGED relayVars

(* p's socket n has received m: the rest of what it will receive.          *)
rest(p, n) == [link EXCEPT ![p][n].down = Tail(@)]

hears(p, n, m) ==
    /\ link[p][n].state = "open"
    /\ link[p][n].down # <<>>
    /\ Head(link[p][n].down) = m
    /\ UNCHANGED relayVars

(* Adopt the new socket.  Which screen is shown is not looked at.          *)
HearReconnected(p, n) ==
    /\ hears(p, n, "reconnected")
    /\ client' = [client EXCEPT ![p] =
                    [rendered(client[p]) EXCEPT !.active = n, !.epoch = @ + 1]]
    /\ link' = [rest(p, n) EXCEPT ![p][n].wired = TRUE]

HearError(p, n) ==
    /\ hears(p, n, "error")
    /\ leave(p, "error", rest(p, n))

(* What a socket hears before it is wired falls on deaf ears.              *)
HearUnwired(p, n) ==
    /\ ~link[p][n].wired
    /\ \E m \in {"peer_reconnected", "peer_disconnected", "session_ended",
                 "role_swap_request", "accepted", "rejected"} :
          hears(p, n, m)
    /\ link' = rest(p, n)
    /\ UNCHANGED client

wiredHears(p, n, m) == link[p][n].wired /\ hears(p, n, m)

HearSessionEnded(p, n) ==
    /\ wiredHears(p, n, "session_ended")
    /\ leave(p, "error", rest(p, n))

(* peer_disconnected changes a line of text.                               *)
HearPeerDisconnected(p, n) ==
    /\ wiredHears(p, n, "peer_disconnected")
    /\ link' = rest(p, n)
    /\ UNCHANGED client

(* Mutant: the screen is rendered anew, under the old epoch.               *)
HearPeerReconnected_keepsEpoch(p, n) ==
    /\ wiredHears(p, n, "peer_reconnected")
    /\ client' = [client EXCEPT ![p] = rendered(@)]
    /\ link' = rest(p, n)

HearPeerReconnected(p, n) ==
    /\ wiredHears(p, n, "peer_reconnected")
    /\ client' = [client EXCEPT ![p] =
                    [rendered(client[p]) EXCEPT !.epoch = @ + 1]]
    /\ link' = rest(p, n)

-----------------------------------------------------------------------------
(* Role swap *)

(* On a lost connection activeSocket is null: sendEnvelope throws, after   *)
(* swapAwaitingResponse is set and before the timer is.                    *)
RequestSwap(p) ==
    LET c == [client[p] EXCEPT !.awaiting = TRUE, !.asked = @ + 1] IN
    /\ "swap" \in Faults
    /\ client[p].screen = "paired"
    /\ ~client[p].awaiting
    /\ client[p].asked < MaxSwaps
    /\ client' = [client EXCEPT ![p] =
                    IF c.active = None THEN c
                    ELSE [c EXCEPT !.timers = @ + 1]]
    /\ link' = sendUp(link, p, c.active, "role_swap_request")
    /\ UNCHANGED relayVars

(* A timer is not tied to the request that set it.                         *)
SwapTimeout(p) ==
    /\ client[p].timers > 0
    /\ client' = [client EXCEPT
                    ![p].timers = @ - 1,
                    ![p].awaiting = FALSE,
                    ![p].cut = client[p].cut \/ client[p].awaiting]
    /\ UNCHANGED <<link, relayVars>>

(* Mutant: a busy side flips although it rejects.                          *)
HearSwapRequest_alwaysFlips(p, n) ==
    /\ wiredHears(p, n, "role_swap_request")
    /\ client' = [client EXCEPT ![p] =
                    [rendered(client[p]) EXCEPT !.role = flipped(@)]]
    /\ \E busy \in BOOLEAN :
          link' = sendUp(rest(p, n), p, n,
                         IF busy \/ client[p].awaiting
                         THEN "rejected" ELSE "accepted")

(* busy: a transfer is running, or a request of our own is.                *)
HearSwapRequest(p, n) ==
    /\ wiredHears(p, n, "role_swap_request")
    /\ \/ /\ ~client[p].awaiting
          /\ client' = [client EXCEPT ![p] =
                          [rendered(client[p]) EXCEPT !.role = flipped(@)]]
          /\ link' = sendUp(rest(p, n), p, n, "accepted")
       \/ /\ link' = sendUp(rest(p, n), p, n, "rejected")
          /\ UNCHANGED client

HearSwapResponse(p, n) ==
    /\ \/ /\ wiredHears(p, n, "accepted")
          /\ client[p].awaiting
          /\ client' = [client EXCEPT ![p] =
                          [rendered(client[p]) EXCEPT !.role = flipped(@)]]
       \/ /\ wiredHears(p, n, "rejected")
          /\ client' = [client EXCEPT ![p].awaiting = FALSE]
       \/ /\ wiredHears(p, n, "accepted")
          /\ ~client[p].awaiting
          /\ UNCHANGED client
    /\ link' = rest(p, n)

-----------------------------------------------------------------------------
(* The user leaves, the network fails *)

(* disconnectSession: end_session if there is a socket, then the start     *)
(* screen.                                                                 *)
DisconnectSession(p) ==
    /\ "disconnect" \in Faults
    /\ client[p].screen = "paired"
    /\ leave(p, "start", sendUp(link, p, client[p].active, "end_session"))
    /\ UNCHANGED relayVars

(* A socket breaks in use; a late break hits one that is reconnecting,     *)
(* before its client knows whether the relay has accepted it.              *)
mayBreak(p, n) == link[p][n].wired \/ "lateBreak" \in Faults

(* The bound leaves room for the attempts that follow.                     *)
Break(p, n) ==
    /\ p \in Faults
    /\ n + RECONNECT_MAX_ATTEMPTS <= MaxConns
    /\ carries(link[p][n])
    /\ mayBreak(p, n)
    /\ link' = [link EXCEPT ![p][n].broken = TRUE]
    /\ UNCHANGED <<client, relayVars>>

-----------------------------------------------------------------------------
(* The relay *)

(* The handler has read m from socket n of p.                              *)
reads(p, n, m, pc) ==
    /\ handler[p][n] = pc
    /\ link[p][n].up # <<>>
    /\ Head(link[p][n].up) = m

unread(p, n) == [link EXCEPT ![p][n].up = Tail(@)]

(* Reconnect, refused over a connected slot or a session that is gone.     *)
ReadReconnect(p, n) ==
    /\ reads(p, n, "reconnect", "first")
    /\ \/ /\ session /\ ~slot[p].connected /\ slot[p].token
          /\ slot' = [slot EXCEPT ![p].conn = n, ![p].connected = TRUE]
          /\ handler' = [handler EXCEPT ![p][n] = "announce"]
          /\ link' = unread(p, n)
       \/ /\ ~session \/ slot[p].connected \/ ~slot[p].token
          /\ handler' = [handler EXCEPT ![p][n] = "gone"]
          /\ link' = [sendDown(unread(p, n), p, n, "error")
                        EXCEPT ![p][n].fin = TRUE]
          /\ UNCHANGED slot
    /\ UNCHANGED <<client, session>>

Announce(p, n) ==
    /\ handler[p][n] = "announce"
    /\ handler' = [handler EXCEPT ![p][n] = "confirm"]
    /\ link' = sendPeer(link, other(p), "peer_reconnected")
    /\ UNCHANGED <<client, slot, session>>

Confirm(p, n) ==
    /\ handler[p][n] = "confirm"
    /\ handler' = [handler EXCEPT ![p][n] = "serving"]
    /\ link' = sendDown(link, p, n, "reconnected")
    /\ UNCHANGED <<client, slot, session>>

ReadToken(p, n) ==
    /\ reads(p, n, "reconnect_token", "serving")
    /\ slot' = [slot EXCEPT ![p].token = TRUE]
    /\ link' = unread(p, n)
    /\ UNCHANGED <<client, handler, session>>

(* Relay: a role swap is opaque to the relay.                              *)
ReadRelayed(p, n) ==
    \E m \in {"role_swap_request", "accepted", "rejected"} :
        /\ reads(p, n, m, "serving")
        /\ link' = sendPeer(unread(p, n), other(p), m)
        /\ UNCHANGED <<client, relayVars>>

(* session_ended to the peer, if connected, and the end of its connection. *)
dismissed(L, p) ==
    IF slot[p].connected
    THEN [sendPeer(L, p, "session_ended") EXCEPT ![p][slot[p].conn].fin = TRUE]
    ELSE L

ReadEnd(p, n) ==
    /\ reads(p, n, "end_session", "serving")
    /\ link' = [dismissed(unread(p, n), other(p)) EXCEPT ![p][n].fin = TRUE]
    /\ handler' = [handler EXCEPT ![p][n] = "gone"]
    /\ session' = FALSE
    /\ UNCHANGED <<client, slot>>

(* The read fails: HandleDisconnect, or nothing before a first message.    *)
HandleDisconnect(p, n) ==
    LET l       == link[p][n]
        serving == handler[p][n] = "serving" IN
    /\ l.broken \/ l.fin \/ (l.state = "closed" /\ l.up = <<>>)
    /\ handler[p][n] \in {"first", "serving"}
    /\ handler' = [handler EXCEPT ![p][n] = "gone"]
    /\ slot' = IF serving THEN [slot EXCEPT ![p].connected = FALSE] ELSE slot
    /\ link' = IF serving THEN sendPeer(link, other(p), "peer_disconnected")
               ELSE link
    /\ UNCHANGED <<client, session>>

(* The reaper, some time after a peer went down or the last message.       *)
Reap ==
    /\ "reap" \in Faults
    /\ session
    /\ link' = dismissed(dismissed(link, "host"), "guest")
    /\ session' = FALSE
    /\ UNCHANGED <<client, handler, slot>>

-----------------------------------------------------------------------------

Client(p) ==
    \/ DeriveToken(p)
    \/ RetryTimer(p)
    \/ \E n \in Links :
          \/ Opens(p, n)
          \/ ConnectFails(p, n)
          \/ CloseEvent(p, n)
          \/ HearReconnected(p, n)
          \/ HearError(p, n)
          \/ HearUnwired(p, n)
          \/ HearSessionEnded(p, n)
          \/ HearPeerDisconnected(p, n)
          \/ HearPeerReconnected(p, n)
          \/ HearSwapRequest(p, n)
          \/ HearSwapResponse(p, n)

Relay(p) ==
    \E n \in Links :
       \/ ReadReconnect(p, n)
       \/ Announce(p, n)
       \/ Confirm(p, n)
       \/ ReadToken(p, n)
       \/ ReadRelayed(p, n)
       \/ ReadEnd(p, n)
       \/ HandleDisconnect(p, n)

Disturb(p) ==
    \/ RequestSwap(p)
    \/ SwapTimeout(p)
    \/ DisconnectSession(p)
    \/ \E n \in Links : Break(p, n)

Next ==
    \/ \E p \in Peers : Client(p) \/ Disturb(p) \/ Relay(p)
    \/ Reap

Spec == Init /\ [][Next]_vars

(* Events are dispatched, handlers run, and a broken connection is noticed *)
(* at both ends in the end.  What users and networks do is up to them.     *)
Fairness ==
    /\ \A p \in Peers : WF_vars(Client(p))
    /\ \A p \in Peers : WF_vars(Relay(p))

FairSpec == Spec /\ Fairness

-----------------------------------------------------------------------------
(* Properties *)

Messages ==
    {"reconnect", "reconnect_token", "end_session", "role_swap_request",
     "accepted", "rejected", "error", "reconnected", "peer_reconnected",
     "peer_disconnected", "session_ended"}

LinkRecord ==
    [state : {"none", "opening", "open", "closed"}, broken : BOOLEAN,
     fin : BOOLEAN, wired : BOOLEAN, up : Seq(Messages), down : Seq(Messages)]

ClientRecord ==
    [screen : {"paired", "start", "error"}, epoch : Nat,
     role : {"sender", "receiver"}, token : BOOLEAN,
     active : Links \cup {None}, last : Links,
     attempt : 0..RECONNECT_MAX_ATTEMPTS, sleeping : BOOLEAN,
     awaiting : BOOLEAN, timers : Nat, asked : 0..MaxSwaps, cut : BOOLEAN]

(* Every field holds a value of its type; in particular no client makes    *)
(* more than RECONNECT_MAX_ATTEMPTS attempts in a row.                     *)
TypeOK ==
    /\ client \in [Peers -> ClientRecord]
    /\ link \in [Peers -> [Links -> LinkRecord]]
    /\ handler \in [Peers -> [Links -> {"none", "first", "announce",
                                        "confirm", "serving", "gone"}]]
    /\ slot \in [Peers -> [conn : Links, connected : BOOLEAN,
                           token : BOOLEAN]]
    /\ session \in BOOLEAN

Under(q, m) == \E j \in 1..Len(q) : q[j] = m

(* p shows the paired screen on a working connection, and has heard of     *)
(* every reconnect.                                                        *)
InTouch(p) ==
    LET n == client[p].active IN
    /\ client[p].screen = "paired"
    /\ n # None
    /\ carries(link[p][n])
    /\ slot[p].connected /\ slot[p].conn = n
    /\ handler[p][n] = "serving"
    /\ ~Under(link[p][n].down, "peer_reconnected")

(* "both peers derive it identically, having jointly observed the same     *)
(* sequence of reconnects" (DECISIONS.md): two peers that are in touch are *)
(* in the same epoch, and so can decrypt each other's files.               *)
EpochsAgree ==
    (\A p \in Peers : InTouch(p)) => client["host"].epoch = client["guest"].epoch

SwapMessages == {"role_swap_request", "accepted", "rejected"}

(* No swap is under way, and none was cut off by a drop or by its timer.   *)
SwapAtRest(p) ==
    /\ client[p].active = 1 /\ carries(link[p][1])
    /\ ~client[p].awaiting /\ ~client[p].cut
    /\ \A m \in SwapMessages :
          ~Under(link[p][1].up, m) /\ ~Under(link[p][1].down, m)

(* One peer sends and the other receives whenever no swap is under way,    *)
(* whoever asked, also when both asked at once.                            *)
RolesComplement ==
    (\A p \in Peers : SwapAtRest(p)) => client["host"].role # client["guest"].role

(* A client that has lost its connection gets it back or says so: it does  *)
(* not show "reconnecting" for ever.                                       *)
ReconnectSettles ==
    \A p \in Peers :
        (client[p].screen = "paired" /\ client[p].active = None)
        ~> (client[p].screen # "paired" \/ client[p].active # None)
=============================================================================
