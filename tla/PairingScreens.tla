--------------------------- MODULE PairingScreens ----------------------------
(***************************************************************************)
(* One page of the web client from its first screen to a pairing and back: *)
(* the screens of web/pairing.js, every socket and camera scan it starts,  *)
(* and what their callbacks do when they fire after the page moved on.     *)
(*                                                                         *)
(*   web/pairing.js   setState, advance, the render and start functions,   *)
(*                    finalizePaired, wirePairedSocket, attemptReconnect   *)
(*   web/qr-scan.js   startScanning                                        *)
(*                                                                         *)
(* Sockets and scans are numbered in the order they are started.  The      *)
(* relay and the other device are the environment: they answer, stay       *)
(* silent or close as they like.  The key exchange is one promise here     *)
(* (PakeExchange opens it), and messages between paired peers are left to  *)
(* PairedClients.  A session is named by the socket it was made on.        *)
(***************************************************************************)
EXTENDS Integers, Sequences

CONSTANTS
    RECONNECT_MAX_ATTEMPTS,
    MaxStarts        \* bound: sockets and camera scans the page starts

ASSUME ScreensAssumption ==
    /\ RECONNECT_MAX_ATTEMPTS \in Nat \ {0}
    /\ MaxStarts \in Nat

VARIABLES
    cur,        \* currentState: its screen, session and reconnectToken
    active,     \* activeSocket
    stop,       \* the scan that activeStopScan stops
    socks,      \* the sockets opened so far
    scans,      \* the calls of startScanning so far
    timers,     \* the pending retries of attemptReconnect
    deriving,   \* the sessions whose reconnect token is being computed
    stray       \* history: a callback of something abandoned has fired

vars == <<cur, active, stop, socks, scans, timers, deriving, stray>>

None == 0

(* Screens that only show a status: nothing on them can be clicked.        *)
Buttonless ==
    {"receiver-generating", "code-receiver-generating", "joining",
     "verifying"}

Screens == Buttonless \cup
    {"role-select", "code-role-select", "join-detected", "receiver-waiting",
     "code-receiver-waiting", "sender-scanning", "sender-paste",
     "code-sender-entry", "paired", "error", "insecure-context"}

Flows == {"receive", "receive-code", "join", "join-by-code", "reconnect"}

at(screen, s) == [screen |-> screen, session |-> s, token |-> None]

(* initPairing: an insecure page shows only that; a link in the location   *)
(* goes to join-detected.                                                  *)
Init ==
    /\ \E first \in {"role-select", "join-detected", "insecure-context"} :
          cur = at(first, None)
    /\ active = None /\ stop = None
    /\ socks = <<>> /\ scans = <<>>
    /\ timers = {} /\ deriving = {}
    /\ stray = FALSE

-----------------------------------------------------------------------------
(* Sockets and the camera *)

live(n) == socks[n].state = "open"

(* A socket, and the request its open listener sends.  Until the relay     *)
(* answers it makes no difference whether it is connecting or open.        *)
connect(S, flow, s, attempt) ==
    Append(S, [flow |-> flow, session |-> s, attempt |-> attempt,
               state |-> "open", heard |-> "nothing",
               wired |-> FALSE, exchange |-> "none"])

(* A scan the user may still be asked about, or one with its camera on.    *)
underWay(C, s) == C[s].state \in {"asking", "starting", "running"}

(* startScanning on a new video element.  alone is history: no earlier     *)
(* scan was under way.                                                     *)
scanning(C) ==
    Append(C, [state |-> "asking", cancelled |-> FALSE,
               alone |-> \A s \in 1..Len(C) : ~underWay(C, s)])

released(C, s) ==
    [C EXCEPT ![s] = [@ EXCEPT !.state = "off", !.cancelled = FALSE]]

stopped(C, s) ==
    IF s # None /\ C[s].state = "running" THEN released(C, s) ELSE C

(* No message is heard on a socket after close(), only its close event.    *)
ended(r, state) ==
    [r EXCEPT !.state = state, !.heard = "nothing", !.wired = FALSE]

(* Mutant: the socket is forgotten, not closed.                            *)
closed_forgotten(S) == S

closed(S) ==
    IF active # None /\ S[active].state = "open"
    THEN [S EXCEPT ![active] = ended(@, "closing")] ELSE S

(* render, for the one screen whose rendering starts something.            *)
rendered(screen, C) ==
    IF screen = "sender-scanning" THEN scanning(C) ELSE C

(* setState: cleanupActive, then the next screen.                          *)
setState(screen, S, C) ==
    /\ cur' = at(screen, None)
    /\ active' = None /\ stop' = None
    /\ socks' = closed(S)
    /\ scans' = rendered(screen, stopped(C, stop))

(* advance: the next screen, with the socket and the camera as they are.   *)
advance(screen) ==
    /\ cur' = at(screen, None)
    /\ scans' = rendered(screen, scans)
    /\ UNCHANGED <<active, stop, socks>>

mayStart == Len(socks) + Len(scans) < MaxStarts

(* The start functions: a status screen and a new active socket.           *)
start(flow, screen) ==
    /\ mayStart
    /\ cur' = at(screen, IF flow = "join" THEN Len(socks) + 1 ELSE None)
    /\ socks' = connect(socks, flow, Len(socks) + 1, 0)
    /\ active' = Len(socks) + 1

startReceiverFlow ==
    start("receive", "receiver-generating") /\ UNCHANGED <<stop, scans>>

startReceiverCodeFlow ==
    start("receive-code", "code-receiver-generating")
    /\ UNCHANGED <<stop, scans>>

startJoinByCode ==
    start("join-by-code", "joining") /\ UNCHANGED <<stop, scans>>

startJoin(C) ==
    start("join", "joining") /\ stop' = None /\ scans' = C

-----------------------------------------------------------------------------
(* What the user clicks, screen by screen *)

quiet == UNCHANGED <<timers, deriving, stray>>

RoleSelect ==
    /\ cur.screen = "role-select"
    /\ \/ startReceiverFlow
       \/ mayStart /\ advance("sender-scanning")
       \/ advance("code-role-select")
    /\ quiet

CodeRoleSelect ==
    /\ cur.screen = "code-role-select"
    /\ \/ startReceiverCodeFlow
       \/ advance("code-sender-entry")
       \/ setState("role-select", socks, scans)
    /\ quiet

JoinDetected ==
    /\ cur.screen = "join-detected"
    /\ startJoin(scans) \/ setState("role-select", socks, scans)
    /\ quiet

CodeReceiverWaiting ==
    /\ cur.screen = "code-receiver-waiting"
    /\ setState("code-role-select", socks, scans)
    /\ quiet

(* A code that is not six digits is an error of its own.                   *)
CodeSenderEntry ==
    /\ cur.screen = "code-sender-entry"
    /\ \/ startJoinByCode
       \/ setState("error", socks, scans)
       \/ setState("code-role-select", socks, scans)
    /\ quiet

ReceiverWaiting ==
    /\ cur.screen = "receiver-waiting"
    /\ setState("role-select", socks, scans)
    /\ quiet

(* Both buttons mark the rendered scan as cancelled before they leave.     *)
SenderScanning ==
    /\ cur.screen = "sender-scanning"
    /\ \E next \in {"sender-paste", "role-select"} :
          setState(next, socks, [scans EXCEPT ![Len(scans)].cancelled = TRUE])
    /\ quiet

SenderPaste ==
    /\ cur.screen = "sender-paste"
    /\ \/ startJoin(scans)
       \/ setState("error", socks, scans)
       \/ mayStart /\ setState("sender-scanning", socks, scans)
    /\ quiet

DisconnectSession ==
    /\ cur.screen = "paired"
    /\ setState("role-select", socks, scans)
    /\ quiet

TryAgain ==
    /\ cur.screen = "error"
    /\ setState("role-select", socks, scans)
    /\ quiet

-----------------------------------------------------------------------------
(* startScanning *)

(* The scan is the one the present screen shows.                           *)
shown(s) == cur.screen = "sender-scanning" /\ s = Len(scans)

CameraGranted(s) ==
    /\ scans[s].state = "asking"
    /\ scans' = [scans EXCEPT ![s].state = "starting"]
    /\ UNCHANGED <<cur, active, stop, socks, timers, deriving, stray>>

(* onError, and a stop function that does nothing, unless cancelled.       *)
CameraDenied(s) ==
    LET C == released(scans, s) IN
    /\ scans[s].state = "asking"
    /\ cur' = at("error", None) /\ active' = None
    /\ stop' = IF scans[s].cancelled THEN None ELSE s
    /\ socks' = closed(socks)
    /\ scans' = stopped(C, stop)
    /\ stray' = (stray \/ ~shown(s))
    /\ UNCHANGED <<timers, deriving>>

(* play rejects, as when its element has left the page: nobody holds the   *)
(* stream any more.                                                        *)
PlayFails(s) ==
    /\ scans[s].state = "starting"
    /\ scans' = [scans EXCEPT ![s].state = "unstoppable"]
    /\ UNCHANGED <<cur, active, stop, socks, timers, deriving, stray>>

(* Mutant: the flag set by the buttons is not looked at.                   *)
Plays_ignoresCancelled(s) ==
    /\ scans[s].state = "starting"
    /\ scans' = [scans EXCEPT ![s].state = "running"]
    /\ stop' = s
    /\ UNCHANGED <<cur, active, socks, timers, deriving, stray>>

(* The first look at the picture finds nothing, and startScanning returns. *)
Plays(s) ==
    /\ scans[s].state = "starting"
    /\ \/ /\ scans[s].cancelled
          /\ scans' = released(scans, s)
          /\ UNCHANGED <<stop, stray>>
       \/ /\ ~scans[s].cancelled
          /\ scans' = [scans EXCEPT ![s].state = "running"]
          /\ stop' = s
          /\ stray' = (stray \/ ~shown(s))
    /\ UNCHANGED <<cur, active, socks, timers, deriving>>

(* A code in the picture: the scan stops itself, then onDecode.            *)
Decode(s) ==
    LET C == released(scans, s) IN
    /\ scans[s].state = "running"
    /\ startJoin(C) \/ setState("error", socks, C)
    /\ stray' = (stray \/ ~shown(s))
    /\ UNCHANGED <<timers, deriving>>

(* The same at the first look, before startScanning has returned: its stop *)
(* function, which does nothing by then, is kept all the same.             *)
DecodeAtOnce(s) ==
    LET C == released(scans, s) IN
    /\ scans[s].state = "starting"
    /\ \/ start("join", "joining") /\ scans' = C
       \/ /\ cur' = at("error", None) /\ active' = None
          /\ socks' = closed(socks)
          /\ scans' = stopped(C, stop)
    /\ stop' = IF scans[s].cancelled THEN None ELSE s
    /\ stray' = (stray \/ ~shown(s))
    /\ UNCHANGED <<timers, deriving>>

-----------------------------------------------------------------------------
(* A flow's socket: answers of the relay *)

hears(n, flows, before) ==
    /\ socks[n].state = "open"
    /\ socks[n].flow \in flows
    /\ socks[n].heard = before

(* session_created and code_session_created.                               *)
HearCreated(n) ==
    /\ hears(n, {"receive", "receive-code"}, "nothing")
    /\ cur' = at(IF socks[n].flow = "receive" THEN "receiver-waiting"
                 ELSE "code-receiver-waiting", n)
    /\ socks' = [socks EXCEPT ![n].heard = "created"]
    /\ UNCHANGED <<active, stop, scans, timers, deriving, stray>>

(* finalizePaired, on socket n, with what it takes for its session.  A     *)
(* session without a key has no token to compute.                          *)
finalizePaired(S, n, s) ==
    /\ cur' = at("paired", s)
    /\ socks' = [S EXCEPT ![n].wired = TRUE]
    /\ deriving' = deriving \cup ({s} \ {None})
    /\ UNCHANGED <<active, stop, scans, timers>>

(* paired, after the QR code: the host takes its session and key from      *)
(* currentState, the guest from what it scanned.                           *)
HearPaired(n) ==
    LET S == [socks EXCEPT ![n].heard = "paired"] IN
    /\ \/ /\ hears(n, {"receive"}, "created")
          /\ finalizePaired(S, n, cur.session)
       \/ /\ hears(n, {"join"}, "nothing")
          /\ finalizePaired(S, n, n)
    /\ UNCHANGED stray

(* paired, after a code: the host takes the code from currentState.        *)
HearPairedByCode(n) ==
    /\ \/ hears(n, {"receive-code"}, "created")
       \/ hears(n, {"join-by-code"}, "nothing")
    /\ cur' = at("verifying", None)
    /\ socks' = [socks EXCEPT
         ![n].heard = "paired",
         ![n].exchange = IF socks[n].flow = "join-by-code" \/ cur.session = n
                         THEN "running" ELSE "doomed"]
    /\ scans' = scans
    /\ UNCHANGED <<active, stop, timers, deriving, stray>>

(* The exchange has read the other side's last message.                    *)
ExchangeHeard(n) ==
    /\ socks[n].exchange = "running"
    /\ socks[n].state = "open"
    /\ socks' = [socks EXCEPT ![n].exchange = "heard"]
    /\ UNCHANGED <<cur, active, stop, scans, timers, deriving, stray>>

ExchangeDone(n) ==
    /\ socks[n].exchange = "heard"
    /\ finalizePaired([socks EXCEPT ![n].exchange = "none"], n, n)
    /\ stray' = (stray \/ active # n)

ExchangeFails(n) ==
    /\ socks[n].exchange # "none"
    /\ setState("error", [socks EXCEPT ![n].exchange = "none"], scans)
    /\ stray' = (stray \/ active # n)
    /\ UNCHANGED <<timers, deriving>>

(* The page is paired, in the session this socket is of.                   *)
mine(n) == cur.screen = "paired" /\ cur.session = socks[n].session

(* error, on a flow's socket or on one that asks to reconnect.             *)
HearError(n) ==
    /\ socks[n].state = "open"
    /\ setState("error", socks, scans)
    /\ stray' = (stray \/ (socks[n].flow = "reconnect" /\ ~mine(n)))
    /\ UNCHANGED <<timers, deriving>>

-----------------------------------------------------------------------------
(* The paired screen's socket *)

(* The token reaches whatever currentState is by then.                     *)
TokenDerived(s) ==
    /\ s \in deriving
    /\ deriving' = deriving \ {s}
    /\ cur' = [cur EXCEPT !.token = s]
    /\ stray' = (stray \/ (cur.screen = "paired" /\ cur.session # s))
    /\ UNCHANGED <<active, stop, socks, scans, timers>>

HearSessionEnded(n) ==
    /\ socks[n].state = "open"
    /\ socks[n].wired
    /\ setState("error", socks, scans)
    /\ UNCHANGED <<timers, deriving, stray>>

(* attemptReconnect on a paired page, with act for the active socket.      *)
attemptReconnect(S, act, attempt) ==
    \/ /\ cur.token = None
       /\ setState("error", S, scans)
    \/ /\ cur.token # None
       /\ mayStart
       /\ socks' = connect(S, "reconnect", cur.session, attempt)
       /\ active' = act
       /\ UNCHANGED <<cur, stop, scans>>

RetryTimer ==
    \E t \in timers :
       /\ timers' = timers \ {t}
       /\ \/ /\ cur.screen # "paired"
             /\ UNCHANGED <<cur, active, stop, socks, scans, stray>>
          \/ /\ cur.screen = "paired"
             /\ attemptReconnect(socks, active, t.attempt)
             /\ stray' = (stray \/ cur.session # t.session)
       /\ UNCHANGED deriving

(* reconnected: nothing is looked at, and whatever screen is shown is      *)
(* rendered again.                                                         *)
HearReconnected(n) ==
    /\ hears(n, {"reconnect"}, "nothing")
    /\ cur.screen = "sender-scanning" => mayStart
    /\ active' = n
    /\ socks' = [socks EXCEPT ![n].heard = "paired", ![n].wired = TRUE]
    /\ scans' = rendered(cur.screen, scans)
    /\ stray' = (stray \/ ~mine(n))
    /\ UNCHANGED <<cur, stop, timers, deriving>>

-----------------------------------------------------------------------------
(* Close events *)

(* Mutant: a flow looks only at the close of the active socket.            *)
leaves_activeOnly(n) ==
    /\ socks[n].flow # "reconnect"
    /\ cur.screen \notin {"paired", "error"}
    /\ active = n

(* The four flows' listener: any screen but these two is left.             *)
leaves(n) ==
    /\ socks[n].flow # "reconnect"
    /\ cur.screen \notin {"paired", "error"}

(* wirePairedSocket's listener.                                            *)
resumes(n) ==
    /\ socks[n].wired
    /\ cur.screen = "paired"
    /\ active = n

(* attemptReconnect's listener.                                            *)
retries(n) ==
    /\ socks[n].flow = "reconnect"
    /\ cur.screen = "paired"
    /\ active # n

(* Mutant: a failed attempt is not followed by another.                    *)
retry_never(n, S) ==
    /\ timers' = timers
    /\ socks' = S
    /\ UNCHANGED <<cur, active, stop, scans>>

(* Mutant: attempts are not counted.                                       *)
retry_forEver(n, S) ==
    /\ timers' = timers \cup {[attempt |-> socks[n].attempt + 1,
                              session |-> socks[n].session]}
    /\ socks' = S
    /\ UNCHANGED <<cur, active, stop, scans>>

retry(n, S) ==
    \/ /\ socks[n].attempt >= RECONNECT_MAX_ATTEMPTS
       /\ setState("error", S, scans)
       /\ UNCHANGED timers
    \/ /\ socks[n].attempt < RECONNECT_MAX_ATTEMPTS
       /\ timers' = timers \cup {[attempt |-> socks[n].attempt + 1,
                                 session |-> socks[n].session]}
       /\ socks' = S
       /\ UNCHANGED <<cur, active, stop, scans>>

(* A socket's close event, by whoever closed it, or a failure to connect.  *)
Closed(n) ==
    LET S == [socks EXCEPT ![n] =
                [ended(@, "closed") EXCEPT !.flow = "none",
                                          !.session = None, !.attempt = 0]]
    IN
    /\ socks[n].state # "closed"
    /\ \/ leaves(n) /\ setState("error", S, scans) /\ UNCHANGED timers
       \/ resumes(n) /\ attemptReconnect(S, None, 1) /\ UNCHANGED timers
       \/ retries(n) /\ retry(n, S)
       \/ /\ ~leaves(n) /\ ~resumes(n) /\ ~retries(n)
          /\ socks' = S
          /\ UNCHANGED <<cur, active, stop, scans, timers>>
    /\ stray' = (stray \/ (retries(n) /\ ~mine(n)))
    /\ UNCHANGED deriving

-----------------------------------------------------------------------------
Sockets == 1..Len(socks)
Scans   == 1..Len(scans)

User ==
    \/ RoleSelect \/ CodeRoleSelect \/ JoinDetected
    \/ CodeReceiverWaiting \/ CodeSenderEntry \/ ReceiverWaiting
    \/ SenderScanning \/ SenderPaste \/ DisconnectSession \/ TryAgain

Camera ==
    \E s \in Scans :
       \/ CameraGranted(s) \/ CameraDenied(s) \/ PlayFails(s)
       \/ Plays(s) \/ Decode(s) \/ DecodeAtOnce(s)

Relay ==
    \E n \in Sockets :
       \/ HearCreated(n) \/ HearPaired(n)
       \/ HearPairedByCode(n) \/ HearError(n) \/ HearSessionEnded(n)
       \/ HearReconnected(n) \/ Closed(n)

Local ==
    \/ \E n \in Sockets :
          ExchangeHeard(n) \/ ExchangeDone(n) \/ ExchangeFails(n)
    \/ \E s \in deriving : TokenDerived(s)
    \/ RetryTimer

Next == User \/ Camera \/ Relay \/ Local

Spec == Init /\ [][Next]_vars

(* While nothing can be clicked, no socket stays for ever: a connection    *)
(* opens or fails, and the relay closes what has been idle for the         *)
(* inactivity timeout.                                                     *)
Fairness ==
    \A n \in 1..MaxStarts :
       WF_vars(n <= Len(socks) /\ cur.screen \in Buttonless /\ Closed(n))

FairSpec == Spec /\ Fairness

-----------------------------------------------------------------------------
(* Properties *)

SocketRecords ==
    [flow : Flows \cup {"none"}, session : 0..MaxStarts, attempt : 0..RECONNECT_MAX_ATTEMPTS,
     state : {"open", "closing", "closed"},
     heard : {"nothing", "created", "paired"}, wired : BOOLEAN,
     exchange : {"none", "running", "doomed", "heard"}]

ScanRecords ==
    [state : {"asking", "starting", "running", "unstoppable", "off"},
     cancelled : BOOLEAN, alone : BOOLEAN]

(* Types: the screen, the two module variables and what they refer to.     *)
TypeOK ==
    /\ cur \in [screen : Screens, session : 0..MaxStarts,
                token : 0..MaxStarts]
    /\ socks \in Seq(SocketRecords)
    /\ scans \in Seq(ScanRecords) /\ Len(socks) + Len(scans) <= MaxStarts
    /\ active \in 0..Len(socks)
    /\ stop \in 0..Len(scans)
    /\ timers \subseteq [attempt : 1..RECONNECT_MAX_ATTEMPTS,
                         session : 0..MaxStarts]
    /\ deriving \subseteq 1..MaxStarts
    /\ stray \in BOOLEAN

(* cleanupActive is the only owner of a flow's socket: until a callback of *)
(* something abandoned has fired, every socket that is still live is the   *)
(* active one, or one that tries to reconnect.                             *)
SocketsHeld ==
    ~stray => \A n \in Sockets :
       live(n) => n = active \/ socks[n].flow = "reconnect"

(* A camera that is on: its stream is live.                                *)
lit(s) == scans[s].state \in {"starting", "running", "unstoppable"}

(* A scan was started while an earlier one was under way: by a reconnected *)
(* that renders the scanning screen again, or on the way to the paste      *)
(* screen and back before the user has answered for the camera.            *)
crowded == \E s \in Scans : ~scans[s].alone

(* Who stops a camera that is on.  Either startScanning has not returned   *)
(* yet; or its play() was rejected, and then nobody does, on any screen:   *)
(* that stream stays live (qr-scan.js:25-26, which promises a stop         *)
(* function at :8-11).  Or it plays; then activeStopScan is its stop       *)
(* function and no button had cancelled it, so whatever replaces the       *)
(* screen next stops it - even when it was granted late, after a close     *)
(* event or a buttonless screen had taken the scanning screen's place -    *)
(* unless scans have overlapped; and until something abandoned has fired,  *)
(* it plays on the scanning screen alone.                                  *)
PlayingIsHeld ==
    \A s \in Scans :
       lit(s) =>
          \/ scans[s].state \in {"starting", "unstoppable"}
          \/ /\ ~crowded => s = stop /\ ~scans[s].cancelled
             /\ ~stray => s = stop /\ shown(s)

(* A paired page is connected, or on its way to be: its active socket is   *)
(* open, listened to and of the session and key it shows, or an attempt to *)
(* resume that session is pending.                                         *)
PairedIsConnected ==
    ~stray /\ cur.screen = "paired" =>
       /\ cur.token \in {None, cur.session}
       /\ IF active # None
          THEN /\ socks[active].state = "open"
               /\ socks[active].wired
               /\ socks[active].session = cur.session
          ELSE \/ \E n \in Sockets :
                     live(n) /\ socks[n].flow = "reconnect" /\ mine(n)
               \/ \E t \in timers : t.session = cur.session

(* A screen without a button is always left again, even when the active    *)
(* socket is no longer the one it waits for.                               *)
NoDeadEnd ==
    \A screen \in Buttonless : cur.screen = screen ~> cur.screen # screen

=============================================================================
