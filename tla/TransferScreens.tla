--------------------------- MODULE TransferScreens ---------------------------
(***************************************************************************)
(* The paired screen of one page as it is rendered again and again: after  *)
(* a reconnect, a peer's reconnect, a role swap, or a new session.  Each   *)
(* render leaves behind a transfer UI whose file picker, listeners and     *)
(* sends may outlive it, and each lost connection an attempt to reconnect  *)
(* that may outlive its session.                                           *)
(*                                                                         *)
(*   web/pairing.js       renderPaired, cleanupActive, detachActiveTransfer*)
(*                        wirePairedSocket, attemptReconnect               *)
(*   web/transfer-ui.js   renderTransferUI, renderSenderTransfer,          *)
(*                        renderReceiverTransfer, dedupeFilename           *)
(*   web/file-writer.js   chooseSaveDirectory, createFileSink              *)
(*                                                                         *)
(* What is sent within one file is Transfer's business.  A batch is one    *)
(* choice of files; a name is a sequence: its base, then the numbers put   *)
(* after it.  A native picker is modal: while it is open nothing on the    *)
(* page can be clicked, but events still come.  How many attempts there    *)
(* are in a row, and when the token is there, is left to PairingScreens.   *)
(***************************************************************************)
EXTENDS Integers, Sequences, FiniteSetsExt

CONSTANTS
    Batches,         \* the choices of files the user makes
    BatchSize,       \* files in a batch
    Names,           \* the names of the files that are received
    MaxRenders,      \* bound: times the paired screen is rendered
    MaxSockets,      \* bound: sockets of pairings and attempts to reconnect
    MaxReceivers,    \* bound: renders, from the first on, that get files
    MaxFiles         \* bound: files received into one folder

ASSUME RendersAssumption ==
    /\ 0 \notin Batches
    /\ BatchSize \in Nat \ {0}
    /\ Names \subseteq Seq(Nat)
    /\ MaxRenders \in Nat
    /\ MaxSockets \in Nat
    /\ MaxReceivers \in Nat
    /\ MaxFiles \in Nat

VARIABLES
    page,       \* currentState: screen, session, transferRole; activeSocket
    sockets,    \* sockets[n]: the session socket n was opened for
    open,       \* the sockets that are OPEN and paired, so that they listen
    asking,     \* the sockets of attempts to reconnect without an answer
    answered,   \* those with one, whose close event is still to come
    due,        \* those that failed, whose retry timer is running
    renders,    \* the transfer UIs rendered so far
    handle,     \* activeTransferHandle
    pending,    \* pendingSendFiles
    picker,     \* the render whose native picker is open
    fate,       \* fate[b]: what has become of a batch
    clobbered,  \* history: a received file replaced another one
    overlap,    \* history: two renders were under way at once
    stray       \* history: an attempt to resume a session that had been
                \* left has acted on the page

tries == <<asking, answered, due>>

conn == <<page, sockets, open, tries, stray>>

vars == <<conn, renders, handle, pending, picker, fate, clobbered, overlap>>

None == 0

shown == Len(renders)

flipped(role) == IF role = "sender" THEN "receiver" ELSE "sender"

(* A fresh render: renderTransferUI awaits the epoch's key.                *)
rendering(role, session, socket) ==
    [role |-> role, session |-> session, socket |-> socket,
     state |-> "deriving", detached |-> FALSE, receiving |-> FALSE,
     batch |-> None, left |-> 0, dir |-> FALSE, used |-> {},
     there |-> {}]

Init ==
    /\ \E role \in {"sender", "receiver"} :
          /\ page = [screen |-> "paired", session |-> 1, role |-> role,
                     socket |-> 1]
          /\ renders = <<rendering(role, 1, 1)>>
    /\ sockets = <<1>> /\ open = {1}
    /\ asking = {} /\ answered = {} /\ due = {}
    /\ handle = None /\ pending = None /\ picker = None
    /\ fate = [b \in Batches |-> [is |-> "unpicked", from |-> 0]]
    /\ clobbered = FALSE /\ overlap = FALSE /\ stray = FALSE

-----------------------------------------------------------------------------
(* Rendering *)

(* Mutant: the previous handle is only forgotten.                          *)
detached_forgotten(R) == R

(* detachActiveTransfer.  What a detached receiver remembers is not looked *)
(* at again; a sender's batch goes on.                                     *)
detached(R) ==
    IF handle = None THEN R
    ELSE [R EXCEPT ![handle].detached = TRUE, ![handle].receiving = FALSE,
                   ![handle].dir = FALSE, ![handle].used = {},
                   ![handle].there = {}]

(* renderPaired, up to its await.                                          *)
renderPaired(role, session, socket) ==
    /\ Len(renders) < MaxRenders
    /\ renders' = Append(detached(renders), rendering(role, session, socket))
    /\ handle' = None
    /\ overlap' = (overlap \/ \E r \in DOMAIN renders :
                                 renders[r].state = "deriving")

(* Render r can send, and is seen to.                                      *)
working(R, r) ==
    r = shown /\ page.screen = "paired" /\ R[r].socket \in open

(* sendFiles returns at once while sending, or when detached.  It looks at *)
(* no socket and no screen: without them what is sent gets nowhere, and    *)
(* has nowhere to report to.  What is sent is enciphered for the render's  *)
(* session, and goes to the peer its socket was opened to.                 *)
fateOf(R, r, f) ==
    IF R[r].batch # None THEN "ignored"
    ELSE IF R[r].detached THEN "vanished"
    ELSE IF ~working(R, r)
         THEN IF f.is = "queued" THEN "stranded" ELSE "vanished"
    ELSE IF f.is = "started" THEN "twice"
    ELSE IF f.from # R[r].session THEN "astray"
    ELSE IF f.from # sockets[R[r].socket] THEN "misdirected"
    ELSE "started"

sendFiles(R, r, b, F) ==
    /\ renders' = IF R[r].batch = None /\ ~R[r].detached
                  THEN [R EXCEPT ![r].batch = b, ![r].left = BatchSize] ELSE R
    /\ fate' = [F EXCEPT ![b].is = fateOf(R, r, F[b])]

(* Mutant: the queue is read and kept.                                     *)
flushed_kept == pending

flushed == None

(* renderTransferUI resolves: its handle becomes the active one, whichever *)
(* render it is of and whatever is shown by then, and gets what was queued.*)
(* Without a socket attachReceiver throws.                                 *)
RenderReady(r) ==
    LET R == [renders EXCEPT ![r].state = "live"] IN
    /\ renders[r].state = "deriving"
    /\ renders[r].role = "sender" \/ renders[r].socket # None
    /\ handle' = r
    /\ \/ /\ pending # None /\ renders[r].role = "sender"
          /\ pending' = flushed
          /\ sendFiles(R, r, pending, fate)
       \/ /\ pending = None \/ renders[r].role = "receiver"
          /\ renders' = R
          /\ UNCHANGED <<pending, fate>>
    /\ UNCHANGED <<conn, picker, clobbered, overlap>>

-----------------------------------------------------------------------------
(* What makes the screen render again *)

(* The listeners of a paired socket do not look at whose it is.            *)
PeerReconnected ==
    /\ page.screen = "paired" /\ open # {}
    /\ renderPaired(page.role, page.session, page.socket)
    /\ UNCHANGED <<conn, pending, picker, fate, clobbered>>

(* isActive, of the active handle only.                                    *)
busy ==
    handle # None /\ (renders[handle].receiving \/ renders[handle].batch # None)

FlipTransferRole ==
    /\ page.screen = "paired" /\ open # {}
    /\ ~busy
    /\ page' = [page EXCEPT !.role = flipped(@)]
    /\ renderPaired(flipped(page.role), page.session, page.socket)
    /\ UNCHANGED <<sockets, open, tries, stray, pending, picker, fate,
                   clobbered>>

(* Mutant: a queued pick outlives its session.                             *)
cleared_not == UNCHANGED <<pending, fate>>

(* cleanupActive drops a queued pick.                                      *)
cleared ==
    /\ pending' = None
    /\ fate' = IF pending = None THEN fate
               ELSE [fate EXCEPT ![pending].is = "dropped"]

(* setState to a screen that is not the paired one.                        *)
leave(screen) ==
    /\ page' = [page EXCEPT !.screen = screen, !.socket = None]
    /\ open' = open \ {page.socket}
    /\ renders' = detached(renders) /\ handle' = None
    /\ cleared
    /\ UNCHANGED <<picker, clobbered, overlap>>

keep == UNCHANGED <<page, open, renders, handle, pending, picker, fate,
                    clobbered, overlap>>

(* session_ended, on any socket that listens.                              *)
SessionEnded ==
    /\ open # {} /\ leave("error")
    /\ UNCHANGED <<sockets, tries, stray>>

DisconnectSession ==
    /\ page.screen = "paired" /\ picker = None /\ leave("away")
    /\ UNCHANGED <<sockets, tries, stray>>

TryAgain ==
    /\ page.screen = "error" /\ picker = None /\ leave("away")
    /\ UNCHANGED <<sockets, tries, stray>>

(* The screens before a pairing have their own ways to setState.           *)
Navigate ==
    /\ page.screen = "away"
    /\ \E screen \in {"away", "error"} : leave(screen)
    /\ UNCHANGED <<sockets, tries, stray>>

(* Another pairing, with another peer: finalizePaired.  The active socket  *)
(* is the flow's own, unless a reconnected has come in after it.           *)
FinalizePaired ==
    /\ page.screen = "away"
    /\ Len(sockets) < MaxSockets
    /\ \E role \in {"sender", "receiver"},
          n \in {Len(sockets) + 1} \cup ({page.socket} \ {None}) :
          /\ page' = [screen |-> "paired", session |-> page.session + 1,
                      role |-> role, socket |-> n]
          /\ renderPaired(role, page.session + 1, n)
    /\ sockets' = Append(sockets, page.session + 1)
    /\ open' = open \cup {Len(sockets) + 1}
    /\ UNCHANGED <<tries, stray, pending, picker, fate, clobbered>>

-----------------------------------------------------------------------------
(* Reconnecting *)

(* A socket dies; the page learns of it later, from the close event.       *)
SocketDies ==
    /\ \E n \in open : open' = open \ {n}
    /\ UNCHANGED <<page, sockets, tries, stray, renders, handle, pending,
                   picker, fate, clobbered, overlap>>

(* A new socket that asks to resume the session the page is in.            *)
attempt ==
    /\ Len(sockets) < MaxSockets
    /\ sockets' = Append(sockets, page.session)
    /\ asking' = asking \cup {Len(sockets) + 1}

(* attemptReconnect's way out when there is no token yet is the error.     *)
CloseEvent ==
    /\ page.screen = "paired"
    /\ page.socket # None /\ page.socket \notin open
    /\ \/ /\ attempt
          /\ page' = [page EXCEPT !.socket = None]
          /\ UNCHANGED <<open, renders, handle, pending, picker, fate,
                         clobbered, overlap>>
       \/ leave("error") /\ UNCHANGED <<sockets, asking>>
    /\ answered' = answered \ {page.socket}
    /\ UNCHANGED <<due, stray>>

(* The page is still paired in the session the attempt is for.             *)
mine(n) == page.screen = "paired" /\ sockets[n] = page.session

(* An attempt's close event, unless the active socket is its own: the      *)
(* attempts are used up, or a timer starts.                                *)
AttemptFails(n) ==
    /\ n \in asking \cup answered /\ n \notin open /\ n # page.socket
    /\ asking' = asking \ {n} /\ answered' = answered \ {n}
    /\ \/ page.screen # "paired" /\ keep /\ UNCHANGED due
       \/ page.screen = "paired" /\ keep /\ due' = due \cup {n}
       \/ page.screen = "paired" /\ leave("error") /\ UNCHANGED due
    /\ stray' = (stray \/ (page.screen = "paired" /\ ~mine(n)))
    /\ UNCHANGED sockets

RetryTimer(n) ==
    /\ n \in due /\ due' = due \ {n}
    /\ \/ page.screen # "paired" /\ keep /\ UNCHANGED <<sockets, asking>>
       \/ page.screen = "paired" /\ keep /\ attempt
       \/ /\ page.screen = "paired" /\ leave("error")
          /\ UNCHANGED <<sockets, asking>>
    /\ stray' = (stray \/ (page.screen = "paired" /\ ~mine(n)))
    /\ UNCHANGED answered

hears(n) ==
    n \in asking /\ asking' = asking \ {n} /\ answered' = answered \cup {n}

(* error: the relay refuses.                                               *)
HearError(n) ==
    /\ hears(n)
    /\ leave("error")
    /\ stray' = (stray \/ ~mine(n))
    /\ UNCHANGED <<sockets, due>>

(* reconnected: nothing is looked at, and whatever screen is shown is      *)
(* rendered again.                                                         *)
HearReconnected(n) ==
    /\ hears(n)
    /\ page' = [page EXCEPT !.socket = n]
    /\ open' = open \cup {n}
    /\ \/ page.screen = "paired" /\ renderPaired(page.role, page.session, n)
       \/ page.screen # "paired" /\ UNCHANGED <<renders, handle, overlap>>
    /\ stray' = (stray \/ ~mine(n))
    /\ UNCHANGED <<sockets, due, pending, picker, fate, clobbered>>

-----------------------------------------------------------------------------
(* The sender's screen *)

(* The shown input is disabled while its render sends.                     *)
OpenPicker ==
    /\ page.screen = "paired" /\ picker = None
    /\ renders[shown].state = "live" /\ renders[shown].batch = None
    /\ picker' = shown
    /\ UNCHANGED <<conn, renders, handle, pending, fate, clobbered, overlap>>

(* onStaleFiles: to the handle there is by now, if it can send, else into  *)
(* the queue, in place of what was there.                                  *)
onStaleFiles(b, F) ==
    \/ /\ handle # None /\ renders[handle].role = "sender"
       /\ page.screen = "paired" /\ page.socket \in open
       /\ sendFiles(renders, handle, b, F)
       /\ UNCHANGED pending
    \/ /\ \/ handle = None \/ page.screen # "paired"
          \/ page.socket \notin open
          \/ handle # None /\ renders[handle].role = "receiver"
       /\ pending' = b
       /\ fate' = [c \in Batches |->
             IF c = b THEN [F[b] EXCEPT !.is = "queued"]
             ELSE IF c = pending THEN [F[c] EXCEPT !.is = "replaced"]
             ELSE F[c]]
       /\ UNCHANGED renders

(* Mutant: only the socket is looked at.                                   *)
stale_bySocket(r) == renders[r].socket \notin open

stale(r) == renders[r].detached \/ renders[r].socket \notin open

(* handlePicked, of the render the files were given to.  It throws where   *)
(* there is no socket to look at.                                          *)
handlePicked(r, b) ==
    LET F == [fate EXCEPT ![b].from = renders[r].session] IN
    /\ fate[b].is = "unpicked"
    /\ \/ /\ renders[r].socket = None /\ ~renders[r].detached
          /\ fate' = [F EXCEPT ![b].is = "vanished"]
          /\ UNCHANGED <<renders, pending>>
       \/ /\ renders[r].socket # None \/ renders[r].detached
          /\ stale(r) /\ onStaleFiles(b, F)
       \/ ~stale(r) /\ sendFiles(renders, r, b, F) /\ UNCHANGED pending
    /\ UNCHANGED <<conn, handle, clobbered, overlap>>

PickFiles ==
    /\ picker # None /\ renders[picker].role = "sender"
    /\ \E b \in Batches : handlePicked(picker, b)
    /\ picker' = None

(* Only the shown render can be dropped on.                                *)
DropFiles ==
    /\ page.screen = "paired"
    /\ renders[shown].role = "sender" /\ renders[shown].state = "live"
    /\ \E b \in Batches : handlePicked(shown, b)
    /\ UNCHANGED picker

(* sendFile ends, well or badly; then the next file, unless detached.      *)
FileSent(r) ==
    LET b    == renders[r].batch
        left == renders[r].left - 1
        stop == renders[r].detached \/ left = 0 IN
    /\ b # None
    /\ renders' = [renders EXCEPT ![r].left = IF stop THEN 0 ELSE left,
                                  ![r].batch = IF stop THEN None ELSE b]
    /\ fate' = IF stop /\ left > 0 THEN [fate EXCEPT ![b].is = "broken off"]
               ELSE fate
    /\ UNCHANGED <<conn, handle, pending, picker, clobbered, overlap>>

-----------------------------------------------------------------------------
(* The receiver's screen *)

(* chooseSaveDirectory returns a folder, or null.                          *)
ChooseSaveDirectory ==
    /\ picker # None /\ renders[picker].role = "receiver"
    /\ \/ renders' = renders
       \/ ~renders[picker].detached /\ renders' = [renders EXCEPT ![picker].dir = TRUE,
                            ![picker].used = {}, ![picker].there = {}]
    /\ picker' = None
    /\ UNCHANGED <<conn, handle, pending, fate, clobbered, overlap>>

(* Mutant: the candidate is not compared with the names in use.            *)
dedupeFilename_once(used, name) ==
    IF name \notin used THEN name ELSE Append(name, 1)

dedupeFilename(used, name) ==
    IF name \notin used THEN name
    ELSE Append(name, Min({i \in 1..Cardinality(used) + 1 :
                             Append(name, i) \notin used}))

(* onFileStart: a name, and a sink in the folder, or, where there is none  *)
(* or it refuses, by a dialog or as a download.                            *)
FileStart(r) ==
    \E name \in Names :
       LET saveName == dedupeFilename(renders[r].used, name)
           R == [renders EXCEPT ![r].receiving = TRUE] IN
       /\ r <= MaxReceivers
       /\ renders[r].role = "receiver" /\ renders[r].state = "live"
       /\ ~renders[r].detached /\ ~renders[r].receiving
       /\ renders[r].socket \in open
       /\ Cardinality(renders[r].used) < MaxFiles
       /\ \/ ~renders[r].dir /\ renders' = R /\ UNCHANGED clobbered
          \/ /\ renders[r].dir
             /\ renders' = [R EXCEPT ![r].used = @ \cup {saveName}]
             /\ UNCHANGED clobbered
          \/ /\ renders[r].dir
             /\ renders' = [R EXCEPT ![r].used = @ \cup {saveName},
                                     ![r].there = @ \cup {saveName}]
             /\ clobbered' = (clobbered \/ saveName \in renders[r].there)
       /\ UNCHANGED <<conn, handle, pending, picker, fate, overlap>>

(* onFileComplete, onAborted or onError.                                   *)
FileEnds(r) ==
    /\ renders[r].receiving /\ ~renders[r].detached
    /\ renders' = [renders EXCEPT ![r].receiving = FALSE]
    /\ UNCHANGED <<conn, handle, pending, picker, fate, clobbered, overlap>>

Next ==
    \/ \E r \in DOMAIN renders :
          RenderReady(r) \/ FileSent(r) \/ FileStart(r) \/ FileEnds(r)
    \/ \E n \in 1..Len(sockets) :
          \/ AttemptFails(n) \/ RetryTimer(n)
          \/ HearError(n) \/ HearReconnected(n)
    \/ PeerReconnected \/ FlipTransferRole \/ SocketDies \/ CloseEvent
    \/ SessionEnded \/ DisconnectSession \/ TryAgain \/ Navigate
    \/ FinalizePaired \/ OpenPicker \/ PickFiles \/ DropFiles
    \/ ChooseSaveDirectory

Spec == Init /\ [][Next]_vars

-----------------------------------------------------------------------------
(* Properties *)

(* A picker may return to a render that is detached, replaced, or whose    *)
(* socket or session is gone: even so handlePicked and onStaleFiles give   *)
(* no batch to a UI that cannot send it or is not seen.  It is started on  *)
(* the shown screen over an open socket, queued, replaced by a later pick, *)
(* ignored because another one is being sent, or dropped with its session; *)
(* unless two renders were under way at once, or an attempt to resume a    *)
(* session that had been left has acted on the page.  What the queue does  *)
(* with a batch ("stranded") and a detached render with the rest of one    *)
(* ("broken off") is another matter: those files are lost.                 *)
PickedIsKept ==
    ~overlap /\ ~stray => \A b \in Batches : fate[b].is # "vanished"

(* A queued batch is handed over once, however often the screen is         *)
(* rendered again.                                                         *)
SentOnce == \A b \in Batches : fate[b].is # "twice"

(* Files picked in one session are never enciphered for another one, even  *)
(* if the picker returns after the session has ended; and they go to no    *)
(* other peer's socket, until an attempt to resume a session that had been *)
(* left has acted on the page.                                             *)
FilesStayInSession ==
    \A b \in Batches :
       /\ fate[b].is # "astray"
       /\ ~stray => fate[b].is # "misdirected"

(* Of all the transfer UIs ever rendered only the active one listens:      *)
(* unless two renders were under way at once, every other one has been     *)
(* detached.                                                               *)
OneListener ==
    ~overlap => \A r \in DOMAIN renders :
       renders[r].state = "live" /\ ~renders[r].detached => r = handle

(* Two files received into one choice of a folder never get the same name. *)
NoOverwrite == ~clobbered

=============================================================================
