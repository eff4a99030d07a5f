----------------------- MODULE TransferScreensProofs ------------------------
(***************************************************************************)
(* Proofs about TransferScreens, for any batches of any size, any names,   *)
(* and any number of renders and sockets: what becomes of picked files,    *)
(* which render listens, and what received files are called.               *)
(***************************************************************************)
EXTENDS TransferScreens, FiniteSetTheorems, WellFoundedInduction, TLAPS

Roles == {"sender", "receiver"}

Pages == [screen : {"paired", "error", "away"}, session : Nat, role : Roles,
          socket : Nat]

Fates == {"unpicked", "queued", "started", "replaced", "ignored", "dropped",
          "stranded", "vanished", "broken off", "twice", "astray",
          "misdirected"}

FateRecords == [is : Fates, from : Nat]

RenderRecords ==
    [role : Roles, session : Nat, socket : Nat,
     state : {"deriving", "live"}, detached : BOOLEAN, receiving : BOOLEAN,
     batch : Batches \cup {None}, left : Int, dir : BOOLEAN,
     used : SUBSET Seq(Nat), there : SUBSET Seq(Nat)]

ConnTyped ==
    /\ page \in Pages /\ page.socket \in 0..Len(sockets)
    /\ sockets \in Seq(Nat)
    /\ open \subseteq 1..Len(sockets) /\ asking \subseteq 1..Len(sockets)
    /\ answered \subseteq 1..Len(sockets) /\ due \subseteq 1..Len(sockets)
    /\ stray \in BOOLEAN

(* Until an attempt for another session has acted on the page: only the    *)
(* active socket is open, it is of the page's session, and there is one    *)
(* only on the paired screen; at most one attempt to resume that session   *)
(* is under way, and none while there is an active socket.                 *)
Connected ==
    /\ \A n \in 1..Len(sockets) : sockets[n] <= page.session
    /\ asking \cap due = {}
    /\ ~stray =>
          /\ open \subseteq {page.socket}
          /\ page.socket # None => /\ page.screen = "paired"
                                   /\ sockets[page.socket] = page.session
          /\ page.screen = "paired" =>
                /\ \A m, n \in asking \cup due :
                      sockets[m] = page.session /\ sockets[n] = page.session
                      => page.socket = None /\ m = n
                /\ \A n \in answered :
                      sockets[n] = page.session => n = page.socket

Typed ==
    /\ renders \in Seq(RenderRecords) /\ renders # <<>>
    /\ handle \in 0..Len(renders)
    /\ pending \in Batches \cup {None}
    /\ picker \in 0..Len(renders)
    /\ fate \in [Batches -> FateRecords]
    /\ overlap \in BOOLEAN /\ clobbered \in BOOLEAN

(* The shown render's socket is one of its session, and the active one     *)
(* wherever there is an active one.                                        *)
Attached ==
    ~stray => /\ renders[shown].socket \in 1..Len(sockets)
              /\ sockets[renders[shown].socket] = page.session
              /\ page.socket # None => renders[shown].socket = page.socket

(* The active handle is of a render that is ready and listens; what is     *)
(* still rendering has not been detached.                                  *)
HandleLive ==
    /\ handle # None =>
          renders[handle].state = "live" /\ ~renders[handle].detached
    /\ \A r \in 1..Len(renders) :
          renders[r].state = "deriving" => ~renders[r].detached

(* One render at a time: only the shown one may still be rendering, there  *)
(* is no handle then, and the handle there is otherwise is the shown one's.*)
InTurn ==
    ~overlap =>
       /\ \A r \in 1..Len(renders) :
             renders[r].state = "deriving" => r = shown /\ handle = None
       /\ handle # None => handle = shown

(* The shown render, an open picker and a queued pick are of the session   *)
(* the page is in; none is left of either where a new session can begin.   *)
SameSession ==
    /\ renders[shown].session = page.session
    /\ picker # None => /\ renders[picker].session = page.session
                        /\ renders[picker].state = "live"
    /\ pending # None => /\ fate[pending].is = "queued"
                         /\ fate[pending].from = page.session
    /\ page.screen = "away" => picker = None /\ pending = None

(* A batch that a render sends, or has failed to, is not to be sent any    *)
(* more.                                                                   *)
Given ==
    \A r \in 1..Len(renders) :
       renders[r].batch # None =>
          fate[renders[r].batch].is \notin {"unpicked", "queued"}

(* What PickedIsKept, SentOnce and FilesStayInSession ask of one batch.    *)
good(is) ==
    /\ is \notin {"twice", "astray"}
    /\ ~overlap /\ ~stray => is # "vanished"
    /\ ~stray => is # "misdirected"

GoodFates == \A b \in Batches : good(fate[b].is)

(* A folder holds only files whose names the render remembers.             *)
NamesRemembered ==
    \A r \in 1..Len(renders) :
       IsFiniteSet(renders[r].used) /\ renders[r].there \subseteq renders[r].used

Screened ==
    /\ HandleLive /\ InTurn /\ SameSession /\ OneListener
    /\ Attached /\ Given /\ GoodFates

Wired == ConnTyped /\ Connected

Rendered == Typed /\ Screened /\ NamesRemembered /\ NoOverwrite

IInv == Wired /\ Rendered

-----------------------------------------------------------------------------
(* Sockets *)

(* The steps that leave the page's sockets and attempts as they are.       *)
LEMMA SameConn ==
    ASSUME Wired, UNCHANGED <<sockets, open, tries, stray>>,
           page' \in Pages, page'.screen = page.screen,
           page'.session = page.session, page'.socket = page.socket
    PROVE  Wired'
  BY DEF Wired, ConnTyped, Connected, tries

(* Leaving the paired screen, or the error it ended in.                    *)
LEMMA LeaveConn ==
    ASSUME Wired, NEW screen \in {"error", "away"}, leave(screen),
           UNCHANGED sockets, stray' \in BOOLEAN, stray => stray',
           asking' \subseteq asking, due' \subseteq due,
           answered' \subseteq 1..Len(sockets)
    PROVE  Wired'
  <1>1. /\ page' = [page EXCEPT !.screen = screen, !.socket = None]
        /\ open' = open \ {page.socket}
    BY DEF leave
  <1>2. /\ page' \in Pages /\ page'.screen = screen /\ page'.socket = None
        /\ page'.session = page.session
    BY <1>1 DEF Wired, ConnTyped, Pages, None
  <1>3. ConnTyped'
    BY <1>1, <1>2 DEF Wired, ConnTyped, None
  <1>4. Connected'
    BY <1>1, <1>2 DEF Wired, ConnTyped, Connected, None
  <1> QED
    BY <1>3, <1>4 DEF Wired

LEMMA FinalizeConn ==
    ASSUME Wired, FinalizePaired
    PROVE  Wired'
  <1> DEFINE k == Len(sockets) + 1
             s == page.session + 1
  <1>1. PICK role \in Roles, n \in {k} \cup ({page.socket} \ {None}) :
           page' = [screen |-> "paired", session |-> s, role |-> role,
                    socket |-> n]
    BY DEF FinalizePaired, Roles
  <1>2. /\ page.screen = "away" /\ sockets' = Append(sockets, s)
        /\ open' = open \cup {k} /\ UNCHANGED <<asking, answered, due, stray>>
    BY DEF FinalizePaired, tries
  <1>3. /\ page.session \in Nat /\ s \in Nat /\ Len(sockets) \in Nat
        /\ page.socket \in 0..Len(sockets) /\ sockets \in Seq(Nat)
    BY DEF Wired, ConnTyped, Pages
  <1>4. /\ sockets' \in Seq(Nat) /\ Len(sockets') = k /\ sockets'[k] = s
        /\ \A i \in 1..Len(sockets) : sockets'[i] = sockets[i]
        /\ 1..Len(sockets') = 1..Len(sockets) \cup {k}
    BY <1>2, <1>3
  <1>5. n \in 1..k /\ page' \in Pages
    BY <1>1, <1>3 DEF Pages, None
  <1>6. /\ page'.screen = "paired" /\ page'.session = s /\ page'.socket = n
    BY <1>1
  <1> HIDE DEF k, s
  <1>7. ConnTyped'
    <2>1. page'.socket \in 0..Len(sockets')
      BY <1>3, <1>4, <1>5, <1>6
    <2>2. /\ open' \subseteq 1..Len(sockets') /\ asking' \subseteq 1..Len(sockets')
          /\ answered' \subseteq 1..Len(sockets') /\ due' \subseteq 1..Len(sockets')
          /\ stray' \in BOOLEAN
      BY <1>2, <1>4 DEF Wired, ConnTyped
    <2> QED
      BY <1>4, <1>5, <2>1, <2>2 DEF ConnTyped
  <1>8. \A i \in 1..Len(sockets) : sockets'[i] # s
    BY <1>3, <1>4 DEF Wired, Connected, s
  <1>9. ~stray => n = k /\ open' = {k}
    <2>1. ASSUME ~stray
          PROVE  page.socket = None /\ open = {}
      <3>1. page.socket = None
        BY <1>2, <2>1 DEF Wired, Connected
      <3>2. 0 \notin open
        BY DEF Wired, ConnTyped
      <3> QED
        BY <2>1, <3>1, <3>2 DEF Wired, Connected, None
    <2> QED
      BY <1>2, <2>1
  <1>10. Connected'
    <2>1. \A i \in 1..Len(sockets') : sockets'[i] <= s
      <3>1. ASSUME NEW i \in 1..Len(sockets)
            PROVE  sockets'[i] <= s
        <4>1. sockets[i] \in Nat /\ sockets[i] <= page.session
          BY <1>3 DEF Wired, Connected
        <4> QED
          BY <1>3, <1>4, <4>1 DEF s
      <3>2. sockets'[k] <= s
        BY <1>3, <1>4
      <3> QED
        BY <1>4, <3>1, <3>2
    <2>2. \A i \in asking \cup answered \cup due : sockets'[i] # s
      BY <1>8 DEF Wired, ConnTyped
    <2>3. k \in 1..Len(sockets')
      BY <1>4
    <2> QED
      BY <1>2, <1>4, <1>6, <1>9, <2>1, <2>2, <2>3 DEF Wired, Connected
  <1> QED
    BY <1>7, <1>10 DEF Wired

(* One more attempt, in the place of what it follows.                      *)
LEMMA AttemptConn ==
    ASSUME Wired, attempt, page.screen = "paired",
           page' = page \/ page' = [page EXCEPT !.socket = None],
           open' = open, stray' \in BOOLEAN, stray => stray',
           due' \subseteq due, answered' \subseteq answered,
           ~stray' => /\ page'.socket = None
                      /\ page.socket \notin open
                      /\ page.socket \notin answered'
                      /\ \A n \in asking \cup due' : sockets[n] # page.session
    PROVE  Wired'
  <1> DEFINE k == Len(sockets) + 1
  <1>1. sockets' = Append(sockets, page.session) /\ asking' = asking \cup {k}
    BY DEF attempt
  <1>2. /\ page \in Pages /\ page.session \in Nat /\ Len(sockets) \in Nat
        /\ page.socket \in 0..Len(sockets) /\ sockets \in Seq(Nat)
    BY DEF Wired, ConnTyped, Pages
  <1>3. /\ sockets' \in Seq(Nat) /\ Len(sockets') = k
        /\ sockets'[k] = page.session
        /\ \A i \in 1..Len(sockets) : sockets'[i] = sockets[i]
        /\ 1..Len(sockets') = 1..Len(sockets) \cup {k}
        /\ k \notin 1..Len(sockets)
    BY <1>1, <1>2
  <1>4. /\ page' \in Pages /\ page'.screen = page.screen
        /\ page'.session = page.session
        /\ page'.socket \in {page.socket, None}
    BY <1>2 DEF Pages, None
  <1>5. ConnTyped'
    <2>1. page'.socket \in 0..Len(sockets')
      BY <1>2, <1>3, <1>4 DEF None
    <2> QED
      BY <1>1, <1>3, <1>4, <2>1 DEF Wired, ConnTyped
  <1>6. Connected'
    <2>1. \A n \in 1..Len(sockets') : sockets'[n] <= page'.session
      BY <1>2, <1>3, <1>4 DEF Wired, Connected
    <2>2. asking' \cap due' = {}
      BY <1>1, <1>3 DEF Wired, ConnTyped, Connected
    <2>3. ASSUME ~stray'
          PROVE  /\ open' = {} /\ page'.socket = None
                 /\ \A n \in asking' \cup due' :
                       sockets'[n] = page'.session => n = k
                 /\ \A n \in answered' : sockets'[n] # page'.session
      <3>1. open = {}
        BY <2>3 DEF Wired, Connected
      <3>2. \A n \in asking \cup due' : sockets'[n] # page'.session
        BY <1>3, <1>4, <2>3 DEF Wired, ConnTyped
      <3>3. \A n \in answered' : sockets'[n] # page'.session
        BY <1>3, <1>4, <2>3 DEF Wired, ConnTyped, Connected
      <3> QED
        BY <1>1, <2>3, <3>1, <3>2, <3>3
    <2> QED
      BY <2>1, <2>2, <2>3 DEF Connected
  <1> QED
    BY <1>5, <1>6 DEF Wired

LEMMA CloseConn ==
    ASSUME Wired, SocketDies \/ CloseEvent
    PROVE  Wired'
  <1>1. CASE SocketDies
    BY <1>1 DEF SocketDies, Wired, ConnTyped, Connected, tries
  <1>2. CASE CloseEvent
    <2>1. /\ page.screen = "paired" /\ page.socket # None
          /\ page.socket \notin open
          /\ answered' = answered \ {page.socket}
          /\ UNCHANGED <<due, stray>>
      BY <1>2 DEF CloseEvent
    <2>2. CASE /\ attempt /\ page' = [page EXCEPT !.socket = None]
               /\ UNCHANGED open
      <3>1. page'.socket = None
        BY <2>2 DEF Wired, ConnTyped, Pages
      <3>2. ~stray => \A n \in asking \cup due : sockets[n] # page.session
        BY <2>1 DEF Wired, Connected
      <3> QED
        BY <2>1, <2>2, <3>1, <3>2, AttemptConn DEF Wired, ConnTyped
    <2>3. CASE leave("error") /\ UNCHANGED <<sockets, asking>>
      BY <2>1, <2>3, LeaveConn DEF Wired, ConnTyped
    <2> QED
      BY <1>2, <2>2, <2>3 DEF CloseEvent
  <1> QED
    BY <1>1, <1>2

LEMMA AttemptFailsConn ==
    ASSUME Wired, NEW n \in 1..Len(sockets), AttemptFails(n)
    PROVE  Wired'
  <1>1. /\ n \in asking \cup answered /\ n \notin open /\ n # page.socket
        /\ asking' = asking \ {n} /\ answered' = answered \ {n}
        /\ UNCHANGED sockets
        /\ stray' = (stray \/ (page.screen = "paired" /\ ~mine(n)))
    BY DEF AttemptFails
  <1>2. stray' \in BOOLEAN /\ (stray => stray')
    BY <1>1 DEF Wired, ConnTyped, mine
  <1>3. CASE leave("error") /\ UNCHANGED due
    BY <1>1, <1>2, <1>3, LeaveConn DEF Wired, ConnTyped
  <1>4. CASE keep /\ (UNCHANGED due \/ (page.screen = "paired" /\ due' = due \cup {n}))
    <2>1. UNCHANGED <<page, open>>
      BY <1>4 DEF keep
    <2>2. ConnTyped'
      BY <1>1, <1>2, <1>4, <2>1 DEF Wired, ConnTyped
    <2>3. asking' \cap due' = {}
      BY <1>1, <1>4 DEF Wired, Connected
    <2>4. ASSUME ~stray', page.screen = "paired"
          PROVE  /\ ~stray /\ n \in asking
                 /\ sockets[n] = page.session /\ page.socket = None
      BY <1>1, <1>2, <2>4 DEF Wired, Connected, mine
    <2>5. \A m \in asking' \cup due' : m \in asking \cup due \/ (m = n /\ page.screen = "paired")
      BY <1>1, <1>4
    <2> QED
      BY <1>1, <1>2, <2>1, <2>2, <2>3, <2>4, <2>5 DEF Wired, Connected
  <1> QED
    BY <1>3, <1>4 DEF AttemptFails

LEMMA RetryTimerConn ==
    ASSUME Wired, NEW n \in 1..Len(sockets), RetryTimer(n)
    PROVE  Wired'
  <1>1. /\ n \in due /\ due' = due \ {n} /\ UNCHANGED answered
        /\ stray' = (stray \/ (page.screen = "paired" /\ ~mine(n)))
    BY DEF RetryTimer
  <1>2. stray' \in BOOLEAN /\ (stray => stray')
    BY <1>1 DEF Wired, ConnTyped, mine
  <1>3. CASE leave("error") /\ UNCHANGED <<sockets, asking>>
    BY <1>1, <1>2, <1>3, LeaveConn DEF Wired, ConnTyped
  <1>4. CASE keep /\ UNCHANGED <<sockets, asking>>
    BY <1>1, <1>2, <1>4 DEF keep, Wired, ConnTyped, Connected
  <1>5. CASE page.screen = "paired" /\ keep /\ attempt
    <2>1. UNCHANGED <<page, open>>
      BY <1>5 DEF keep
    <2>2. ASSUME ~stray'
          PROVE  /\ page'.socket = None
                 /\ page.socket \notin open
                 /\ page.socket \notin answered'
                 /\ \A m \in asking \cup due' : sockets[m] # page.session
      <3>1. ~stray /\ sockets[n] = page.session
        BY <1>1, <1>2, <1>5, <2>2 DEF mine
      <3>2. page.socket = None
        BY <1>1, <1>5, <3>1 DEF Wired, Connected
      <3>3. n \notin asking
        BY <1>1 DEF Wired, Connected
      <3>4. 0 \notin 1..Len(sockets)
        OBVIOUS
      <3> QED
        BY <1>1, <1>5, <2>1, <3>1, <3>2, <3>3, <3>4
           DEF Wired, ConnTyped, Connected, None
    <2> QED
      BY <1>1, <1>2, <1>5, <2>1, <2>2, AttemptConn
  <1> QED
    BY <1>3, <1>4, <1>5 DEF RetryTimer

LEMMA HearConn ==
    ASSUME Wired, NEW n \in 1..Len(sockets), HearError(n) \/ HearReconnected(n)
    PROVE  Wired'
  <1>1. /\ n \in asking /\ asking' = asking \ {n}
        /\ answered' = answered \cup {n}
        /\ stray' = (stray \/ ~mine(n)) /\ UNCHANGED <<sockets, due>>
    BY DEF HearError, HearReconnected, hears
  <1>2. stray' \in BOOLEAN /\ (stray => stray')
    BY <1>1 DEF Wired, ConnTyped, mine
  <1>3. CASE HearError(n)
    <2>1. leave("error")
      BY <1>3 DEF HearError
    <2> QED
      BY <1>1, <1>2, <2>1, LeaveConn DEF Wired, ConnTyped
  <1>4. CASE HearReconnected(n)
    <2>1. page' = [page EXCEPT !.socket = n] /\ open' = open \cup {n}
      BY <1>4 DEF HearReconnected
    <2>2. /\ page' \in Pages /\ page'.socket = n /\ n # None
          /\ page'.screen = page.screen /\ page'.session = page.session
      BY <2>1 DEF Wired, ConnTyped, Pages, None
    <2>3. ConnTyped'
      BY <1>1, <1>2, <2>1, <2>2 DEF Wired, ConnTyped
    <2>4. ASSUME ~stray'
          PROVE  /\ ~stray /\ page.screen = "paired"
                 /\ sockets[n] = page.session /\ page.socket = None
                 /\ open' = {n}
                 /\ \A m \in asking' \cup due' : sockets[m] # page.session
                 /\ \A m \in answered : sockets[m] # page.session
      <3>1. ~stray /\ page.screen = "paired" /\ sockets[n] = page.session
        BY <1>1, <2>4 DEF mine
      <3>2. page.socket = None
        BY <1>1, <3>1 DEF Wired, Connected
      <3>3. None \notin 1..Len(sockets)
        BY DEF None
      <3>4. open = {} /\ None \notin answered
        BY <3>1, <3>2, <3>3 DEF Wired, ConnTyped, Connected
      <3>5. n \notin due
        BY <1>1 DEF Wired, Connected
      <3> QED
        BY <1>1, <2>1, <3>1, <3>2, <3>4, <3>5 DEF Wired, Connected
    <2>5. asking' \cap due' = {}
      BY <1>1 DEF Wired, Connected
    <2>6. ASSUME ~stray'
          PROVE  /\ open' \subseteq {page'.socket}
                 /\ page'.screen = "paired" /\ sockets'[page'.socket] = page'.session
                 /\ \A m \in asking' \cup due' : sockets'[m] # page'.session
                 /\ \A m \in answered' : sockets'[m] = page'.session => m = page'.socket
      BY <1>1, <2>2, <2>4, <2>6
    <2>7. \A m \in 1..Len(sockets') : sockets'[m] <= page'.session
      BY <1>1, <2>2 DEF Wired, Connected
    <2> QED
      BY <2>3, <2>5, <2>6, <2>7 DEF Wired, Connected
  <1> QED
    BY <1>3, <1>4

-----------------------------------------------------------------------------
(* Renders *)

(* One render changed: the others, and how many there are, stay.           *)
LEMMA OneRender ==
    ASSUME NEW R \in Seq(RenderRecords), NEW r \in 1..Len(R),
           NEW e \in RenderRecords
    PROVE  LET Q == [R EXCEPT ![r] = e] IN
           /\ Q \in Seq(RenderRecords) /\ Len(Q) = Len(R)
           /\ Q[r] = e
           /\ \A i \in 1..Len(R) : i # r => Q[i] = R[i]
  OBVIOUS

LEMMA BatchTyped ==
    ASSUME Typed
    PROVE  \A r \in 1..Len(renders) : renders[r].batch \in Batches \cup {None}
  <1> SUFFICES ASSUME NEW r \in 1..Len(renders)
               PROVE  renders[r].batch \in Batches \cup {None}
    OBVIOUS
  <1>1. renders[r] \in RenderRecords
    BY DEF Typed
  <1> QED
    BY <1>1 DEF RenderRecords

(* What detachActiveTransfer does to the renders.                          *)
LEMMA DetachedRenders ==
    ASSUME Typed
    PROVE  LET D == detached(renders) IN
           /\ D \in Seq(RenderRecords) /\ Len(D) = Len(renders)
           /\ \A i \in 1..Len(renders) :
                 /\ D[i].session = renders[i].session
                 /\ D[i].socket = renders[i].socket
                 /\ D[i].batch = renders[i].batch
                 /\ D[i].state = renders[i].state
                 /\ D[i].detached <=> renders[i].detached \/ i = handle
                 /\ \/ D[i].used = renders[i].used /\ D[i].there = renders[i].there
                    \/ D[i].used = {} /\ D[i].there = {}
  <1>1. CASE handle = None
    BY <1>1 DEF detached, Typed, None
  <1>2. CASE handle # None
    <2> DEFINE e == [renders[handle] EXCEPT !.detached = TRUE,
                       !.receiving = FALSE, !.dir = FALSE, !.used = {},
                       !.there = {}]
    <2>1. handle \in 1..Len(renders) /\ renders[handle] \in RenderRecords
      BY <1>2 DEF Typed, None
    <2>2. e \in RenderRecords /\ e.session = renders[handle].session
          /\ e.socket = renders[handle].socket
          /\ e.batch = renders[handle].batch
          /\ e.state = renders[handle].state /\ e.detached = TRUE
          /\ e.used = {} /\ e.there = {}
      BY <2>1 DEF RenderRecords
    <2>3. detached(renders) = [renders EXCEPT ![handle] = e]
      BY <1>2, <2>1 DEF detached, Typed, RenderRecords
    <2> HIDE DEF e
    <2> QED
      BY <2>1, <2>2, <2>3, OneRender DEF Typed
  <1> QED
    BY <1>1, <1>2

(* The renders after renderPaired: the ones before, and a new one.         *)
LEMMA RenderedRenders ==
    ASSUME Typed, NEW role \in Roles, NEW session \in Nat, NEW socket \in Nat,
           renderPaired(role, session, socket)
    PROVE  LET n == Len(renders) + 1 IN
           /\ renders' \in Seq(RenderRecords) /\ Len(renders') = n
           /\ handle' = None
           /\ \A i \in 1..Len(renders) :
                 /\ renders'[i].session = renders[i].session
                 /\ renders'[i].batch = renders[i].batch
                 /\ renders'[i].state = renders[i].state
                 /\ renders'[i].detached <=> renders[i].detached \/ i = handle
                 /\ \/ /\ renders'[i].used = renders[i].used
                       /\ renders'[i].there = renders[i].there
                    \/ renders'[i].used = {} /\ renders'[i].there = {}
           /\ renders'[n].session = session /\ renders'[n].socket = socket
           /\ renders'[n].batch = None
           /\ renders'[n].state = "deriving" /\ ~renders'[n].detached
           /\ renders'[n].used = {} /\ renders'[n].there = {}
           /\ overlap' \in BOOLEAN
           /\ overlap' <=> \/ overlap
                          \/ \E r \in 1..Len(renders) :
                                renders[r].state = "deriving"
  <1> DEFINE D == detached(renders)
             e == rendering(role, session, socket)
  <1>1. D \in Seq(RenderRecords) /\ Len(D) = Len(renders)
    BY DetachedRenders
  <1>2. e \in RenderRecords /\ e.session = session /\ e.state = "deriving"
        /\ e.socket = socket /\ e.batch = None
        /\ ~e.detached /\ e.used = {} /\ e.there = {}
    BY DEF rendering, RenderRecords, None, Roles
  <1>3. renders' = Append(D, e) /\ handle' = None
    BY DEF renderPaired
  <1> HIDE DEF D, e
  <1>4. /\ renders' \in Seq(RenderRecords) /\ Len(renders') = Len(renders) + 1
        /\ \A i \in 1..Len(renders) : renders'[i] = D[i]
        /\ renders'[Len(renders) + 1] = e
    BY <1>1, <1>2, <1>3
  <1>5. DOMAIN renders = 1..Len(renders)
    BY DEF Typed
  <1>6. /\ overlap' \in BOOLEAN
        /\ overlap' <=> \/ overlap
                       \/ \E r \in 1..Len(renders) :
                             renders[r].state = "deriving"
    BY <1>5 DEF renderPaired, Typed
  <1> QED
    BY <1>2, <1>3, <1>4, <1>6, DetachedRenders DEF D

(* Rendering again, in the same session, or in a new one when nothing is   *)
(* left of the one before.                                                 *)
LEMMA RenderStep ==
    ASSUME Rendered,
           NEW role \in Roles, NEW session \in Nat, NEW socket \in Nat,
           renderPaired(role, session, socket),
           UNCHANGED <<pending, picker, fate, clobbered>>,
           page'.screen = "paired", page'.session = session,
           stray => stray',
           ~stray' => /\ socket \in 1..Len(sockets')
                      /\ sockets'[socket] = session
                      /\ page'.socket = socket,
           \/ session = page.session
           \/ picker = None /\ pending = None
    PROVE  Rendered'
  <1> USE DEF Rendered, Screened
  <1> DEFINE n == Len(renders) + 1
  <1>0. Len(renders) \in Nat \ {0} /\ n \in Nat
    BY DEF Typed
  <1>1. /\ renders' \in Seq(RenderRecords) /\ Len(renders') = n
        /\ handle' = None
        /\ \A i \in 1..Len(renders) :
              /\ renders'[i].session = renders[i].session
              /\ renders'[i].batch = renders[i].batch
              /\ renders'[i].state = renders[i].state
              /\ renders'[i].detached <=> renders[i].detached \/ i = handle
              /\ \/ /\ renders'[i].used = renders[i].used
                    /\ renders'[i].there = renders[i].there
                 \/ renders'[i].used = {} /\ renders'[i].there = {}
        /\ renders'[n].session = session /\ renders'[n].socket = socket
        /\ renders'[n].batch = None
        /\ renders'[n].state = "deriving" /\ ~renders'[n].detached
        /\ renders'[n].used = {} /\ renders'[n].there = {}
        /\ overlap' \in BOOLEAN
        /\ overlap' <=> \/ overlap
                       \/ \E r \in 1..Len(renders) :
                             renders[r].state = "deriving"
    BY RenderedRenders
  <1> HIDE DEF n
  <1>n. \A i \in 1..n : i \in 1..Len(renders) \/ i = n
    BY <1>0 DEF n
  <1>2. Typed'
    <2>1. renders' # <<>> /\ handle' \in 0..Len(renders') /\ picker' \in 0..Len(renders')
      BY <1>0, <1>1 DEF Typed, None, n
    <2> QED
      BY <1>1, <2>1 DEF Typed
  <1>3. HandleLive'
    BY <1>1, <1>n DEF HandleLive, None
  <1>4. InTurn'
    BY <1>1, <1>n DEF InTurn, shown, None
  <1>5. SameSession'
    <2>1. picker # None => picker \in 1..Len(renders)
      BY DEF Typed, None
    <2> QED
      BY <1>1, <2>1 DEF SameSession, shown
  <1>6. OneListener'
    <2>1. DOMAIN renders' = 1..n /\ DOMAIN renders = 1..Len(renders)
      BY <1>1 DEF Typed
    <2> QED
      BY <1>1, <1>n, <2>1 DEF OneListener
  <1>7. GoodFates' /\ NoOverwrite'
    BY <1>1 DEF GoodFates, good, NoOverwrite
  <1>9. Attached'
    BY <1>1 DEF Attached, shown
  <1>10. Given'
    BY <1>1, <1>n DEF Given
  <1>8. NamesRemembered'
    <2>1. IsFiniteSet({}) /\ {} \subseteq {}
      BY FS_EmptySet
    <2>2. ASSUME NEW i \in 1..n
          PROVE  /\ IsFiniteSet(renders'[i].used)
                 /\ renders'[i].there \subseteq renders'[i].used
      <3>1. CASE i = n
        BY <1>1, <2>1, <3>1
      <3>2. CASE i \in 1..Len(renders)
        <4>1. /\ IsFiniteSet(renders[i].used)
              /\ renders[i].there \subseteq renders[i].used
          BY <3>2 DEF NamesRemembered
        <4>2. \/ /\ renders'[i].used = renders[i].used
                 /\ renders'[i].there = renders[i].there
              \/ renders'[i].used = {} /\ renders'[i].there = {}
          BY <1>1, <3>2
        <4> QED
          BY <2>1, <4>1, <4>2
      <3> QED
        BY <1>n, <3>1, <3>2
    <2> QED
      BY <1>1, <2>2 DEF NamesRemembered
  <1> QED
    BY <1>2, <1>3, <1>4, <1>5, <1>6, <1>7, <1>8, <1>9, <1>10

(* Leaving the paired screen, or the error it ended in.                    *)
LEMMA LeaveStep ==
    ASSUME ConnTyped, Rendered, NEW screen \in {"error", "away"},
           leave(screen), screen = "away" => picker = None,
           UNCHANGED sockets, stray => stray'
    PROVE  Rendered'
  <1> USE DEF Rendered, Screened
  <1>1. /\ renders' \in Seq(RenderRecords) /\ Len(renders') = Len(renders)
        /\ \A i \in 1..Len(renders) :
              /\ renders'[i].session = renders[i].session
              /\ renders'[i].socket = renders[i].socket
              /\ renders'[i].batch = renders[i].batch
              /\ renders'[i].state = renders[i].state
              /\ renders'[i].detached <=> renders[i].detached \/ i = handle
              /\ \/ /\ renders'[i].used = renders[i].used
                    /\ renders'[i].there = renders[i].there
                 \/ renders'[i].used = {} /\ renders'[i].there = {}
    BY DetachedRenders DEF leave
  <1>2. /\ handle' = None /\ pending' = None
        /\ UNCHANGED <<picker, clobbered, overlap>>
        /\ page' = [page EXCEPT !.screen = screen, !.socket = None]
    BY DEF leave, cleared
  <1>3. /\ page'.screen = screen /\ page'.session = page.session
        /\ page'.socket = None
    BY <1>2 DEF ConnTyped, Pages
  <1>4. /\ fate' \in [Batches -> FateRecords]
        /\ \A b \in Batches : fate'[b].is = fate[b].is \/ fate'[b].is = "dropped"
    <2>1. CASE pending = None
      BY <2>1 DEF leave, cleared, Typed
    <2>2. CASE pending # None
      <3>1. pending \in Batches /\ fate' = [fate EXCEPT ![pending].is = "dropped"]
        BY <2>2 DEF leave, cleared, Typed
      <3> QED
        BY <3>1 DEF Typed, Fates, FateRecords
    <2> QED
      BY <2>1, <2>2
  <1>5. Typed'
    <2>1. renders' # <<>> /\ handle' \in 0..Len(renders') /\ picker' \in 0..Len(renders')
      BY <1>1, <1>2 DEF Typed, None
    <2> QED
      BY <1>1, <1>2, <1>3, <1>4, <2>1 DEF Typed
  <1>6. HandleLive' /\ InTurn'
    <2>1. handle # None => \A i \in 1..Len(renders) :
             renders[i].state = "deriving" => i # handle
      BY DEF HandleLive
    <2>2. handle = None => \A i \in 1..Len(renders) : i # handle
      BY DEF None
    <2> QED
      BY <1>1, <1>2, <2>1, <2>2 DEF HandleLive, InTurn, shown
  <1>7. SameSession'
    <2>1. picker # None => picker \in 1..Len(renders)
      BY DEF Typed, None
    <2>2. Len(renders) \in 1..Len(renders)
      BY DEF Typed
    <2> QED
      BY <1>1, <1>2, <1>3, <2>1, <2>2 DEF SameSession, shown
  <1>8. OneListener'
    <2>1. DOMAIN renders' = 1..Len(renders) /\ DOMAIN renders = 1..Len(renders)
      BY <1>1 DEF Typed
    <2> QED
      BY <1>1, <1>2, <2>1 DEF OneListener
  <1>9. GoodFates' /\ NoOverwrite'
    BY <1>2, <1>4 DEF GoodFates, good, NoOverwrite
  <1>10. NamesRemembered'
    BY <1>1, FS_EmptySet DEF NamesRemembered
  <1>11. Attached'
    <2>1. Len(renders) \in 1..Len(renders)
      BY DEF Typed
    <2> QED
      BY <1>1, <1>3, <2>1 DEF Attached, shown
  <1>12. Given'
    <2>1. \A r \in 1..Len(renders) : renders[r].batch \in Batches \cup {None}
      BY BatchTyped
    <2> SUFFICES ASSUME NEW r \in 1..Len(renders'), renders'[r].batch # None
                 PROVE  fate'[renders'[r].batch].is \notin {"unpicked", "queued"}
      BY DEF Given
    <2>2. /\ renders'[r].batch = renders[r].batch
          /\ renders[r].batch \in Batches
          /\ fate[renders[r].batch].is \notin {"unpicked", "queued"}
      BY <1>1, <2>1 DEF Given
    <2> QED
      BY <1>4, <2>2
  <1> QED
    BY <1>5, <1>6, <1>7, <1>8, <1>9, <1>10, <1>11, <1>12

(* Every render keeps its session and socket, and is as ready and as detached as it   *)
(* was.                                                                    *)
SameRenders(R, Q) ==
    /\ Q \in Seq(RenderRecords) /\ Len(Q) = Len(R)
    /\ \A i \in 1..Len(R) :
          /\ Q[i].session = R[i].session
          /\ Q[i].socket = R[i].socket
          /\ Q[i].state = R[i].state
          /\ Q[i].detached <=> R[i].detached

(* No fate changes, except that of a batch which is being sent.            *)
FatesStay ==
    /\ fate' \in [Batches -> FateRecords]
    /\ \A b \in Batches : \/ fate'[b] = fate[b]
                          \/ fate'[b].is = "broken off" /\ b # pending

(* No other socket becomes the active one, and none changes its session.   *)
SocketStays ==
    /\ page'.screen = page.screen /\ page'.session = page.session
    /\ stray => stray'
    /\ ~stray' => /\ page'.socket \in {page.socket, None}
                  /\ \A n \in 1..Len(sockets) :
                        n \in 1..Len(sockets') /\ sockets'[n] = sockets[n]

(* A step that leaves the renders, the picks and the session as they are.  *)
LEMMA KeepStep ==
    ASSUME Rendered, SameRenders(renders, renders'),
           \A i \in 1..Len(renders) :
              renders'[i].batch \in {renders[i].batch, None},
           UNCHANGED <<handle, pending, overlap>>,
           FatesStay, SocketStays,
           \/ picker' = picker
           \/ picker' = None
           \/ /\ page.screen = "paired" /\ picker' = shown
              /\ renders[shown].state = "live",
           clobbered' \in BOOLEAN
    PROVE  Typed' /\ Screened'
  <1> USE DEF Rendered, Screened, SameRenders
  <1>1. Len(renders) \in Nat \ {0} /\ picker' \in 0..Len(renders)
    BY DEF Typed, None, shown
  <1>2. Typed'
    <2>1. renders' # <<>>
      BY <1>1
    <2> QED
      BY <1>1, <2>1 DEF Typed, FatesStay
  <1>3. HandleLive' /\ InTurn'
    <2>1. handle # None => handle \in 1..Len(renders)
      BY DEF Typed, None
    <2> QED
      BY <2>1 DEF HandleLive, InTurn, shown
  <1>4. SameSession'
    <2>1. /\ picker' # None => picker' \in 1..Len(renders)
          /\ Len(renders) \in 1..Len(renders)
      BY <1>1 DEF None
    <2>2. pending # None => fate'[pending] = fate[pending]
      <3>1. pending # None => pending \in Batches
        BY DEF Typed
      <3> QED
        BY <3>1 DEF FatesStay
    <2> QED
      BY <1>1, <2>1, <2>2 DEF SameSession, shown, FatesStay, SocketStays
  <1>5. OneListener'
    <2>1. DOMAIN renders' = 1..Len(renders) /\ DOMAIN renders = 1..Len(renders)
      BY DEF Typed
    <2> QED
      BY <2>1 DEF OneListener
  <1>6. GoodFates'
    BY DEF GoodFates, good, FatesStay, SocketStays
  <1>7. Attached'
    BY <1>1 DEF Attached, shown, SocketStays
  <1>8. Given'
    <2>1. \A r \in 1..Len(renders) : renders[r].batch \in Batches \cup {None}
      BY BatchTyped
    <2> SUFFICES ASSUME NEW r \in 1..Len(renders'), renders'[r].batch # None
                 PROVE  fate'[renders'[r].batch].is \notin {"unpicked", "queued"}
      BY DEF Given
    <2>2. /\ r \in 1..Len(renders)
          /\ renders'[r].batch = renders[r].batch
          /\ renders[r].batch \in Batches
          /\ fate[renders[r].batch].is \notin {"unpicked", "queued"}
      BY <2>1 DEF Given
    <2> QED
      BY <2>2 DEF FatesStay
  <1> QED
    BY <1>2, <1>3, <1>4, <1>5, <1>6, <1>7, <1>8

-----------------------------------------------------------------------------
(* Names *)

(* dedupeFilename finds a name that is not in use: among one more numbers  *)
(* than there are names in use, one is free.                               *)
LEMMA NewName ==
    ASSUME NEW used \in SUBSET Seq(Nat), IsFiniteSet(used),
           NEW name \in Seq(Nat)
    PROVE  /\ dedupeFilename(used, name) \notin used
           /\ dedupeFilename(used, name) \in Seq(Nat)
  <1>1. CASE name \notin used
    BY <1>1 DEF dedupeFilename
  <1>2. CASE name \in used
    <2> DEFINE n == Cardinality(used) + 1
               free == {i \in 1..n : Append(name, i) \notin used}
    <2>1. n \in Nat \ {0}
      BY FS_CardinalityType
    <2>2. free # {}
      <3> SUFFICES ASSUME \A i \in 1..n : Append(name, i) \in used
                   PROVE  FALSE
        OBVIOUS
      <3> DEFINE f == [i \in 1..n |-> Append(name, i)]
      <3>1. \A i, j \in 1..n : Append(name, i) = Append(name, j) => i = j
        <4> TAKE i, j \in 1..n
        <4>1. /\ Append(name, i)[Len(name) + 1] = i
              /\ Append(name, j)[Len(name) + 1] = j
          BY <2>1
        <4> QED
          BY <4>1
      <3>2. f \in Injection(1..n, used)
        BY <3>1 DEF Injection, IsInjective
      <3>3. Cardinality(1..n) <= Cardinality(used)
        BY <3>2, FS_Injection
      <3>4. Cardinality(1..n) = n
        BY <2>1, FS_Interval
      <3> QED
        BY <2>1, <3>3, <3>4, FS_CardinalityType
    <2>3. free \subseteq Nat
      BY <2>1
    <2> HIDE DEF free, n
    <2>4. Min(free) \in free
      <3>1. \E i \in free : \A j \in free : i <= j
        <4>1. PICK i \in free : \A j \in free : ~(<<j, i>> \in OpToRel(<, Nat))
          BY <2>2, <2>3, NatLessThanWellFounded, WFMin
        <4>2. \A j \in free : ~(j < i)
          BY <4>1, <2>3 DEF OpToRel
        <4> QED
          BY <4>2, <2>3
      <3> QED
        BY <3>1 DEF Min
    <2>5. dedupeFilename(used, name) = Append(name, Min(free))
      BY <1>2 DEF dedupeFilename, free, n
    <2> QED
      BY <2>3, <2>4, <2>5 DEF free
  <1> QED
    BY <1>1, <1>2

-----------------------------------------------------------------------------
(* What the page hears and the receiver does *)

(* Nothing of the renders and the picks changes at all.                    *)
LEMMA RendersStay ==
    ASSUME Typed
    PROVE  SameRenders(renders, renders)
  BY DEF SameRenders, Typed

LEMMA StayStep ==
    ASSUME Rendered, SocketStays,
           UNCHANGED <<renders, handle, pending, fate, clobbered, overlap>>,
           \/ picker' = picker
           \/ /\ page.screen = "paired" /\ picker' = shown
              /\ renders[shown].state = "live"
    PROVE  Rendered'
  <1>1. SameRenders(renders, renders')
    BY RendersStay DEF Rendered
  <1>2. FatesStay /\ clobbered' \in BOOLEAN
    BY DEF Rendered, Typed, FatesStay
  <1>3. Typed' /\ Screened'
    BY <1>1, <1>2, KeepStep
  <1>4. NamesRemembered' /\ NoOverwrite'
    BY DEF Rendered, NamesRemembered, NoOverwrite
  <1> QED
    BY <1>3, <1>4 DEF Rendered

LEMMA RenderAgainInv ==
    ASSUME IInv,
           \/ PeerReconnected \/ FlipTransferRole \/ FinalizePaired
           \/ \E n \in 1..Len(sockets) : HearReconnected(n)
    PROVE  IInv'
  <1> USE DEF IInv
  <1>p. /\ page \in Pages /\ page.session \in Nat /\ page.role \in Roles
        /\ page.socket \in Nat /\ flipped(page.role) \in Roles
        /\ sockets \in Seq(Nat) /\ Len(sockets) \in Nat
    BY DEF Wired, ConnTyped, Pages, Roles, flipped
  <1>a. ASSUME ~stray, page.screen = "paired", open # {}
        PROVE  /\ page.socket \in 1..Len(sockets)
               /\ sockets[page.socket] = page.session
    <2>1. page.socket \in open
      BY <1>a DEF Wired, Connected
    <2>2. page.socket \in 1..Len(sockets) /\ page.socket # None
      BY <2>1 DEF Wired, ConnTyped, None
    <2> QED
      BY <1>a, <2>2 DEF Wired, Connected
  <1>1. CASE PeerReconnected
    <2>1. /\ page.screen = "paired" /\ open # {}
          /\ renderPaired(page.role, page.session, page.socket)
          /\ UNCHANGED <<page, sockets, open, tries, stray>>
          /\ UNCHANGED <<pending, picker, fate, clobbered>>
      BY <1>1 DEF PeerReconnected, conn
    <2>2. Rendered'
      BY <1>p, <1>a, <2>1, RenderStep
    <2>3. Wired'
      BY <1>p, <2>1, SameConn
    <2> QED
      BY <2>2, <2>3
  <1>2. CASE FlipTransferRole
    <2>1. /\ page.screen = "paired" /\ open # {}
          /\ page' = [page EXCEPT !.role = flipped(@)]
          /\ renderPaired(flipped(page.role), page.session, page.socket)
          /\ UNCHANGED <<sockets, open, tries, stray>>
          /\ UNCHANGED <<pending, picker, fate, clobbered>>
      BY <1>2 DEF FlipTransferRole
    <2>2. /\ page' \in Pages /\ page'.screen = page.screen
          /\ page'.session = page.session /\ page'.socket = page.socket
      BY <1>p, <2>1 DEF Pages
    <2>3. Rendered'
      BY <1>p, <1>a, <2>1, <2>2, RenderStep
    <2>4. Wired'
      BY <2>1, <2>2, SameConn
    <2> QED
      BY <2>3, <2>4
  <1>3. ASSUME NEW n \in 1..Len(sockets), HearReconnected(n)
        PROVE  IInv'
    <2>1. Wired'
      BY <1>3, HearConn
    <2>2. /\ page' = [page EXCEPT !.socket = n]
          /\ UNCHANGED <<sockets, pending, picker, fate, clobbered>>
          /\ stray' = (stray \/ ~mine(n))
      BY <1>3 DEF HearReconnected
    <2>3. /\ page'.screen = page.screen /\ page'.session = page.session
          /\ page'.socket = n
      BY <1>p, <2>2 DEF Pages
    <2>4. CASE page.screen = "paired" /\ renderPaired(page.role, page.session, n)
      <3>1. /\ stray => stray'
            /\ ~stray' => /\ n \in 1..Len(sockets')
                          /\ sockets'[n] = page.session
                          /\ page'.socket = n
        BY <2>2, <2>3 DEF mine
      <3>2. page'.screen = "paired" /\ n \in Nat
        BY <2>3, <2>4
      <3>3. Rendered'
        BY <1>p, <2>2, <2>3, <2>4, <3>1, <3>2, RenderStep
      <3> QED
        BY <2>1, <3>3
    <2>5. CASE page.screen # "paired" /\ UNCHANGED <<renders, handle, overlap>>
      <3>1. SocketStays
        BY <2>2, <2>3, <2>5 DEF SocketStays, mine
      <3> QED
        BY <2>1, <2>2, <2>5, <3>1, StayStep
    <2> QED
      BY <1>3, <2>4, <2>5 DEF HearReconnected
  <1>4. CASE FinalizePaired
    <2> DEFINE k == Len(sockets) + 1
    <2>1. PICK role \in Roles, n \in {k} \cup ({page.socket} \ {None}) :
             /\ page' = [screen |-> "paired", session |-> page.session + 1,
                         role |-> role, socket |-> n]
             /\ renderPaired(role, page.session + 1, n)
      BY <1>4 DEF FinalizePaired, Roles
    <2>2. /\ page.screen = "away"
          /\ sockets' = Append(sockets, page.session + 1)
          /\ UNCHANGED <<stray, pending, picker, fate, clobbered>>
      BY <1>4 DEF FinalizePaired
    <2>3. picker = None /\ pending = None
      BY <2>2 DEF Rendered, Screened, SameSession
    <2>4. page.session + 1 \in Nat /\ n \in Nat
      BY <1>p, <2>1
    <2>5. ~stray => n = k
      BY <2>1, <2>2 DEF Wired, Connected
    <2>6. k \in 1..Len(sockets') /\ sockets'[k] = page.session + 1
      BY <1>p, <2>2
    <2>7. /\ page'.screen = "paired" /\ page'.session = page.session + 1
          /\ page'.socket = n
      BY <2>1
    <2> HIDE DEF k
    <2>8. Rendered'
      BY <2>1, <2>2, <2>3, <2>4, <2>5, <2>6, <2>7, RenderStep
    <2>9. Wired'
      BY <1>4, FinalizeConn
    <2> QED
      BY <2>8, <2>9
  <1> QED
    BY <1>1, <1>2, <1>3, <1>4

LEMMA LeaveInv ==
    ASSUME IInv, SessionEnded \/ DisconnectSession \/ TryAgain \/ Navigate
    PROVE  IInv'
  <1>0. page.screen = "away" => picker = None
    BY DEF IInv, Rendered, Screened, SameSession
  <1>1. PICK screen \in {"error", "away"} :
           leave(screen) /\ (screen = "away" => picker = None)
    BY <1>0 DEF SessionEnded, DisconnectSession, TryAgain, Navigate
  <1>2. UNCHANGED <<sockets, asking, answered, due, stray>>
    BY DEF SessionEnded, DisconnectSession, TryAgain, Navigate, tries
  <1>3. Wired'
    BY <1>1, <1>2, LeaveConn DEF IInv, Wired, ConnTyped
  <1>4. Rendered'
    BY <1>1, <1>2, LeaveStep DEF IInv, Wired
  <1> QED
    BY <1>3, <1>4 DEF IInv

(* One more attempt changes nothing of the sockets there are.              *)
LEMMA AttemptStays ==
    ASSUME Wired, attempt, stray => stray',
           page' = page \/ page' = [page EXCEPT !.socket = None]
    PROVE  SocketStays
  <1>1. sockets' = Append(sockets, page.session)
    BY DEF attempt
  <1>2. /\ sockets \in Seq(Nat) /\ page.session \in Nat /\ page \in Pages
    BY DEF Wired, ConnTyped, Pages
  <1>3. \A n \in 1..Len(sockets) :
           n \in 1..Len(sockets') /\ sockets'[n] = sockets[n]
    BY <1>1, <1>2
  <1>4. /\ page'.screen = page.screen /\ page'.session = page.session
        /\ page'.socket \in {page.socket, None}
    BY <1>2 DEF Pages
  <1> QED
    BY <1>3, <1>4 DEF SocketStays

LEMMA SocketInv ==
    ASSUME IInv, SocketDies \/ CloseEvent \/ OpenPicker
    PROVE  IInv'
  <1> USE DEF IInv
  <1>1. CASE SocketDies
    <2>1. UNCHANGED <<page, sockets, stray, picker>>
          /\ UNCHANGED <<renders, handle, pending, fate, clobbered, overlap>>
      BY <1>1 DEF SocketDies
    <2>2. SocketStays
      BY <2>1 DEF SocketStays
    <2> QED
      BY <1>1, <2>1, <2>2, CloseConn, StayStep
  <1>2. CASE CloseEvent
    <2>1. UNCHANGED stray
      BY <1>2 DEF CloseEvent
    <2>2. CASE /\ attempt /\ page' = [page EXCEPT !.socket = None]
               /\ UNCHANGED <<open, renders, handle, pending, picker, fate,
                              clobbered, overlap>>
      <3>1. SocketStays
        BY <2>1, <2>2, AttemptStays
      <3> QED
        BY <1>2, <2>2, <3>1, CloseConn, StayStep
    <2>3. CASE leave("error") /\ UNCHANGED <<sockets, asking>>
      <3>1. Rendered'
        BY <2>1, <2>3, LeaveStep DEF Wired
      <3> QED
        BY <1>2, <3>1, CloseConn
    <2> QED
      BY <1>2, <2>2, <2>3 DEF CloseEvent
  <1>3. CASE OpenPicker
    <2>1. /\ page.screen = "paired" /\ picker' = shown
          /\ renders[shown].state = "live"
          /\ UNCHANGED <<page, sockets, open, tries, stray>>
          /\ UNCHANGED <<renders, handle, pending, fate, clobbered, overlap>>
      BY <1>3 DEF OpenPicker, conn
    <2>2. SocketStays
      BY <2>1 DEF SocketStays
    <2>3. Wired'
      BY <2>1, SameConn DEF Wired, ConnTyped
    <2> QED
      BY <2>1, <2>2, <2>3, StayStep
  <1> QED
    BY <1>1, <1>2, <1>3

(* An attempt's failure, its timer, and the relay's refusal.               *)
LEMMA AttemptInv ==
    ASSUME IInv, NEW n \in 1..Len(sockets),
           AttemptFails(n) \/ RetryTimer(n) \/ HearError(n)
    PROVE  IInv'
  <1> USE DEF IInv
  <1>1. Wired'
    BY AttemptFailsConn, RetryTimerConn, HearConn
  <1>2. stray => stray'
    BY DEF AttemptFails, RetryTimer, HearError
  <1>3. \/ leave("error") /\ UNCHANGED sockets
        \/ keep /\ UNCHANGED sockets
        \/ keep /\ attempt
    BY DEF AttemptFails, RetryTimer, HearError
  <1>4. CASE leave("error") /\ UNCHANGED sockets
    BY <1>1, <1>2, <1>4, LeaveStep DEF Wired
  <1>5. CASE keep /\ (UNCHANGED sockets \/ attempt)
    <2>1. /\ UNCHANGED <<page, picker>>
          /\ UNCHANGED <<renders, handle, pending, fate, clobbered, overlap>>
      BY <1>5 DEF keep
    <2>2. SocketStays
      BY <1>2, <1>5, <2>1, AttemptStays DEF SocketStays
    <2> QED
      BY <1>1, <2>1, <2>2, StayStep
  <1> QED
    BY <1>3, <1>4, <1>5

(* One render changed in what only its own batch and its folder know.      *)
LEMMA WithinRender ==
    ASSUME IInv, NEW r \in 1..Len(renders), NEW e \in RenderRecords,
           renders' = [renders EXCEPT ![r] = e],
           e.session = renders[r].session, e.state = renders[r].state,
           e.socket = renders[r].socket,
           e.detached <=> renders[r].detached,
           e.batch \in {renders[r].batch, None},
           IsFiniteSet(e.used), e.there \subseteq e.used,
           UNCHANGED <<conn, handle, pending, overlap>>,
           FatesStay,
           picker' = picker \/ picker' = None,
           ~clobbered', clobbered' \in BOOLEAN
    PROVE  IInv'
  <1> USE DEF IInv, Rendered
  <1>1. /\ renders' \in Seq(RenderRecords) /\ Len(renders') = Len(renders)
        /\ renders'[r] = e
        /\ \A i \in 1..Len(renders) : i # r => renders'[i] = renders[i]
    BY OneRender DEF Typed
  <1>2. /\ SameRenders(renders, renders')
        /\ \A i \in 1..Len(renders) :
              renders'[i].batch \in {renders[i].batch, None}
    BY <1>1 DEF SameRenders
  <1>3. SocketStays
    BY DEF SocketStays, conn
  <1>4. Typed' /\ Screened'
    BY <1>2, <1>3, KeepStep
  <1>5. NamesRemembered'
    BY <1>1 DEF NamesRemembered
  <1>6. Wired'
    BY SameConn DEF Wired, ConnTyped, conn
  <1> QED
    BY <1>4, <1>5, <1>6 DEF NoOverwrite

LEMMA ReceiverInv ==
    ASSUME IInv, RendersAssumption,
           \/ ChooseSaveDirectory
           \/ \E r \in DOMAIN renders : FileSent(r) \/ FileStart(r) \/ FileEnds(r)
    PROVE  IInv'
  <1> USE DEF IInv, Rendered
  <1>0. /\ DOMAIN renders = 1..Len(renders)
        /\ \A i \in 1..Len(renders) :
              /\ renders[i] \in RenderRecords
              /\ IsFiniteSet(renders[i].used)
              /\ renders[i].there \subseteq renders[i].used
        /\ ~clobbered
    BY DEF Typed, NamesRemembered, NoOverwrite
  <1>f. fate' = fate => FatesStay
    BY DEF Typed, FatesStay
  <1>1. ASSUME NEW r \in 1..Len(renders), FileSent(r)
        PROVE  IInv'
    <2> DEFINE b == renders[r].batch
               left == renders[r].left - 1
               stop == renders[r].detached \/ left = 0
               newLeft == IF stop THEN 0 ELSE left
               newBatch == IF stop THEN None ELSE b
               e == [renders[r] EXCEPT !.left = newLeft, !.batch = newBatch]
    <2>1. newLeft \in Int /\ newBatch \in {b, None}
      BY <1>0 DEF RenderRecords
    <2>2. renders' = [renders EXCEPT ![r] = e]
      BY <1>0, <1>1 DEF FileSent, RenderRecords, Typed
    <2>3. b # None /\ b \in Batches
      BY <1>1, BatchTyped DEF FileSent
    <2>4. fate' = fate \/ fate' = [fate EXCEPT ![b].is = "broken off"]
      BY <1>1 DEF FileSent
    <2> HIDE DEF newLeft, newBatch
    <2>5. /\ e \in RenderRecords
          /\ e.session = renders[r].session /\ e.state = renders[r].state
          /\ e.socket = renders[r].socket
          /\ e.batch = newBatch
          /\ e.detached = renders[r].detached
          /\ e.used = renders[r].used /\ e.there = renders[r].there
      <3>1. newBatch \in Batches \cup {None}
        BY <2>1, <2>3
      <3>2. renders[r] \in RenderRecords
        BY <1>0
      <3> HIDE DEF b
      <3> QED
        BY <2>1, <3>1, <3>2 DEF RenderRecords
    <2> HIDE DEF e
    <2>6. /\ UNCHANGED <<conn, handle, pending, picker, overlap>>
          /\ clobbered' = FALSE
      BY <1>0, <1>1 DEF FileSent, Typed
    <2>7. IsFiniteSet(e.used) /\ e.there \subseteq e.used
      BY <1>0, <2>5
    <2>8. FatesStay
      <3>1. fate[b].is \notin {"unpicked", "queued"}
        BY <2>3 DEF Screened, Given
      <3>2. b # pending
        BY <2>3, <3>1 DEF Screened, SameSession
      <3>3. CASE fate' = [fate EXCEPT ![b].is = "broken off"]
        <4> HIDE DEF b
        <4>1. /\ fate' \in [Batches -> FateRecords]
              /\ fate'[b].is = "broken off"
              /\ \A c \in Batches : c # b => fate'[c] = fate[c]
          BY <2>3, <3>3 DEF Typed, FateRecords, Fates
        <4> QED
          BY <3>2, <4>1 DEF FatesStay
      <3> QED
        BY <1>f, <2>4, <3>3
    <2> QED
      BY <2>1, <2>2, <2>5, <2>6, <2>7, <2>8, WithinRender
  <1>2. ASSUME NEW r \in 1..Len(renders), FileEnds(r)
        PROVE  IInv'
    <2> DEFINE e == [renders[r] EXCEPT !.receiving = FALSE]
    <2>1. /\ e \in RenderRecords
          /\ e.session = renders[r].session /\ e.state = renders[r].state
          /\ e.socket = renders[r].socket /\ e.batch = renders[r].batch
          /\ e.detached = renders[r].detached
          /\ e.used = renders[r].used /\ e.there = renders[r].there
      BY <1>0 DEF RenderRecords
    <2>2. renders' = [renders EXCEPT ![r] = e]
      BY <1>0, <1>2 DEF FileEnds, RenderRecords, Typed
    <2> HIDE DEF e
    <2>4. /\ UNCHANGED <<conn, handle, pending, picker, fate, overlap>>
          /\ clobbered' = FALSE
      BY <1>0, <1>2 DEF FileEnds, Typed
    <2>5. IsFiniteSet(e.used) /\ e.there \subseteq e.used
      BY <1>0, <2>1, <2>2
    <2> QED
      BY <1>f, <2>1, <2>2, <2>4, <2>5, WithinRender
  <1>3. ASSUME NEW r \in 1..Len(renders), FileStart(r)
        PROVE  IInv'
    <2>1. PICK name \in Names :
             LET saveName == dedupeFilename(renders[r].used, name)
                 R == [renders EXCEPT ![r].receiving = TRUE] IN
             /\ \/ ~renders[r].dir /\ renders' = R /\ UNCHANGED clobbered
                \/ /\ renders[r].dir
                   /\ renders' = [R EXCEPT ![r].used = @ \cup {saveName}]
                   /\ UNCHANGED clobbered
                \/ /\ renders[r].dir
                   /\ renders' = [R EXCEPT ![r].used = @ \cup {saveName},
                                           ![r].there = @ \cup {saveName}]
                   /\ clobbered' = (clobbered \/ saveName \in renders[r].there)
             /\ UNCHANGED <<conn, handle, pending, picker, fate, overlap>>
      BY <1>3 DEF FileStart
    <2> DEFINE s == dedupeFilename(renders[r].used, name)
               U == renders[r].used \cup {s}
               T == renders[r].there \cup {s}
               e1 == [renders[r] EXCEPT !.receiving = TRUE]
               e2 == [renders[r] EXCEPT !.receiving = TRUE, !.used = U]
               e3 == [renders[r] EXCEPT !.receiving = TRUE, !.used = U,
                                        !.there = T]
    <2>2. s \notin renders[r].used /\ s \in Seq(Nat)
      BY <1>0, NewName DEF RendersAssumption, RenderRecords
    <2>3. /\ \/ renders' = [renders EXCEPT ![r] = e1] /\ UNCHANGED clobbered
             \/ renders' = [renders EXCEPT ![r] = e2] /\ UNCHANGED clobbered
             \/ /\ renders' = [renders EXCEPT ![r] = e3]
                /\ clobbered' = (clobbered \/ s \in renders[r].there)
      <3>1. [renders EXCEPT ![r].receiving = TRUE] = [renders EXCEPT ![r] = e1]
        OBVIOUS
      <3>2. [[renders EXCEPT ![r].receiving = TRUE]
                EXCEPT ![r].used = @ \cup {s}] = [renders EXCEPT ![r] = e2]
        BY <1>0 DEF RenderRecords, Typed
      <3>3. [[renders EXCEPT ![r].receiving = TRUE]
                EXCEPT ![r].used = @ \cup {s}, ![r].there = @ \cup {s}]
            = [renders EXCEPT ![r] = e3]
        <4>1. DOMAIN renders = 1..Len(renders)
          BY <1>0
        <4>2. renders[r] \in RenderRecords
          BY <1>0
        <4>3. /\ e1.used = renders[r].used /\ e1.there = renders[r].there
              /\ [e1 EXCEPT !.used = U, !.there = T] = e3
          BY <4>2 DEF RenderRecords
        <4>4. [[renders EXCEPT ![r] = e1]
                  EXCEPT ![r].used = @ \cup {s}, ![r].there = @ \cup {s}]
              = [renders EXCEPT ![r] =
                    [e1 EXCEPT !.used = @ \cup {s}, !.there = @ \cup {s}]]
          <5> HIDE DEF e1
          <5> QED
            BY <4>1
        <4> HIDE DEF e1, e3
        <4> QED
          BY <3>1, <4>3, <4>4
      <3> HIDE DEF e1, e2, e3, U, T
      <3> QED
        BY <2>1, <3>1, <3>2, <3>3
    <2>4. UNCHANGED <<conn, handle, pending, picker, fate, overlap>>
      BY <2>1
    <2> HIDE DEF s
    <2>5. /\ U \in SUBSET Seq(Nat) /\ T \in SUBSET Seq(Nat)
          /\ IsFiniteSet(U) /\ T \subseteq U /\ renders[r].there \subseteq U
      BY <1>0, <2>2, FS_AddElement DEF RenderRecords
    <2> HIDE DEF U, T
    <2>6. \A e \in {e1, e2, e3} :
             /\ e \in RenderRecords
             /\ e.session = renders[r].session /\ e.state = renders[r].state
             /\ e.socket = renders[r].socket /\ e.batch = renders[r].batch
             /\ e.detached = renders[r].detached
             /\ IsFiniteSet(e.used) /\ e.there \subseteq e.used
      <3>1. /\ renders[r] \in RenderRecords /\ IsFiniteSet(renders[r].used)
            /\ renders[r].there \subseteq renders[r].used
        BY <1>0
      <3>2. /\ e1 \in RenderRecords
            /\ e1.session = renders[r].session /\ e1.state = renders[r].state
            /\ e1.socket = renders[r].socket /\ e1.batch = renders[r].batch
            /\ e1.detached = renders[r].detached
            /\ IsFiniteSet(e1.used) /\ e1.there \subseteq e1.used
        BY <2>5, <3>1 DEF RenderRecords
      <3>3. /\ e2 \in RenderRecords
            /\ e2.session = renders[r].session /\ e2.state = renders[r].state
            /\ e2.socket = renders[r].socket /\ e2.batch = renders[r].batch
            /\ e2.detached = renders[r].detached
            /\ IsFiniteSet(e2.used) /\ e2.there \subseteq e2.used
        BY <2>5, <3>1 DEF RenderRecords
      <3>4. /\ e3 \in RenderRecords
            /\ e3.session = renders[r].session /\ e3.state = renders[r].state
            /\ e3.socket = renders[r].socket /\ e3.batch = renders[r].batch
            /\ e3.detached = renders[r].detached
            /\ IsFiniteSet(e3.used) /\ e3.there \subseteq e3.used
        BY <2>5, <3>1 DEF RenderRecords
      <3> HIDE DEF e1, e2, e3
      <3> QED
        BY <3>2, <3>3, <3>4
    <2>7. clobbered' = FALSE
      BY <1>0, <2>2, <2>3 DEF Typed
    <2> HIDE DEF e1, e2, e3
    <2> QED
      BY <1>f, <2>3, <2>4, <2>6, <2>7, WithinRender
  <1>4. CASE ChooseSaveDirectory
    <2> DEFINE e == [renders[picker] EXCEPT !.dir = TRUE, !.used = {},
                                            !.there = {}]
    <2>1. picker \in 1..Len(renders)
      BY <1>4 DEF ChooseSaveDirectory, Typed, None
    <2>2. /\ e \in RenderRecords
          /\ e.session = renders[picker].session
          /\ e.socket = renders[picker].socket
          /\ e.batch = renders[picker].batch
          /\ e.state = renders[picker].state
          /\ e.detached = renders[picker].detached
          /\ IsFiniteSet(e.used) /\ e.there \subseteq e.used
      <3>1. renders[picker] \in RenderRecords
        BY <1>0, <2>1
      <3>2. /\ e \in RenderRecords
            /\ e.session = renders[picker].session
            /\ e.socket = renders[picker].socket
            /\ e.batch = renders[picker].batch
            /\ e.state = renders[picker].state
            /\ e.detached = renders[picker].detached
            /\ e.used = {} /\ e.there = {}
        BY <3>1 DEF RenderRecords
      <3> HIDE DEF e
      <3> QED
        BY <3>2, FS_EmptySet
    <2>3. \/ renders' = [renders EXCEPT ![picker] = renders[picker]]
          \/ renders' = [renders EXCEPT ![picker] = e]
      <3>1. renders = [renders EXCEPT ![picker] = renders[picker]]
        BY <2>1 DEF Typed
      <3>2. [renders EXCEPT ![picker].dir = TRUE, ![picker].used = {},
                            ![picker].there = {}]
            = [renders EXCEPT ![picker] = e]
        BY <1>0, <2>1 DEF RenderRecords, Typed
      <3> QED
        BY <1>4, <3>1, <3>2 DEF ChooseSaveDirectory
    <2>4. /\ UNCHANGED <<conn, handle, pending, fate, overlap>>
          /\ picker' = None /\ clobbered' = clobbered
      BY <1>4 DEF ChooseSaveDirectory
    <2> HIDE DEF e
    <2> QED
      BY <1>0, <1>f, <2>1, <2>2, <2>3, <2>4, WithinRender DEF Typed
  <1> QED
    BY <1>0, <1>1, <1>2, <1>3, <1>4

-----------------------------------------------------------------------------
(* What becomes of picked files *)

(* What sendFiles does: one batch gets its fate, one render its batch.     *)
LEMMA SendFiles ==
    ASSUME RendersAssumption, NEW R \in Seq(RenderRecords),
           NEW r \in 1..Len(R), NEW b \in Batches,
           NEW F \in [Batches -> FateRecords], sendFiles(R, r, b, F)
    PROVE  /\ SameRenders(R, renders')
           /\ \A i \in 1..Len(R) :
                 /\ renders'[i].used = R[i].used /\ renders'[i].there = R[i].there
                 /\ renders'[i].batch \in {R[i].batch, b}
           /\ fate' \in [Batches -> FateRecords]
           /\ fate'[b].is = fateOf(R, r, F[b]) /\ fate'[b].from = F[b].from
           /\ \A c \in Batches : c # b => fate'[c] = F[c]
  <1> DEFINE e == [R[r] EXCEPT !.batch = b, !.left = BatchSize]
             Q == [R EXCEPT ![r] = e]
  <1>1. R[r] \in RenderRecords
    OBVIOUS
  <1>2. /\ e \in RenderRecords
        /\ e.session = R[r].session /\ e.state = R[r].state
        /\ e.socket = R[r].socket /\ e.batch = b
        /\ e.detached = R[r].detached
        /\ e.used = R[r].used /\ e.there = R[r].there
    <2>1. BatchSize \in Int
      BY DEF RendersAssumption
    <2> QED
      BY <1>1, <2>1 DEF RenderRecords
  <1>3. renders' = Q \/ renders' = R
    <2>1. [R EXCEPT ![r].batch = b, ![r].left = BatchSize] = Q
      BY <1>1 DEF RenderRecords
    <2> QED
      BY <2>1 DEF sendFiles
  <1> HIDE DEF e
  <1>4. /\ Q \in Seq(RenderRecords) /\ Len(Q) = Len(R) /\ Q[r] = e
        /\ \A i \in 1..Len(R) : i # r => Q[i] = R[i]
    BY <1>2, OneRender
  <1> HIDE DEF Q
  <1>5. /\ SameRenders(R, renders')
        /\ \A i \in 1..Len(R) :
              /\ renders'[i].used = R[i].used /\ renders'[i].there = R[i].there
              /\ renders'[i].batch \in {R[i].batch, b}
    BY <1>2, <1>3, <1>4 DEF SameRenders
  <1>6. fateOf(R, r, F[b]) \in Fates
    BY DEF fateOf, Fates
  <1>7. /\ fate' \in [Batches -> FateRecords]
        /\ fate'[b].is = fateOf(R, r, F[b]) /\ fate'[b].from = F[b].from
        /\ \A c \in Batches : c # b => fate'[c] = F[c]
    BY <1>6 DEF sendFiles, FateRecords
  <1> QED
    BY <1>5, <1>7

(* A batch of the session of the shown render, which is not yet started,   *)
(* goes well on a render that is working, and at worst is stranded, if it  *)
(* was queued, on one that is not.                                         *)
LEMMA GoodFate ==
    ASSUME NEW R, NEW r, NEW f, f.is # "started",
           r = shown => f.from = R[r].session,
           ~stray /\ r = shown => sockets[R[r].socket] = f.from,
           ~overlap /\ ~stray =>
              ~R[r].detached /\ (f.is = "queued" \/ working(R, r))
    PROVE  good(fateOf(R, r, f))
  BY DEF fateOf, good, working

(* No batch of which something is left to send is queued any more.         *)
LEMMA GivenStep ==
    ASSUME Typed, Given, NEW b \in Batches, NEW is,
           \A i \in 1..Len(renders) : renders'[i].batch \in {renders[i].batch, b},
           Len(renders') = Len(renders),
           fate'[b].is = is, is \notin {"unpicked", "queued"},
           \A c \in Batches : c # b => fate'[c] = fate[c]
    PROVE  Given'
  <1> SUFFICES ASSUME NEW i \in 1..Len(renders'), renders'[i].batch # None
               PROVE  fate'[renders'[i].batch].is \notin {"unpicked", "queued"}
    BY DEF Given
  <1>1. i \in 1..Len(renders)
    OBVIOUS
  <1>2. CASE renders'[i].batch = b
    BY <1>2
  <1>3. CASE renders'[i].batch # b
    <2>1. /\ renders'[i].batch = renders[i].batch
          /\ renders[i].batch \in Batches
          /\ fate[renders[i].batch].is \notin {"unpicked", "queued"}
      BY <1>1, <1>3, BatchTyped DEF Given
    <2> QED
      BY <1>3, <2>1
  <1> QED
    BY <1>2, <1>3

(* A step that settles a batch and leaves the screen as it is.             *)
LEMMA PicksStep ==
    ASSUME IInv, SameRenders(renders, renders'),
           \A i \in 1..Len(renders) : /\ renders'[i].used = renders[i].used
                                      /\ renders'[i].there = renders[i].there,
           UNCHANGED <<conn, handle, clobbered, overlap>>,
           picker' = picker \/ picker' = None,
           fate' \in [Batches -> FateRecords],
           pending' \in Batches \cup {None},
           pending' # None => /\ fate'[pending'].is = "queued"
                              /\ fate'[pending'].from = page.session,
           page.screen = "away" => pending' = None,
           \A b \in Batches : good(fate'[b].is),
           Given'
    PROVE  IInv'
  <1> USE DEF IInv, Rendered, Screened, SameRenders
  <1>0. UNCHANGED <<page, sockets, open, tries, stray>>
    BY DEF conn
  <1>1. Len(renders) \in Nat \ {0} /\ picker' \in 0..Len(renders)
    BY DEF Typed, None
  <1>2. Typed'
    <2>1. renders' # <<>>
      BY <1>1
    <2> QED
      BY <1>1, <2>1 DEF Typed, FateRecords
  <1>3. HandleLive' /\ InTurn'
    <2>1. handle # None => handle \in 1..Len(renders)
      BY DEF Typed, None
    <2> QED
      BY <2>1 DEF HandleLive, InTurn, shown
  <1>4. SameSession'
    <2>1. picker' # None => picker' \in 1..Len(renders)
      BY <1>1 DEF None
    <2> QED
      BY <1>0, <1>1, <2>1 DEF SameSession, shown
  <1>5. OneListener'
    <2>1. DOMAIN renders' = 1..Len(renders) /\ DOMAIN renders = 1..Len(renders)
      BY DEF Typed
    <2> QED
      BY <2>1 DEF OneListener
  <1>6. GoodFates' /\ NoOverwrite'
    BY <1>0 DEF GoodFates, good, NoOverwrite
  <1>7. NamesRemembered'
    BY DEF NamesRemembered
  <1>8. Attached'
    BY <1>0, <1>1 DEF Attached, shown
  <1>9. Wired'
    BY <1>0, SameConn DEF Wired, ConnTyped
  <1> QED
    BY <1>2, <1>3, <1>4, <1>5, <1>6, <1>7, <1>8, <1>9

(* Files picked for the session of the page, given to a live render of it. *)
LEMMA HandlePicked ==
    ASSUME IInv, RendersAssumption, NEW r \in 1..Len(renders),
           NEW b \in Batches, handlePicked(r, b),
           renders[r].session = page.session, renders[r].state = "live",
           page.screen # "away", picker' = picker \/ picker' = None
    PROVE  IInv'
  <1> USE DEF IInv, Rendered, Screened
  <1> DEFINE F == [fate EXCEPT ![b].from = renders[r].session]
  <1>1. /\ F \in [Batches -> FateRecords]
        /\ F[b].is = "unpicked" /\ F[b].from = page.session
        /\ \A c \in Batches : c # b => F[c] = fate[c]
    <2>1. fate[b].is = "unpicked"
      BY DEF handlePicked
    <2>2. page.session \in Nat
      BY DEF Wired, ConnTyped, Pages
    <2> QED
      BY <2>1, <2>2 DEF Typed, FateRecords
  <1>2. \/ /\ renders[r].socket = None /\ ~renders[r].detached
           /\ fate' = [F EXCEPT ![b].is = "vanished"]
           /\ UNCHANGED <<renders, pending>>
        \/ onStaleFiles(b, F)
        \/ ~stale(r) /\ sendFiles(renders, r, b, F) /\ UNCHANGED pending
    BY DEF handlePicked
  <1>3. /\ UNCHANGED <<conn, handle, clobbered, overlap>>
        /\ fate[b].is = "unpicked"
    BY DEF handlePicked
  <1> HIDE DEF F
  <1>4. pending # b /\ (pending # None => pending \in Batches)
    BY <1>3 DEF SameSession, Typed, RendersAssumption, None
  <1>5. \A c \in Batches : good(fate[c].is)
    BY DEF GoodFates
  <1>a. /\ Len(renders) \in 1..Len(renders) /\ r # None
        /\ DOMAIN renders = 1..Len(renders)
    BY DEF Typed, None
  <1>b. ~overlap /\ ~renders[r].detached => r = shown
    BY <1>a DEF OneListener, InTurn
  <1>c. ~stray => /\ renders[shown].socket \in 1..Len(sockets)
                  /\ sockets[renders[shown].socket] = page.session
    BY DEF Attached
  <1>6. ASSUME NEW q \in 1..Len(renders), sendFiles(renders, q, b, F),
               ~overlap /\ ~stray => ~renders[q].detached /\ working(renders, q),
               UNCHANGED pending
        PROVE  IInv'
    <2>1. /\ SameRenders(renders, renders')
          /\ \A i \in 1..Len(renders) :
                /\ renders'[i].used = renders[i].used
                /\ renders'[i].there = renders[i].there
                /\ renders'[i].batch \in {renders[i].batch, b}
          /\ fate' \in [Batches -> FateRecords]
          /\ fate'[b].is = fateOf(renders, q, F[b])
          /\ \A c \in Batches : c # b => fate'[c] = F[c]
      BY SMTT(30), <1>1, <1>6, SendFiles DEF Typed
    <2>2. q = shown => /\ F[b].from = renders[q].session
                       /\ ~stray => sockets[renders[q].socket] = F[b].from
      BY <1>1, <1>c DEF SameSession
    <2>3. good(fateOf(renders, q, F[b]))
      BY <1>1, <1>6, <2>2, GoodFate
    <2>4. \A c \in Batches : good(fate'[c].is)
      BY <1>1, <1>5, <2>1, <2>3
    <2>5. /\ pending' \in Batches \cup {None}
          /\ pending' # None => /\ fate'[pending'].is = "queued"
                                /\ fate'[pending'].from = page.session
      BY <1>1, <1>4, <1>6, <2>1 DEF Typed, SameSession
    <2>6. Given'
      <3>1. fateOf(renders, q, F[b]) \notin {"unpicked", "queued"}
        BY DEF fateOf
      <3>2. Len(renders') = Len(renders)
        BY <2>1 DEF SameRenders
      <3> QED
        BY <1>1, <2>1, <3>1, <3>2, GivenStep
    <2> QED
      BY <1>3, <2>1, <2>4, <2>5, <2>6, PicksStep
  <1>7. CASE ~stale(r) /\ sendFiles(renders, r, b, F) /\ UNCHANGED pending
    <2>1. ~renders[r].detached /\ renders[r].socket \in open
      BY <1>7 DEF stale
    <2>2. ~stray => page.screen = "paired"
      <3>1. renders[r].socket # None
        BY <2>1 DEF Wired, ConnTyped, None
      <3> QED
        BY <2>1, <3>1 DEF Wired, Connected
    <2>3. ~overlap /\ ~stray => ~renders[r].detached /\ working(renders, r)
      BY <1>b, <2>1, <2>2 DEF working
    <2> QED
      BY <1>6, <1>7, <2>3
  <1>8. CASE onStaleFiles(b, F)
    <2>1. CASE /\ handle # None /\ page.screen = "paired"
               /\ page.socket \in open
               /\ sendFiles(renders, handle, b, F)
               /\ UNCHANGED pending
      <3>1. handle \in 1..Len(renders)
        BY <2>1 DEF Typed, None
      <3>2. ~overlap => handle = shown /\ ~renders[handle].detached
        BY <2>1 DEF InTurn, HandleLive
      <3>3. ~stray => renders[shown].socket \in open
        <4>1. page.socket # None
          BY <2>1 DEF Wired, ConnTyped, None
        <4> QED
          BY <2>1, <4>1 DEF Attached
      <3>4. ~overlap /\ ~stray =>
               ~renders[handle].detached /\ working(renders, handle)
        BY <2>1, <3>2, <3>3 DEF working
      <3> QED
        BY <1>6, <2>1, <3>1, <3>4
    <2>2. CASE /\ pending' = b
               /\ fate' = [c \in Batches |->
                     IF c = b THEN [F[b] EXCEPT !.is = "queued"]
                     ELSE IF c = pending THEN [F[c] EXCEPT !.is = "replaced"]
                     ELSE F[c]]
               /\ UNCHANGED renders
      <3>1. /\ fate' \in [Batches -> FateRecords]
            /\ fate'[b].is = "queued" /\ fate'[b].from = page.session
            /\ \A c \in Batches : c # b =>
                  fate'[c].is = "replaced" \/ fate'[c].is = fate[c].is
        BY <1>1, <2>2 DEF FateRecords, Fates
      <3>2. \A c \in Batches : good(fate'[c].is)
        BY <1>5, <3>1 DEF good
      <3>3. SameRenders(renders, renders')
        BY <2>2, RendersStay
      <3>4. Given'
        <4> SUFFICES ASSUME NEW i \in 1..Len(renders'), renders'[i].batch # None
                     PROVE  fate'[renders'[i].batch].is \notin {"unpicked", "queued"}
          BY DEF Given
        <4>1. /\ renders'[i].batch \in Batches
              /\ fate[renders'[i].batch].is \notin {"unpicked", "queued"}
          BY <2>2, BatchTyped DEF Given
        <4>2. renders'[i].batch # b
          BY <1>3, <4>1
        <4> QED
          BY <3>1, <4>1, <4>2
      <3> QED
        BY <1>3, <2>2, <3>1, <3>2, <3>3, <3>4, PicksStep
    <2> QED
      BY <1>8, <2>1, <2>2 DEF onStaleFiles
  <1>9. CASE /\ renders[r].socket = None /\ ~renders[r].detached
             /\ fate' = [F EXCEPT ![b].is = "vanished"]
             /\ UNCHANGED <<renders, pending>>
    <2>1. overlap \/ stray
      BY <1>9, <1>b, <1>c DEF None
    <2>2. /\ fate' \in [Batches -> FateRecords]
          /\ fate'[b].is = "vanished"
          /\ \A c \in Batches : c # b => fate'[c] = fate[c]
      BY <1>1, <1>9 DEF FateRecords, Fates
    <2>3. \A c \in Batches : good(fate'[c].is)
      BY <1>5, <2>1, <2>2 DEF good
    <2>4. SameRenders(renders, renders')
      BY <1>9, RendersStay
    <2>5. Given'
      BY <1>9, <2>2, GivenStep
    <2>6. pending' # None => /\ fate'[pending'].is = "queued"
                             /\ fate'[pending'].from = page.session
      BY <1>4, <1>9, <2>2 DEF SameSession
    <2> QED
      BY <1>3, <1>9, <2>2, <2>3, <2>4, <2>5, <2>6, PicksStep DEF Typed
  <1> QED
    BY <1>2, <1>7, <1>8, <1>9

LEMMA PickInv ==
    ASSUME IInv, RendersAssumption, PickFiles \/ DropFiles
    PROVE  IInv'
  <1> USE DEF IInv, Rendered, Screened
  <1>1. CASE PickFiles
    <2>1. /\ picker \in 1..Len(renders) /\ page.screen # "away"
          /\ renders[picker].session = page.session
          /\ renders[picker].state = "live"
          /\ picker' = None
      BY <1>1 DEF PickFiles, Typed, SameSession, None
    <2>2. PICK b \in Batches : handlePicked(picker, b)
      BY <1>1 DEF PickFiles
    <2> QED
      BY <2>1, <2>2, HandlePicked
  <1>2. CASE DropFiles
    <2>1. /\ shown \in 1..Len(renders) /\ page.screen # "away"
          /\ renders[shown].session = page.session
          /\ renders[shown].state = "live"
          /\ picker' = picker
      BY <1>2 DEF DropFiles, Typed, SameSession, shown
    <2>2. PICK b \in Batches : handlePicked(shown, b)
      BY <1>2 DEF DropFiles
    <2> QED
      BY <2>1, <2>2, HandlePicked
  <1> QED
    BY <1>1, <1>2

(* A render becomes the active one and gets what was queued.               *)
LEMMA ReadyInv ==
    ASSUME IInv, RendersAssumption, NEW r \in 1..Len(renders), RenderReady(r)
    PROVE  IInv'
  <1> USE DEF IInv, Rendered, Screened
  <1> DEFINE e == [renders[r] EXCEPT !.state = "live"]
             R == [renders EXCEPT ![r] = e]
  <1>1. /\ renders[r] \in RenderRecords /\ renders[r].state = "deriving"
        /\ ~renders[r].detached /\ handle' = r
        /\ UNCHANGED <<conn, page, stray, sockets, picker, clobbered, overlap>>
    BY DEF RenderReady, Typed, HandleLive, conn
  <1>2. /\ e \in RenderRecords /\ e.state = "live"
        /\ e.session = renders[r].session
        /\ e.socket = renders[r].socket /\ e.batch = renders[r].batch
        /\ e.detached = renders[r].detached
        /\ e.used = renders[r].used /\ e.there = renders[r].there
    BY <1>1 DEF RenderRecords
  <1>3. [renders EXCEPT ![r].state = "live"] = R
    BY <1>1 DEF RenderRecords, Typed
  <1>4. \/ /\ pending # None /\ pending' = None
           /\ sendFiles(R, r, pending, fate)
        \/ renders' = R /\ UNCHANGED <<pending, fate>>
    BY <1>3 DEF RenderReady, flushed
  <1> HIDE DEF e
  <1>5. /\ R \in Seq(RenderRecords) /\ Len(R) = Len(renders) /\ R[r] = e
        /\ \A i \in 1..Len(renders) : i # r => R[i] = renders[i]
    BY <1>2, OneRender DEF Typed
  <1> HIDE DEF R
  <1>6. \A c \in Batches : good(fate[c].is)
    BY DEF GoodFates
  <1>7. ~overlap => r = shown /\ handle = None
    BY <1>1 DEF InTurn
  <1>8. /\ SameRenders(R, renders')
        /\ \A i \in 1..Len(R) : /\ renders'[i].used = R[i].used
                                /\ renders'[i].there = R[i].there
        /\ fate' \in [Batches -> FateRecords]
        /\ \A c \in Batches : good(fate'[c].is)
        /\ Given'
        /\ pending' = None \/ (pending' = pending /\ fate' = fate)
    <2>1. CASE /\ pending # None /\ pending' = None
               /\ sendFiles(R, r, pending, fate)
      <3>1. /\ pending \in Batches /\ fate \in [Batches -> FateRecords]
            /\ fate[pending].is = "queued"
            /\ fate[pending].from = page.session
        BY <2>1 DEF Typed, SameSession
      <3>2. /\ SameRenders(R, renders')
            /\ \A i \in 1..Len(R) :
                  /\ renders'[i].used = R[i].used
                  /\ renders'[i].there = R[i].there
                  /\ renders'[i].batch \in {R[i].batch, pending}
            /\ fate' \in [Batches -> FateRecords]
            /\ fate'[pending].is = fateOf(R, r, fate[pending])
            /\ \A c \in Batches : c # pending => fate'[c] = fate[c]
        BY <1>5, <2>1, <3>1, SendFiles
      <3>3. r = shown => /\ fate[pending].from = R[r].session
                         /\ ~stray => sockets[R[r].socket] = fate[pending].from
        BY <1>2, <1>5, <3>1 DEF SameSession, Attached
      <3>4. ~overlap => r = shown /\ ~R[r].detached
        BY <1>1, <1>2, <1>5, <1>7
      <3>5. good(fateOf(R, r, fate[pending]))
        BY <3>1, <3>3, <3>4, GoodFate
      <3>6. Given'
        <4>1. fateOf(R, r, fate[pending]) \notin {"unpicked", "queued"}
          BY DEF fateOf
        <4>2. /\ Len(renders') = Len(renders)
              /\ \A i \in 1..Len(renders) :
                    renders'[i].batch \in {renders[i].batch, pending}
          BY <1>2, <1>5, <3>2 DEF SameRenders
        <4> QED
          BY <3>1, <3>2, <4>1, <4>2, GivenStep
      <3> QED
        BY <1>6, <2>1, <3>2, <3>5, <3>6
    <2>2. CASE renders' = R /\ UNCHANGED <<pending, fate>>
      <3>1. SameRenders(R, renders')
        BY <1>5, <2>2 DEF SameRenders
      <3>2. Given'
        <4>1. /\ Len(renders') = Len(renders)
              /\ \A i \in 1..Len(renders) : renders'[i].batch = renders[i].batch
          BY <1>2, <1>5, <2>2
        <4> QED
          BY <2>2, <4>1 DEF Given
      <3> QED
        BY <1>6, <2>2, <3>1, <3>2 DEF Typed
    <2> QED
      BY <1>4, <2>1, <2>2
  <1>9. /\ renders' \in Seq(RenderRecords) /\ Len(renders') = Len(renders)
        /\ \A i \in 1..Len(renders) :
              /\ renders'[i].session = renders[i].session
              /\ renders'[i].socket = renders[i].socket
              /\ renders'[i].detached <=> renders[i].detached
              /\ i # r => renders'[i].state = renders[i].state
              /\ renders'[i].used = renders[i].used
              /\ renders'[i].there = renders[i].there
        /\ renders'[r].state = "live" /\ ~renders'[r].detached
    BY <1>1, <1>2, <1>5, <1>8 DEF SameRenders
  <1>10. Typed'
    <2>1. /\ renders' # <<>> /\ handle' \in 0..Len(renders')
          /\ picker' \in 0..Len(renders') /\ pending' \in Batches \cup {None}
      BY <1>1, <1>8, <1>9 DEF Typed
    <2> QED
      BY <1>1, <1>8, <1>9, <2>1 DEF Typed
  <1>11. HandleLive'
    BY <1>1, <1>9 DEF HandleLive
  <1>12. InTurn'
    BY <1>1, <1>7, <1>9 DEF InTurn, shown
  <1>13. SameSession'
    <2>1. picker # None => picker \in 1..Len(renders)
      BY DEF Typed, None
    <2>2. Len(renders) \in 1..Len(renders)
      BY DEF Typed
    <2> QED
      BY <1>1, <1>8, <1>9, <2>1, <2>2 DEF SameSession, shown
  <1>14. OneListener'
    <2>1. DOMAIN renders' = 1..Len(renders) /\ DOMAIN renders = 1..Len(renders)
      BY <1>9 DEF Typed
    <2>2. r # None
      BY DEF None
    <2> QED
      BY <1>1, <1>7, <1>9, <2>1, <2>2 DEF OneListener, None
  <1>15. GoodFates' /\ NoOverwrite'
    BY <1>1, <1>8 DEF GoodFates, good, NoOverwrite
  <1>16. NamesRemembered'
    BY <1>9 DEF NamesRemembered
  <1>17. Attached'
    <2>1. Len(renders) \in 1..Len(renders)
      BY DEF Typed
    <2> QED
      BY <1>1, <1>9, <2>1 DEF Attached, shown
  <1>18. Wired'
    BY <1>1, SameConn DEF conn, Wired, ConnTyped
  <1> QED
    BY <1>8, <1>10, <1>11, <1>12, <1>13, <1>14, <1>15, <1>16, <1>17, <1>18

-----------------------------------------------------------------------------
(* The theorems *)

LEMMA InitIInv ==
    ASSUME RendersAssumption, Init
    PROVE  IInv
  <1>1. PICK role \in Roles :
           /\ page = [screen |-> "paired", session |-> 1, role |-> role,
                      socket |-> 1]
           /\ renders = <<rendering(role, 1, 1)>>
    BY DEF Init, Roles
  <1> DEFINE e == rendering(role, 1, 1)
  <1>2. e \in RenderRecords /\ e.session = 1 /\ e.state = "deriving"
        /\ e.socket = 1 /\ e.batch = None
        /\ ~e.detached /\ e.used = {} /\ e.there = {}
    BY DEF rendering, RenderRecords, None, Roles
  <1> HIDE DEF e
  <1>3. /\ renders \in Seq(RenderRecords) /\ Len(renders) = 1
        /\ DOMAIN renders = 1..1 /\ renders[1] = e /\ renders # <<>>
    BY <1>1, <1>2 DEF e
  <1>4. /\ handle = 0 /\ pending = 0 /\ picker = 0
        /\ fate = [b \in Batches |-> [is |-> "unpicked", from |-> 0]]
        /\ clobbered = FALSE /\ overlap = FALSE /\ stray = FALSE
        /\ sockets = <<1>> /\ open = {1}
        /\ asking = {} /\ answered = {} /\ due = {}
    BY DEF Init, None
  <1>5. Typed
    <2>2. fate \in [Batches -> FateRecords]
      BY <1>4 DEF FateRecords, Fates
    <2>3. /\ handle \in 0..Len(renders) /\ picker \in 0..Len(renders)
          /\ pending \in Batches \cup {None}
      BY <1>3, <1>4 DEF None
    <2>4. overlap \in BOOLEAN /\ clobbered \in BOOLEAN
      BY <1>4
    <2> QED
      BY <1>3, <2>2, <2>3, <2>4 DEF Typed
  <1>6. HandleLive /\ InTurn /\ SameSession /\ OneListener
    BY <1>1, <1>2, <1>3, <1>4
       DEF HandleLive, InTurn, SameSession, OneListener, shown, None
  <1>7. GoodFates /\ NoOverwrite
    BY <1>4 DEF GoodFates, good, NoOverwrite
  <1>9. Attached /\ Given
    BY <1>1, <1>2, <1>3, <1>4 DEF Attached, Given, shown
  <1>10. Wired
    <2>1. page \in Pages /\ sockets \in Seq(Nat) /\ Len(sockets) = 1
          /\ sockets[1] = 1
      BY <1>1, <1>4 DEF Pages
    <2>2. page.screen = "paired" /\ page.session = 1 /\ page.socket = 1
      BY <1>1
    <2>3. 1..Len(sockets) = {1}
      BY <2>1
    <2>4. ConnTyped
      <3>1. page.socket \in 0..Len(sockets)
        BY <2>1, <2>2
      <3> QED
        BY <1>4, <2>1, <2>3, <3>1 DEF ConnTyped
    <2>5. Connected
      BY <1>4, <2>1, <2>2, <2>3 DEF Connected, None
    <2> QED
      BY <2>4, <2>5 DEF Wired
  <1>8. NamesRemembered
    <2>1. \A i \in 1..Len(renders) : renders[i].used = {} /\ renders[i].there = {}
      BY <1>2, <1>3
    <2> QED
      BY <2>1, FS_EmptySet DEF NamesRemembered
  <1> QED
    BY <1>5, <1>6, <1>7, <1>8, <1>9, <1>10 DEF IInv, Rendered, Screened

LEMMA NextIInv ==
    ASSUME RendersAssumption, IInv, [Next]_vars
    PROVE  IInv'
  <1>1. CASE UNCHANGED vars
    <2>1. UNCHANGED <<page, sockets, open, tries, stray>>
          /\ UNCHANGED <<renders, handle, pending, picker, fate, clobbered, overlap>>
      BY <1>1 DEF vars, conn
    <2>2. SocketStays
      BY <2>1 DEF SocketStays
    <2>3. Rendered'
      BY <2>1, <2>2, StayStep DEF IInv
    <2>4. Wired'
      BY <2>1, SameConn DEF IInv, Wired, ConnTyped
    <2> QED
      BY <2>3, <2>4 DEF IInv
  <1>2. CASE Next
    <2>1. DOMAIN renders = 1..Len(renders)
      BY DEF IInv, Rendered, Typed
    <2> QED
      BY <1>2, <2>1, RenderAgainInv, LeaveInv, SocketInv, AttemptInv,
         ReceiverInv, PickInv, ReadyInv DEF Next
  <1> QED
    BY <1>1, <1>2

(* The inductive invariant holds throughout.                               *)
THEOREM AlwaysIInv == Spec => []IInv
  <1>1. Init => IInv
    BY InitIInv, RendersAssumption
  <1>2. IInv /\ [Next]_vars => IInv'
    BY NextIInv, RendersAssumption
  <1> QED
    BY <1>1, <1>2, PTL DEF Spec

(* However the screen is rendered again, detached and left, of all the     *)
(* transfer UIs only the active one listens, unless two were under way.    *)
THEOREM OneListenerAlways == Spec => []OneListener
  <1>1. IInv => OneListener
    BY DEF IInv, Rendered, Screened
  <1> QED
    BY <1>1, AlwaysIInv, PTL

(* handlePicked and onStaleFiles give no batch to a UI that cannot send it *)
(* or is not seen, unless two renders were under way at once, or an        *)
(* attempt to resume a session that had been left has acted on the page.   *)
(* It does not say that what they queued, or what a detached render had    *)
(* begun, is sent.                                                         *)
THEOREM PickedAlwaysKept == Spec => []PickedIsKept
  <1>1. IInv => PickedIsKept
    BY DEF IInv, Rendered, Screened, GoodFates, good, PickedIsKept
  <1> QED
    BY <1>1, AlwaysIInv, PTL

(* The queue hands a batch over at most once, even where renders overlap.  *)
THEOREM AlwaysSentOnce == Spec => []SentOnce
  <1>1. IInv => SentOnce
    BY DEF IInv, Rendered, Screened, GoodFates, good, SentOnce
  <1> QED
    BY <1>1, AlwaysIInv, PTL

(* No batch picked in one session is enciphered for another, even where    *)
(* renders overlap and pickers return late; and none goes to the peer of   *)
(* another, until an attempt to resume a session that had been left has    *)
(* acted on the page.                                                      *)
THEOREM FilesAlwaysStay == Spec => []FilesStayInSession
  <1>1. IInv => FilesStayInSession
    BY DEF IInv, Rendered, Screened, GoodFates, good, FilesStayInSession
  <1> QED
    BY <1>1, AlwaysIInv, PTL

(* dedupeFilename gives every file of a folder a name of its own, however  *)
(* many there are and whatever their names.                                *)
THEOREM NeverOverwrites == Spec => []NoOverwrite
  <1>1. IInv => NoOverwrite
    BY DEF IInv, Rendered
  <1> QED
    BY <1>1, AlwaysIInv, PTL

=============================================================================
