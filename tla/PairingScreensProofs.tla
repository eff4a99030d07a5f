------------------------ MODULE PairingScreensProofs -------------------------
(***************************************************************************)
(* Proofs about PairingScreens, for any number of sockets, camera scans    *)
(* and reconnect attempts: which sockets and which camera the page still   *)
(* holds, and that a paired page is connected or about to be.              *)
(***************************************************************************)
EXTENDS PairingScreens, TLAPS

(* The screens nothing is under way on.                                    *)
Idle ==
    {"role-select", "code-role-select", "join-detected", "sender-scanning",
     "sender-paste", "code-sender-entry", "error", "insecure-context"}

Curs == [screen : Screens, session : 0..MaxStarts, token : 0..MaxStarts]

(* A flow's socket is of the session named after it, only a flow by code   *)
(* that is paired has an exchange, and every session named is of a socket  *)
(* there has been.                                                         *)
Shape ==
    /\ \A n \in 1..Len(socks) :
          /\ socks[n].flow \in Flows \ {"reconnect"} => socks[n].session = n
          /\ socks[n].exchange # "none" =>
                socks[n].flow \in {"receive-code", "join-by-code", "none"}
          /\ socks[n].session <= Len(socks)
          /\ live(n) =>
                /\ socks[n].flow # "none"
                /\ socks[n].exchange # "none" => socks[n].heard = "paired"
    /\ cur.session <= Len(socks)
    /\ \A t \in timers : t.session <= Len(socks)

(* A flow that may still become a pairing.                                 *)
Unpaired(n) ==
    /\ live(n) /\ socks[n].flow # "reconnect"
    /\ socks[n].heard # "paired" \/ socks[n].exchange # "none"

(* What every socket still open is.                                        *)
OpenSockets ==
    \A n \in 1..Len(socks) : live(n) =>
       /\ n = active \/ (socks[n].flow = "reconnect" /\ socks[n].heard = "nothing")
       /\ Unpaired(n) =>
             /\ \A m \in 1..Len(socks) :
                   socks[m].flow = "reconnect" => socks[m].session # n
             /\ \A t \in timers : t.session # n

(* What the active socket is.                                              *)
ActiveSocket ==
    active # None =>
       /\ live(active) /\ cur.screen \notin Idle
       /\ socks[active].flow = "reconnect" => cur.screen = "paired"
       /\ socks[active].flow = "receive" /\ socks[active].heard = "created"
             => cur.session = active
       /\ cur.screen = "paired" =>
             /\ socks[active].heard = "paired"
             /\ socks[active].exchange = "none"
             /\ socks[active].wired
             /\ socks[active].session = cur.session

(* The attempts to resume the session that is shown.                       *)
Mates == {m \in 1..Len(socks) : socks[m].flow = "reconnect"
                                /\ socks[m].session = cur.session}
Retrying == {t \in timers : t.session = cur.session}

(* A paired page is connected, or there is exactly one attempt to resume.  *)
OneAttempt ==
    cur.screen = "paired" =>
       /\ cur.token \in {None, cur.session}
       /\ active # None => Retrying = {} /\ Mates \subseteq {active}
       /\ active = None =>
             \/ \E t \in timers : Retrying = {t} /\ Mates = {}
             \/ \E n \in 1..Len(socks) :
                   live(n) /\ Mates = {n} /\ Retrying = {}

(* A running camera is the shown one's.                                    *)
Running ==
    \A s \in 1..Len(scans) :
       scans[s].state = "running" =>
          s = stop /\ cur.screen = "sender-scanning" /\ s = Len(scans)

Good == OpenSockets /\ ActiveSocket /\ OneAttempt /\ Running

(* The inductive invariant.                                                *)
IInv == TypeOK /\ Shape /\ (~stray => Good)

-----------------------------------------------------------------------------
(* Sockets and scans *)

LEMMA OneChanged ==
    ASSUME NEW X, NEW R \in Seq(X), NEW n \in 1..Len(R), NEW e \in X
    PROVE  LET Q == [R EXCEPT ![n] = e] IN
           /\ Q \in Seq(X) /\ Len(Q) = Len(R) /\ Q[n] = e
           /\ \A i \in 1..Len(R) : i # n => Q[i] = R[i]
  OBVIOUS

LEMMA OneMore ==
    ASSUME NEW X, NEW R \in Seq(X), NEW e \in X
    PROVE  LET Q == Append(R, e) IN
           /\ Q \in Seq(X) /\ Len(Q) = Len(R) + 1 /\ Q[Len(R) + 1] = e
           /\ \A i \in 1..Len(R) : Q[i] = R[i]
           /\ \A i \in 1..Len(Q) : i \in 1..Len(R) \/ i = Len(R) + 1
  OBVIOUS

LEMMA SocketTyped ==
    ASSUME TypeOK, NEW n \in 1..Len(socks)
    PROVE  /\ socks[n] \in SocketRecords
           /\ socks[n].session \in Nat /\ socks[n].attempt \in Nat
           /\ socks[n].session \in 0..MaxStarts
           /\ socks[n].attempt \in 0..RECONNECT_MAX_ATTEMPTS
  <1>1. socks[n] \in SocketRecords
    BY DEF TypeOK
  <1>2. /\ socks[n].session \in 0..MaxStarts
        /\ socks[n].attempt \in 0..RECONNECT_MAX_ATTEMPTS
    BY <1>1 DEF SocketRecords
  <1> QED
    BY <1>1, <1>2, ScreensAssumption DEF ScreensAssumption

(* A socket r is as before, has lost its exchange, or is on its way out.   *)
Fades(r, q) ==
    /\ q.state = "open" =>
          /\ r.state = "open" /\ q.flow = r.flow /\ q.session = r.session
          /\ q.heard = r.heard /\ q.wired = r.wired
    /\ q.flow \in {r.flow, "none"}
    /\ q.flow # "none" => q.session = r.session
    /\ q.session \in {r.session, None}
    /\ q.exchange \in {r.exchange, "none"}

AllFade(R, Q) ==
    /\ Q \in Seq(SocketRecords) /\ Len(Q) = Len(R)
    /\ \A i \in 1..Len(R) : Fades(R[i], Q[i])

LEMMA SameFade ==
    ASSUME NEW R \in Seq(SocketRecords)
    PROVE  AllFade(R, R)
  BY DEF AllFade, Fades

LEMMA OneFades ==
    ASSUME NEW R \in Seq(SocketRecords), NEW n \in 1..Len(R),
           NEW e \in SocketRecords, Fades(R[n], e)
    PROVE  AllFade(R, [R EXCEPT ![n] = e])
  <1>1. /\ [R EXCEPT ![n] = e] \in Seq(SocketRecords)
        /\ Len([R EXCEPT ![n] = e]) = Len(R) /\ [R EXCEPT ![n] = e][n] = e
        /\ \A i \in 1..Len(R) : i # n => [R EXCEPT ![n] = e][i] = R[i]
    BY OneChanged
  <1> QED
    BY <1>1 DEF AllFade, Fades

(* What ended makes of a socket.                                           *)
LEMMA EndedRecord ==
    ASSUME NEW r \in SocketRecords, NEW state \in {"closing", "closed"}
    PROVE  /\ ended(r, state) \in SocketRecords
           /\ ended(r, state).state = state
           /\ ended(r, state).flow = r.flow
           /\ ended(r, state).session = r.session
           /\ ended(r, state).exchange = r.exchange
  BY DEF ended, SocketRecords

(* cleanupActive closes the active socket, and no other.                   *)
LEMMA ClosedSockets ==
    ASSUME TypeOK, NEW S, AllFade(socks, S)
    PROVE  /\ AllFade(socks, closed(S))
           /\ active # None => closed(S)[active].state # "open"
  <1>1. active # None => active \in 1..Len(socks)
    BY DEF TypeOK, None
  <1>2. CASE active # None /\ S[active].state = "open"
    <2> DEFINE e == ended(S[active], "closing")
    <2>1. S \in Seq(SocketRecords) /\ active \in 1..Len(S)
          /\ S[active] \in SocketRecords
      BY <1>1, <1>2 DEF AllFade
    <2>2. /\ e \in SocketRecords /\ e.state = "closing"
          /\ e.flow = S[active].flow /\ e.session = S[active].session
          /\ e.exchange = S[active].exchange
      BY <2>1, EndedRecord
    <2>3. closed(S) = [S EXCEPT ![active] = e]
      BY <1>2, <2>1 DEF closed
    <2> HIDE DEF e
    <2>4. /\ closed(S) \in Seq(SocketRecords) /\ Len(closed(S)) = Len(S)
          /\ closed(S)[active] = e
          /\ \A i \in 1..Len(S) : i # active => closed(S)[i] = S[i]
      BY <2>1, <2>2, <2>3, OneChanged
    <2>5. Fades(socks[active], e)
      BY <1>1, <1>2, <2>2 DEF AllFade, Fades
    <2> QED
      BY <2>2, <2>4, <2>5 DEF AllFade
  <1>3. CASE ~(active # None /\ S[active].state = "open")
    <2>1. closed(S) = S
      BY <1>3 DEF closed
    <2> QED
      BY <1>3, <2>1
  <1> QED
    BY <1>2, <1>3

(* Fading sockets keep the shape of things.                                *)
LEMMA FadeShape ==
    ASSUME TypeOK, Shape, AllFade(socks, socks'),
           cur'.session <= Len(socks), timers' \subseteq timers
    PROVE  Shape'
  <1>1. \A n \in 1..Len(socks) : socks[n] \in SocketRecords
    BY DEF TypeOK
  <1>2. Len(socks) \in Nat
    BY DEF TypeOK
  <1>3. ASSUME NEW n \in 1..Len(socks')
        PROVE  /\ socks'[n].flow \in Flows \ {"reconnect"}
                     => socks'[n].session = n
               /\ socks'[n].exchange # "none" =>
                     socks'[n].flow \in {"receive-code", "join-by-code", "none"}
               /\ socks'[n].session <= Len(socks')
               /\ socks'[n].state = "open" =>
                     /\ socks'[n].flow # "none"
                     /\ socks'[n].exchange # "none" =>
                           socks'[n].heard = "paired"
    <2>1. Len(socks') = Len(socks) /\ Fades(socks[n], socks'[n])
      BY DEF AllFade
    <2>2. "none" \notin Flows
      BY DEF Flows
    <2> QED
      BY <1>1, <1>2, <2>1, <2>2 DEF Shape, live, Fades, None
  <1> QED
    BY <1>3 DEF Shape, AllFade, live

(* The camera that activeStopScan stops is off, and the others are as      *)
(* they were; the scanning screen asks for one.                            *)
LEMMA LeftScans ==
    ASSUME TypeOK, NEW C \in Seq(ScanRecords), Len(C) = Len(scans),
           NEW screen, screen = "sender-scanning" => mayStart
    PROVE  LET Q == rendered(screen, stopped(C, stop)) IN
           /\ Q \in Seq(ScanRecords) /\ Len(Q) \in Len(scans)..MaxStarts
           /\ Len(socks) + Len(Q) <= MaxStarts
           /\ \A s \in 1..Len(Q) : Q[s].state = "running" =>
                 s \in 1..Len(C) /\ s # stop /\ C[s].state = "running"
  <1> DEFINE D == stopped(C, stop)
             Q == rendered(screen, D)
  <1>1. /\ D \in Seq(ScanRecords) /\ Len(D) = Len(scans)
        /\ \A s \in 1..Len(D) : D[s].state = "running" =>
              s # stop /\ C[s].state = "running"
    <2>1. CASE stop # None /\ C[stop].state = "running"
      <3> DEFINE e == [C[stop] EXCEPT !.state = "off", !.cancelled = FALSE]
      <3>0. stop \in 1..Len(C) /\ C[stop] \in ScanRecords
        BY <2>1 DEF TypeOK, None
      <3>1. stop \in 1..Len(C) /\ e \in ScanRecords /\ e.state = "off"
        BY <3>0 DEF ScanRecords
      <3>2. D = [C EXCEPT ![stop] = e]
        BY <2>1 DEF stopped, released
      <3> HIDE DEF e
      <3>3. /\ D \in Seq(ScanRecords) /\ Len(D) = Len(C) /\ D[stop] = e
            /\ \A i \in 1..Len(C) : i # stop => D[i] = C[i]
        BY <3>0, <3>1, <3>2, OneChanged
      <3> QED
        BY <3>1, <3>3
    <2>2. CASE ~(stop # None /\ C[stop].state = "running")
      <3>1. D = C
        BY <2>2 DEF stopped
      <3>2. \A s \in 1..Len(C) : s # None
        BY DEF None
      <3> QED
        BY <2>2, <3>1, <3>2
    <2> QED
      BY <2>1, <2>2
  <1> HIDE DEF D
  <1>2. CASE screen = "sender-scanning"
    <2> DEFINE e == [state |-> "asking", cancelled |-> FALSE,
                     alone |-> \A s \in 1..Len(D) : ~underWay(D, s)]
    <2>1. e \in ScanRecords /\ e.state = "asking" /\ Q = Append(D, e)
      BY <1>2 DEF ScanRecords, rendered, scanning
    <2> HIDE DEF e
    <2>2. /\ Q \in Seq(ScanRecords) /\ Len(Q) = Len(D) + 1
          /\ Q[Len(D) + 1] = e
          /\ \A i \in 1..Len(D) : Q[i] = D[i]
          /\ \A i \in 1..Len(Q) : i \in 1..Len(D) \/ i = Len(D) + 1
      BY <1>1, <2>1, OneMore DEF Q
    <2>3. Len(scans) \in Nat /\ Len(socks) \in Nat /\ MaxStarts \in Nat
          /\ Len(socks) + Len(scans) < MaxStarts
      BY <1>2, ScreensAssumption DEF mayStart, ScreensAssumption, TypeOK
    <2> HIDE DEF Q
    <2>4. Q \in Seq(ScanRecords) /\ Len(Q) \in Len(scans)..MaxStarts
          /\ Len(socks) + Len(Q) <= MaxStarts
      BY <1>1, <2>2, <2>3
    <2>5. \A s \in 1..Len(Q) : Q[s].state = "running" =>
             s \in 1..Len(C) /\ s # stop /\ C[s].state = "running"
      BY <1>1, <2>1, <2>2
    <2> QED
      BY <2>4, <2>5 DEF Q, D
  <1>3. CASE screen # "sender-scanning"
    <2>1. Q = D
      BY <1>3 DEF rendered
    <2>2. /\ Len(scans) \in Nat /\ Len(socks) \in Nat /\ MaxStarts \in Nat
          /\ Len(socks) + Len(scans) <= MaxStarts
      BY ScreensAssumption DEF ScreensAssumption, TypeOK
    <2> HIDE DEF Q
    <2>3. Q \in Seq(ScanRecords) /\ Len(Q) \in Len(scans)..MaxStarts
          /\ Len(socks) + Len(Q) <= MaxStarts
      BY <1>1, <2>1, <2>2
    <2> QED
      BY <1>1, <2>1, <2>3 DEF Q, D
  <1> QED
    BY <1>2, <1>3

-----------------------------------------------------------------------------
(* The kinds of step *)

Timers == SUBSET [attempt : 1..RECONNECT_MAX_ATTEMPTS, session : 0..MaxStarts]

(* Whatever was under way is left for an idle screen: setState, and the    *)
(* two places where a scan's stop function is kept after it.               *)
LEMMA LeaveStep ==
    ASSUME IInv, NEW screen \in Idle, screen = "sender-scanning" => mayStart,
           NEW S, AllFade(socks, S),
           NEW C \in Seq(ScanRecords), Len(C) = Len(scans),
           \A s \in 1..Len(C) : C[s].state = "running" =>
              scans[s].state = "running",
           cur' = at(screen, None), active' = None, socks' = closed(S),
           scans' = rendered(screen, stopped(C, stop)),
           stop' \in 0..Len(scans), timers' \in SUBSET timers,
           deriving' = deriving,
           stray' \in BOOLEAN, ~stray' => ~stray
    PROVE  IInv'
  <1> USE DEF IInv
  <1>1. /\ AllFade(socks, socks')
        /\ active # None => socks'[active].state # "open"
    BY ClosedSockets
  <1>2. /\ scans' \in Seq(ScanRecords) /\ Len(scans') \in Len(scans)..MaxStarts
        /\ Len(socks) + Len(scans') <= MaxStarts
        /\ \A s \in 1..Len(scans') : scans'[s].state = "running" =>
              s \in 1..Len(C) /\ s # stop /\ C[s].state = "running"
    BY LeftScans
  <1>3. /\ cur'.screen = screen /\ cur'.session = 0 /\ cur'.token = 0
        /\ cur' \in Curs
    BY ScreensAssumption DEF at, None, Curs, Screens, Idle, ScreensAssumption
  <1>4. TypeOK'
    <2>1. Len(socks') = Len(socks) /\ socks' \in Seq(SocketRecords)
      BY <1>1 DEF AllFade
    <2>2. Len(socks) \in Nat /\ Len(scans) \in Nat
      BY DEF TypeOK
    <2>3. active' \in 0..Len(socks') /\ stop' \in 0..Len(scans')
      BY <1>2, <2>1, <2>2, ScreensAssumption DEF None, ScreensAssumption
    <2>4. /\ timers' \subseteq [attempt : 1..RECONNECT_MAX_ATTEMPTS,
                                session : 0..MaxStarts]
          /\ deriving' \subseteq 1..MaxStarts
      BY DEF TypeOK
    <2> QED
      BY <1>2, <1>3, <2>1, <2>3, <2>4 DEF TypeOK, Curs
  <1>5. Shape'
    <2>1. cur'.session <= Len(socks)
      BY <1>3 DEF TypeOK
    <2> QED
      BY <1>1, <2>1, FadeShape
  <1>6. ASSUME ~stray' PROVE Good'
    <2>1. Good
      BY <1>6
    <2>2. Len(socks') = Len(socks)
      BY <1>1 DEF AllFade
    <2>3. \A m \in 1..Len(socks) : Fades(socks[m], socks'[m])
      BY <1>1 DEF AllFade
    <2>4. OpenSockets'
      <3> SUFFICES ASSUME NEW n \in 1..Len(socks), socks'[n].state = "open"
                   PROVE  socks'[n].flow = "reconnect"
                          /\ socks'[n].heard = "nothing"
        BY <2>2 DEF OpenSockets, Unpaired, live
      <3>1. n # active \/ active = None
        BY <1>1
      <3>2. n # None
        BY DEF None
      <3>3. socks[n].state = "open" /\ socks'[n].flow = socks[n].flow
            /\ socks'[n].heard = socks[n].heard
        BY <2>3 DEF Fades
      <3> QED
        BY <2>1, <3>1, <3>2, <3>3 DEF Good, OpenSockets, live
    <2>5. ActiveSocket' /\ OneAttempt'
      BY <1>3 DEF ActiveSocket, OneAttempt, Idle
    <2>6. Running'
      BY <1>2, <2>1 DEF Good, Running
    <2> QED
      BY <2>4, <2>5, <2>6 DEF Good
  <1> QED
    BY <1>4, <1>5, <1>6

(* A flow starts from an idle screen, with a socket of its own.            *)
LEMMA StartStep ==
    ASSUME IInv, NEW flow \in Flows \ {"reconnect"},
           NEW screen \in Buttonless, start(flow, screen),
           scans' \in Seq(ScanRecords), Len(scans') = Len(scans),
           stop' \in 0..Len(scans), UNCHANGED <<timers, deriving>>,
           stray' \in BOOLEAN,
           ~stray' => /\ ~stray /\ cur.screen \in Idle
                      /\ \A s \in 1..Len(scans) : scans'[s].state # "running"
    PROVE  IInv'
  <1> USE DEF IInv
  <1> DEFINE n == Len(socks) + 1
             e == [flow |-> flow, session |-> n, attempt |-> 0,
                   state |-> "open", heard |-> "nothing",
                   wired |-> FALSE, exchange |-> "none"]
  <1>1. /\ Len(socks) \in Nat /\ Len(scans) \in Nat /\ MaxStarts \in Nat
        /\ Len(socks) + Len(scans) < MaxStarts
        /\ RECONNECT_MAX_ATTEMPTS \in Nat
    BY ScreensAssumption DEF TypeOK, start, mayStart, ScreensAssumption
  <1>2. e \in SocketRecords
    BY <1>1 DEF SocketRecords
  <1>3. socks' = Append(socks, e) /\ active' = n
    BY DEF start, connect
  <1> HIDE DEF e
  <1>4. /\ socks' \in Seq(SocketRecords) /\ Len(socks') = n /\ socks'[n] = e
        /\ \A i \in 1..Len(socks) : socks'[i] = socks[i]
        /\ \A i \in 1..n : i \in 1..Len(socks) \/ i = n
    BY <1>2, <1>3, OneMore DEF TypeOK
  <1>5. /\ cur' \in Curs /\ cur'.screen = screen /\ cur'.session \in {0, n}
    BY <1>1 DEF start, at, None, Curs, Screens
  <1>6. /\ e.flow = flow /\ e.session = n /\ e.state = "open"
        /\ e.heard = "nothing" /\ e.exchange = "none"
    BY DEF e
  <1>7. TypeOK'
    <2>1. n \in Nat /\ Len(socks') + Len(scans') <= MaxStarts
          /\ active' \in 0..Len(socks') /\ stop' \in 0..Len(scans')
      BY <1>1, <1>3, <1>4
    <2> QED
      BY <1>4, <1>5, <2>1 DEF TypeOK, Curs
  <1>8. Shape'
    <2>1. ASSUME NEW m \in 1..n
          PROVE  /\ socks'[m].flow \in Flows \ {"reconnect"}
                       => socks'[m].session = m
                 /\ socks'[m].exchange # "none" =>
                       socks'[m].flow \in {"receive-code", "join-by-code", "none"}
                 /\ socks'[m].session <= n
                 /\ socks'[m].state = "open" =>
                       /\ socks'[m].flow # "none"
                       /\ socks'[m].exchange # "none" =>
                             socks'[m].heard = "paired"
      <3>1. CASE m = n
        BY <1>1, <1>4, <1>6, <3>1 DEF Flows
      <3>2. CASE m \in 1..Len(socks)
        <4>1. socks[m].session \in Nat /\ socks'[m] = socks[m]
              /\ socks[m].session <= Len(socks)
          BY <1>4, <3>2, SocketTyped DEF Shape, live
        <4>2. socks[m].session <= n
          BY <1>1, <4>1
        <4> QED
          BY <3>2, <4>1, <4>2 DEF Shape, live
      <3> QED
        BY <1>4, <3>1, <3>2
    <2>2. \A t \in timers : t.session <= n
      <3>1. \A t \in timers : t.session \in Int /\ t.session <= Len(socks)
        BY DEF TypeOK, Shape
      <3> QED
        BY <1>1, <3>1
    <2>3. cur'.session <= n
      BY <1>1, <1>5
    <2> QED
      BY <1>4, <2>1, <2>2, <2>3 DEF Shape, live
  <1>9. ASSUME ~stray' PROVE Good'
    <2>1. Good /\ active = None
      BY <1>9 DEF Good, ActiveSocket
    <2>2. \A m \in 1..Len(socks) : live(m) =>
             socks[m].flow = "reconnect" /\ socks[m].heard = "nothing"
      BY <2>1 DEF Good, OpenSockets, None
    <2>3. \A m \in 1..Len(socks) : socks[m].session # n
      BY <1>1, SocketTyped DEF Shape, live
    <2>4. \A t \in timers : t.session # n
      BY <1>1 DEF Shape, TypeOK
    <2>5. OpenSockets'
      <3> SUFFICES ASSUME NEW m \in 1..n, socks'[m].state = "open"
                   PROVE  \/ socks'[m].flow = "reconnect"
                             /\ socks'[m].heard = "nothing"
                          \/ /\ m = n
                             /\ \A i \in 1..n : socks'[i].flow = "reconnect"
                                   => socks'[i].session # n
                             /\ \A t \in timers : t.session # n
        BY <1>3, <1>4 DEF OpenSockets, Unpaired, live
      <3>1. \A i \in 1..n : socks'[i].flow = "reconnect"
               => socks'[i].session # n
        BY <1>4, <1>6, <2>3
      <3> QED
        BY <1>4, <2>2, <2>4, <3>1 DEF live
    <2>6. ActiveSocket'
      BY <1>3, <1>4, <1>5, <1>6 DEF ActiveSocket, live, Buttonless, Idle
    <2>7. OneAttempt'
      BY <1>5 DEF OneAttempt, Buttonless
    <2>8. Running'
      BY <1>9 DEF Running
    <2> QED
      BY <2>5, <2>6, <2>7, <2>8 DEF Good
  <1> QED
    BY <1>7, <1>8, <1>9

(* Only the camera, or which idle screen is shown, changes.                *)
LEMMA CameraStep ==
    ASSUME IInv, UNCHANGED <<active, socks, timers, deriving>>,
           cur' \in Curs, cur'.session <= Len(socks),
           scans' \in Seq(ScanRecords), Len(socks) + Len(scans') <= MaxStarts,
           stop' \in 0..Len(scans'), stray' \in BOOLEAN,
           ~stray' => /\ ~stray
                      /\ cur' = cur \/ (cur.screen \in Idle /\ cur'.screen \in Idle)
                      /\ Running'
    PROVE  IInv'
  <1> USE DEF IInv
  <1>1. TypeOK'
    BY DEF TypeOK, Curs
  <1>2. Shape'
    BY DEF Shape, live
  <1>3. ASSUME ~stray' PROVE Good'
    <2>1. Good /\ Running' /\ (cur' = cur \/ (cur.screen \in Idle /\ cur'.screen \in Idle))
      BY <1>3
    <2>2. OpenSockets'
      BY <2>1 DEF Good, OpenSockets, Unpaired, live
    <2>3. CASE cur' = cur
      BY <2>1, <2>2, <2>3 DEF Good, ActiveSocket, OneAttempt, Mates, Retrying, live
    <2>4. CASE cur.screen \in Idle /\ cur'.screen \in Idle
      BY <2>1, <2>2, <2>4 DEF Good, ActiveSocket, OneAttempt, Idle
    <2> QED
      BY <2>1, <2>3, <2>4
  <1> QED
    BY <1>1, <1>2, <1>3

(* A flow's socket, on which something is heard or exchanged.              *)
LEMMA FlowStep ==
    ASSUME IInv, NEW n \in 1..Len(socks), NEW e \in SocketRecords,
           socks' = [socks EXCEPT ![n] = e],
           e.state = socks[n].state, e.flow = socks[n].flow,
           e.session = socks[n].session,
           socks[n].flow # "reconnect",
           e.exchange # "none" =>
              /\ socks[n].flow \in {"receive-code", "join-by-code", "none"}
              /\ e.heard = "paired",
           cur' \in Curs, cur'.session <= Len(socks),
           UNCHANGED <<active, stop, scans, timers>>,
           deriving' \subseteq 1..MaxStarts, stray' \in BOOLEAN,
           ~stray' =>
              /\ ~stray /\ Unpaired(n)
              /\ cur'.screen \notin Idle
              /\ e.flow = "receive" /\ e.heard = "created" => cur'.session = n
              /\ cur'.screen = "paired" =>
                    /\ e.heard = "paired" /\ e.exchange = "none" /\ e.wired
                    /\ cur'.session = e.session /\ e.session = n
                    /\ cur'.token = None
    PROVE  IInv'
  <1> USE DEF IInv
  <1>1. /\ socks' \in Seq(SocketRecords) /\ Len(socks') = Len(socks)
        /\ socks'[n] = e
        /\ \A i \in 1..Len(socks) : i # n => socks'[i] = socks[i]
    BY OneChanged DEF TypeOK
  <1>2. TypeOK'
    BY <1>1 DEF TypeOK, Curs
  <1>3. Shape'
    BY <1>1 DEF Shape, live
  <1>4. ASSUME ~stray' PROVE Good'
    <2>1. Good /\ Unpaired(n) /\ live(n)
      BY <1>4 DEF Unpaired
    <2>2. active = n /\ active # None
      BY <2>1 DEF Good, OpenSockets, None
    <2>3. \A s \in 1..Len(scans) : scans[s].state # "running"
      BY <2>1, <2>2 DEF Good, ActiveSocket, Running, Idle
    <2>4. /\ \A m \in 1..Len(socks) :
                socks[m].flow = "reconnect" => socks[m].session # n
          /\ \A t \in timers : t.session # n
      BY <2>1 DEF Good, OpenSockets
    <2>5. \A m \in 1..Len(socks) : socks'[m].flow = "reconnect" =>
             socks'[m].session # n /\ m # n
      BY <1>1, <2>4
    <2>6. OpenSockets'
      BY <1>1, <2>1, <2>2, <2>4, <2>5 DEF Good, OpenSockets, Unpaired, live
    <2>7. ActiveSocket'
      BY <1>1, <1>4, <2>1, <2>2 DEF ActiveSocket, live
    <2>8. OneAttempt'
      <3> SUFFICES ASSUME cur'.screen = "paired" PROVE OneAttempt'
        BY DEF OneAttempt
      <3>1. cur'.session = n /\ cur'.token = None
        BY <1>4
      <3>2. Retrying' = {} /\ Mates' = {}
        BY <1>1, <2>4, <2>5, <3>1 DEF Retrying, Mates
      <3> QED
        BY <2>2, <3>1, <3>2 DEF OneAttempt
    <2>9. Running'
      BY <2>3 DEF Running
    <2> QED
      BY <2>6, <2>7, <2>8, <2>9 DEF Good
  <1> QED
    BY <1>2, <1>3, <1>4

(* A socket closes that nobody waits for any more.                         *)
LEMMA FadeStep ==
    ASSUME IInv, AllFade(socks, socks'), NEW n \in 1..Len(socks),
           \A m \in 1..Len(socks) : m # n => socks'[m] = socks[m],
           UNCHANGED <<cur, active, stop, scans, timers, deriving, stray>>,
           ~stray => /\ n # active
                     /\ cur.screen = "paired" => n \notin Mates
    PROVE  IInv'
  <1> USE DEF IInv
  <1>1. TypeOK'
    BY DEF TypeOK, AllFade
  <1>2. Shape'
    BY FadeShape DEF Shape, live
  <1>3. ASSUME ~stray' PROVE Good'
    <2>1. Good /\ n # active /\ Len(socks') = Len(socks)
      BY <1>3 DEF AllFade
    <2>2. \A m \in 1..Len(socks) : Fades(socks[m], socks'[m])
      BY DEF AllFade
    <2>3. ASSUME NEW m \in 1..Len(socks), socks'[m].state = "open"
          PROVE  /\ live(m) /\ socks'[m].flow = socks[m].flow
                 /\ socks'[m].heard = socks[m].heard
                 /\ socks'[m].exchange # "none" => socks[m].exchange # "none"
      BY <2>2, <2>3 DEF Fades, live
    <2>4. \A m \in 1..Len(socks) : socks'[m].flow = "reconnect" =>
             socks[m].flow = "reconnect" /\ socks'[m].session = socks[m].session
      BY <2>2 DEF Fades
    <2>5. OpenSockets'
      <3> SUFFICES ASSUME NEW m \in 1..Len(socks), socks'[m].state = "open"
                   PROVE  /\ \/ m = active
                             \/ /\ socks'[m].flow = "reconnect"
                                /\ socks'[m].heard = "nothing"
                          /\ /\ socks'[m].flow # "reconnect"
                             /\ \/ socks'[m].heard # "paired"
                                \/ socks'[m].exchange # "none"
                             => /\ \A i \in 1..Len(socks) :
                                      socks'[i].flow = "reconnect" =>
                                         socks'[i].session # m
                                /\ \A t \in timers : t.session # m
        BY <2>1 DEF OpenSockets, Unpaired, live
      <3> QED
        BY <2>1, <2>3, <2>4 DEF Good, OpenSockets, Unpaired
    <2>6. ActiveSocket'
      <3>1. active # None => socks'[active] = socks[active]
        BY <2>1 DEF TypeOK, None
      <3> QED
        BY <2>1, <3>1 DEF Good, ActiveSocket, live
    <2>7. OneAttempt'
      <3> SUFFICES ASSUME cur.screen = "paired" PROVE OneAttempt'
        BY DEF OneAttempt
      <3>1. Retrying' = Retrying
        BY DEF Retrying
      <3>2. Mates' = Mates
        <4>1. n \notin Mates
          BY <1>3
        <4>2. n \notin Mates'
          BY <2>4, <4>1 DEF Mates
        <4> QED
          BY <2>1, <4>1, <4>2 DEF Mates
      <3>3. \A m \in Mates : m # n /\ m \in 1..Len(socks)
        BY <1>3 DEF Mates
      <3>4. \A m \in 1..Len(socks) : live(m) /\ Mates = {m} =>
               socks'[m].state = "open"
        BY <3>3 DEF live
      <3>5. OneAttempt
        BY <2>1 DEF Good
      <3> QED
        BY <2>1, <3>1, <3>2, <3>4, <3>5 DEF OneAttempt, live
    <2>8. Running'
      BY <2>1 DEF Good, Running
    <2> QED
      BY <2>5, <2>6, <2>7, <2>8 DEF Good
  <1> QED
    BY <1>1, <1>2, <1>3

(* An attempt to resume: of the session that is shown, and the only one.   *)
LEMMA AttemptStep ==
    ASSUME IInv, mayStart, NEW S, AllFade(socks, S),
           NEW attempt \in 0..RECONNECT_MAX_ATTEMPTS,
           socks' = connect(S, "reconnect", cur.session, attempt),
           UNCHANGED <<cur, stop, scans, deriving>>,
           active' \in {active, None},
           timers' \in SUBSET timers, stray' \in BOOLEAN,
           ~stray' =>
              /\ ~stray /\ active' = None
              /\ \A m \in 1..Len(socks) : S[m].state = "open" => m # active
              /\ \A m \in 1..Len(socks) : S[m].flow = "reconnect" =>
                    S[m].session # cur.session
              /\ \A t \in timers' : t.session # cur.session
    PROVE  IInv'
  <1> USE DEF IInv
  <1> DEFINE n == Len(socks) + 1
             e == [flow |-> "reconnect", session |-> cur.session,
                   attempt |-> attempt, state |-> "open",
                   heard |-> "nothing", wired |-> FALSE, exchange |-> "none"]
  <1>1. /\ Len(socks) \in Nat /\ Len(scans) \in Nat /\ MaxStarts \in Nat
        /\ Len(socks) + Len(scans) < MaxStarts
        /\ cur.session \in 0..MaxStarts /\ cur.session \in Nat
        /\ cur.session <= Len(socks)
    BY ScreensAssumption DEF TypeOK, mayStart, ScreensAssumption, Shape
  <1>2. e \in SocketRecords /\ e.flow = "reconnect" /\ e.state = "open"
        /\ e.session = cur.session /\ e.heard = "nothing"
        /\ e.exchange = "none"
    BY <1>1 DEF SocketRecords, Flows
  <1>3. socks' = Append(S, e) /\ S \in Seq(SocketRecords)
        /\ Len(S) = Len(socks)
    BY DEF connect, AllFade
  <1> HIDE DEF e
  <1>4. /\ socks' \in Seq(SocketRecords) /\ Len(socks') = n /\ socks'[n] = e
        /\ \A i \in 1..Len(socks) : socks'[i] = S[i]
        /\ \A i \in 1..n : i \in 1..Len(socks) \/ i = n
    <2>1. e \in SocketRecords
      BY <1>2
    <2>2. /\ Append(S, e) \in Seq(SocketRecords)
          /\ Len(Append(S, e)) = Len(S) + 1
          /\ Append(S, e)[Len(S) + 1] = e
          /\ \A i \in 1..Len(S) : Append(S, e)[i] = S[i]
          /\ \A i \in 1..(Len(S) + 1) : i \in 1..Len(S) \/ i = Len(S) + 1
      BY <1>3, <2>1, OneMore
    <2> QED
      BY <1>3, <2>2
  <1>5. \A m \in 1..Len(socks) : Fades(socks[m], S[m])
    BY DEF AllFade
  <1>6. TypeOK'
    <2>1. n \in Nat /\ Len(socks') + Len(scans') <= MaxStarts
          /\ active' \in 0..Len(socks')
      BY <1>1, <1>4 DEF TypeOK, None
    <2> QED
      BY <1>4, <2>1 DEF TypeOK
  <1>7. Shape'
    <2>1. ASSUME NEW m \in 1..n
          PROVE  /\ socks'[m].flow \in Flows \ {"reconnect"}
                       => socks'[m].session = m
                 /\ socks'[m].exchange # "none" =>
                       socks'[m].flow \in {"receive-code", "join-by-code", "none"}
                 /\ socks'[m].session <= n
                 /\ socks'[m].state = "open" =>
                       /\ socks'[m].flow # "none"
                       /\ socks'[m].exchange # "none" =>
                             socks'[m].heard = "paired"
      <3>1. CASE m = n
        BY <1>1, <1>2, <1>4, <3>1
      <3>2. CASE m \in 1..Len(socks)
        <4>1. /\ socks[m].session \in Nat /\ socks'[m] = S[m]
              /\ socks[m].session <= Len(socks)
          BY <1>4, <3>2, SocketTyped DEF Shape, live
        <4>2. S[m].session <= n
          BY <1>1, <1>5, <3>2, <4>1 DEF Fades, None
        <4>3. "none" \notin Flows
          BY DEF Flows
        <4> QED
          BY <1>5, <3>2, <4>1, <4>2, <4>3 DEF Shape, live, Fades
      <3> QED
        BY <1>4, <3>1, <3>2
    <2>2. \A t \in timers' : t.session <= n
      <3>1. \A t \in timers : t.session \in Int /\ t.session <= Len(socks)
        BY DEF TypeOK, Shape
      <3> QED
        BY <1>1, <3>1
    <2>3. cur'.session <= n
      BY <1>1
    <2> QED
      BY <1>4, <2>1, <2>2, <2>3 DEF Shape, live
  <1>8. ASSUME ~stray' PROVE Good'
    <2>1. Good /\ active' = None
      BY <1>8
    <2>2. ASSUME NEW m \in 1..n, socks'[m].state = "open"
          PROVE  socks'[m].flow = "reconnect" /\ socks'[m].heard = "nothing"
      <3>1. CASE m = n
        BY <1>2, <1>4, <3>1
      <3>2. CASE m \in 1..Len(socks)
        <4>1. S[m].state = "open" /\ socks'[m] = S[m]
          BY <1>4, <2>2, <3>2
        <4>2. live(m) /\ m # active /\ S[m].flow = socks[m].flow
              /\ S[m].heard = socks[m].heard
          BY <1>5, <1>8, <3>2, <4>1 DEF Fades, live
        <4> QED
          BY <2>1, <3>2, <4>1, <4>2 DEF Good, OpenSockets
      <3> QED
        BY <1>4, <3>1, <3>2
    <2>3. OpenSockets'
      BY <1>4, <2>2 DEF OpenSockets, Unpaired, live
    <2>4. ActiveSocket'
      BY <2>1 DEF ActiveSocket
    <2>5. OneAttempt'
      <3> SUFFICES ASSUME cur.screen = "paired" PROVE OneAttempt'
        BY DEF OneAttempt
      <3>1. Retrying' = {}
        BY <1>8 DEF Retrying
      <3>2. Mates' = {n}
        BY <1>2, <1>4, <1>8 DEF Mates
      <3>3. socks'[n].state = "open" /\ n \in 1..Len(socks')
        BY <1>1, <1>2, <1>4
      <3>4. cur.token \in {None, cur.session}
        BY <2>1 DEF Good, OneAttempt
      <3>5. \E m \in 1..Len(socks') : /\ socks'[m].state = "open"
                                      /\ Mates' = {m} /\ Retrying' = {}
        BY <3>1, <3>2, <3>3
      <3> QED
        BY <2>1, <3>4, <3>5 DEF OneAttempt, live
    <2>6. Running'
      BY <2>1 DEF Good, Running
    <2> QED
      BY <2>3, <2>4, <2>5, <2>6 DEF Good
  <1> QED
    BY <1>6, <1>7, <1>8

(* An attempt to resume has failed; another one is planned.                *)
LEMMA RetryStep ==
    ASSUME IInv, AllFade(socks, socks'), NEW n \in 1..Len(socks),
           \A m \in 1..Len(socks) : m # n => socks'[m] = socks[m],
           socks'[n].flow = "none", socks'[n].state = "closed",
           retries(n), socks[n].attempt < RECONNECT_MAX_ATTEMPTS,
           timers' = timers \cup {[attempt |-> socks[n].attempt + 1,
                                   session |-> socks[n].session]},
           UNCHANGED <<cur, active, stop, scans, deriving>>,
           stray' \in BOOLEAN, ~stray' => ~stray /\ mine(n)
    PROVE  IInv'
  <1> USE DEF IInv
  <1> DEFINE t0 == [attempt |-> socks[n].attempt + 1,
                    session |-> socks[n].session]
  <1>0. Len(socks') = Len(socks)
    BY DEF AllFade
  <1>1. /\ t0 \in [attempt : 1..RECONNECT_MAX_ATTEMPTS, session : 0..MaxStarts]
        /\ t0.session = socks[n].session
    BY SocketTyped, ScreensAssumption DEF ScreensAssumption
  <1>2. TypeOK'
    <2>1. timers' \subseteq [attempt : 1..RECONNECT_MAX_ATTEMPTS,
                             session : 0..MaxStarts]
      BY <1>1 DEF TypeOK
    <2> QED
      BY <2>1 DEF TypeOK, AllFade
  <1>3. Shape'
    <2>1. ASSUME NEW m \in 1..Len(socks)
          PROVE  /\ socks'[m].flow \in Flows \ {"reconnect"}
                       => socks'[m].session = m
                 /\ socks'[m].exchange # "none" =>
                       socks'[m].flow \in {"receive-code", "join-by-code", "none"}
                 /\ socks'[m].session <= Len(socks)
                 /\ socks'[m].state = "open" =>
                       /\ socks'[m].flow # "none"
                       /\ socks'[m].exchange # "none" =>
                             socks'[m].heard = "paired"
      <3>1. Fades(socks[m], socks'[m]) /\ "none" \notin Flows
            /\ socks[m].session \in Nat /\ Len(socks) \in Nat
        BY SocketTyped DEF AllFade, Flows, TypeOK
      <3> QED
        BY <3>1 DEF Shape, live, Fades, None
    <2>2. \A t \in timers' : t.session <= Len(socks)
      BY <1>1 DEF Shape, live
    <2> QED
      BY <1>0, <2>1, <2>2 DEF Shape, live
  <1> HIDE DEF t0
  <1>4. ASSUME ~stray' PROVE Good'
    <2>1. Good /\ cur.screen = "paired" /\ socks[n].session = cur.session
          /\ socks[n].flow = "reconnect" /\ active # n
      BY <1>4 DEF mine, retries
    <2>2. n \in Mates
      BY <2>1 DEF Mates
    <2>3. active = None /\ Mates = {n} /\ Retrying = {}
      BY <2>1, <2>2 DEF Good, OneAttempt
    <2>4. ASSUME NEW m \in 1..Len(socks), socks'[m].state = "open"
          PROVE  socks'[m].flow = "reconnect" /\ socks'[m].heard = "nothing"
      <3>1. m # n /\ socks'[m] = socks[m] /\ m # None
        BY <2>4 DEF None
      <3> QED
        BY <2>1, <2>3, <2>4, <3>1 DEF Good, OpenSockets, live
    <2>5. OpenSockets'
      BY <1>0, <2>4 DEF OpenSockets, Unpaired, live
    <2>6. ActiveSocket'
      BY <2>3 DEF ActiveSocket
    <2>7. OneAttempt'
      <3>1. Retrying' = {t0}
        BY <1>1, <2>1, <2>3 DEF Retrying, t0
      <3>2. Mates' = {}
        BY <1>0, <2>3 DEF Mates
      <3>3. cur.token \in {None, cur.session} /\ t0 \in timers'
        BY <2>1 DEF Good, OneAttempt, t0
      <3> QED
        BY <2>3, <3>1, <3>2, <3>3 DEF OneAttempt
    <2>8. Running'
      BY <2>1 DEF Good, Running
    <2> QED
      BY <2>5, <2>6, <2>7, <2>8 DEF Good
  <1> QED
    BY <1>2, <1>3, <1>4

(* The session is resumed on the socket that asked.                        *)
LEMMA ReconnectedStep ==
    ASSUME IInv, NEW n \in 1..Len(socks), HearReconnected(n)
    PROVE  IInv'
  <1> USE DEF IInv
  <1> DEFINE e == [socks[n] EXCEPT !.heard = "paired", !.wired = TRUE]
  <1>0. /\ socks[n] \in SocketRecords /\ live(n)
        /\ socks[n].flow = "reconnect" /\ socks[n].heard = "nothing"
        /\ active' = n /\ stray' = (stray \/ ~mine(n))
        /\ UNCHANGED <<cur, stop, timers, deriving>>
    BY SocketTyped DEF HearReconnected, hears, live
  <1>1. /\ e \in SocketRecords /\ e.heard = "paired" /\ e.wired
        /\ e.state = socks[n].state /\ e.flow = socks[n].flow
        /\ e.session = socks[n].session /\ e.exchange = socks[n].exchange
    BY <1>0 DEF SocketRecords
  <1>2. socks' = [socks EXCEPT ![n] = e]
    BY <1>0 DEF HearReconnected, SocketRecords, TypeOK
  <1> HIDE DEF e
  <1>3. /\ socks' \in Seq(SocketRecords) /\ Len(socks') = Len(socks)
        /\ socks'[n] = e
        /\ \A i \in 1..Len(socks) : i # n => socks'[i] = socks[i]
    BY <1>1, <1>2, OneChanged DEF TypeOK
  <1>4. /\ scans' \in Seq(ScanRecords) /\ Len(scans') \in Len(scans)..MaxStarts
        /\ Len(socks) + Len(scans') <= MaxStarts
        /\ cur.screen # "sender-scanning" => scans' = scans
    <2>1. /\ Len(scans) \in Nat /\ Len(socks) \in Nat /\ MaxStarts \in Nat
          /\ Len(socks) + Len(scans) <= MaxStarts /\ scans \in Seq(ScanRecords)
      BY ScreensAssumption DEF ScreensAssumption, TypeOK
    <2>2. CASE cur.screen = "sender-scanning"
      <3> DEFINE a == [state |-> "asking", cancelled |-> FALSE,
                       alone |-> \A s \in 1..Len(scans) : ~underWay(scans, s)]
      <3>1. a \in ScanRecords /\ scans' = Append(scans, a) /\ mayStart
        BY <2>2 DEF ScanRecords, rendered, scanning, HearReconnected
      <3> HIDE DEF a
      <3>2. scans' \in Seq(ScanRecords) /\ Len(scans') = Len(scans) + 1
        BY <2>1, <3>1, OneMore
      <3> QED
        BY <2>1, <2>2, <3>1, <3>2 DEF mayStart
    <2>3. CASE cur.screen # "sender-scanning"
      BY <2>1, <2>3 DEF rendered, HearReconnected
    <2> QED
      BY <2>2, <2>3
  <1>5. TypeOK'
    <2>1. stop' \in 0..Len(scans') /\ active' \in 0..Len(socks')
      <3>1. Len(scans) \in Nat /\ MaxStarts \in Nat
        BY ScreensAssumption DEF ScreensAssumption, TypeOK
      <3> QED
        BY <1>0, <1>3, <1>4, <3>1 DEF TypeOK
    <2>2. stray' \in BOOLEAN
      BY <1>0
    <2> QED
      BY <1>0, <1>3, <1>4, <2>1, <2>2 DEF TypeOK
  <1>6. Shape'
    BY <1>0, <1>1, <1>3 DEF Shape, live
  <1>7. ASSUME ~stray' PROVE Good'
    <2>1. Good /\ mine(n) /\ cur.screen = "paired"
          /\ socks[n].session = cur.session
      BY <1>0, <1>7 DEF mine
    <2>2. n \in Mates
      BY <1>0, <2>1 DEF Mates
    <2>3. active = None
      <3> SUFFICES ASSUME active # None PROVE FALSE
        OBVIOUS
      <3>1. active = n
        BY <2>1, <2>2 DEF Good, OneAttempt
      <3> QED
        BY <1>0, <2>1, <3>1 DEF Good, ActiveSocket
    <2>4. Mates = {n} /\ Retrying = {}
      BY <2>1, <2>2, <2>3 DEF Good, OneAttempt
    <2>5. socks[n].exchange = "none"
      BY <1>0 DEF Shape, live
    <2>6. OpenSockets'
      <3>1. \A m \in 1..Len(socks) : m # n /\ socks'[m].state = "open" =>
               socks'[m].flow = "reconnect" /\ socks'[m].heard = "nothing"
        BY <1>3, <2>1, <2>3 DEF Good, OpenSockets, live, None
      <3>2. socks'[n].flow = "reconnect"
        BY <1>0, <1>1, <1>3
      <3> QED
        BY <1>0, <1>3, <3>1, <3>2 DEF OpenSockets, Unpaired, live
    <2>7. ActiveSocket'
      BY <1>0, <1>1, <1>3, <2>1, <2>5 DEF ActiveSocket, live, Idle
    <2>8. OneAttempt'
      <3>1. Retrying' = {}
        BY <1>0, <2>4 DEF Retrying
      <3>2. Mates' = {n}
        BY <1>0, <1>1, <1>3, <2>4 DEF Mates
      <3>3. n # None /\ cur.token \in {None, cur.session}
        BY <2>1 DEF Good, OneAttempt, None
      <3> QED
        BY <1>0, <3>1, <3>2, <3>3 DEF OneAttempt
    <2>9. Running'
      BY <1>0, <1>4, <2>1 DEF Good, Running
    <2> QED
      BY <2>6, <2>7, <2>8, <2>9 DEF Good
  <1> QED
    BY <1>5, <1>6, <1>7
(* The token of a session that is being shown is that session's own.       *)
LEMMA TokenStep ==
    ASSUME IInv, NEW s \in deriving, TokenDerived(s)
    PROVE  IInv'
  <1> USE DEF IInv
  <1>1. /\ deriving' = deriving \ {s} /\ cur' = [cur EXCEPT !.token = s]
        /\ stray' = (stray \/ (cur.screen = "paired" /\ cur.session # s))
        /\ UNCHANGED <<active, stop, socks, scans, timers>>
    BY DEF TokenDerived
  <1>2. /\ cur' \in Curs /\ cur'.screen = cur.screen
        /\ cur'.session = cur.session /\ cur'.token = s
    BY <1>1, ScreensAssumption DEF TypeOK, Curs, ScreensAssumption
  <1>3. TypeOK'
    BY <1>1, <1>2 DEF TypeOK, Curs
  <1>4. Shape'
    BY <1>1, <1>2 DEF Shape, live
  <1>5. ASSUME ~stray' PROVE Good'
    <2>1. Good /\ (cur.screen = "paired" => cur.session = s)
      BY <1>1, <1>5
    <2>2. OpenSockets' /\ ActiveSocket' /\ Running'
      BY <1>1, <1>2, <2>1
         DEF Good, OpenSockets, ActiveSocket, Running, Unpaired, live
    <2>3. Mates' = Mates /\ Retrying' = Retrying
      BY <1>1, <1>2 DEF Mates, Retrying
    <2>4. OneAttempt'
      BY <1>1, <1>2, <2>1, <2>3 DEF Good, OneAttempt, live
    <2> QED
      BY <2>2, <2>4 DEF Good
  <1> QED
    BY <1>3, <1>4, <1>5

-----------------------------------------------------------------------------
(* What the user clicks *)

(* setState with the sockets and scans as they are.                        *)
LEMMA LeavesAsIs ==
    ASSUME IInv, NEW screen \in Idle, screen = "sender-scanning" => mayStart,
           setState(screen, socks, scans), UNCHANGED <<timers, deriving>>,
           stray' \in BOOLEAN, ~stray' => ~stray
    PROVE  IInv'
  <1>1. AllFade(socks, socks) /\ scans \in Seq(ScanRecords)
    BY SameFade DEF IInv, TypeOK
  <1>2. /\ cur' = at(screen, None) /\ active' = None /\ stop' = None
        /\ socks' = closed(socks)
        /\ scans' = rendered(screen, stopped(scans, stop))
    BY DEF setState
  <1>3. stop' \in 0..Len(scans)
    BY <1>1, <1>2 DEF None
  <1> QED
    BY <1>1, <1>2, <1>3, LeaveStep

(* From one screen to the next, with nothing under way.                    *)
LEMMA Advances ==
    ASSUME IInv, NEW screen \in Idle, screen = "sender-scanning" => mayStart,
           cur.screen \in Idle \ {"sender-scanning"}, advance(screen), quiet
    PROVE  IInv'
  <1> USE DEF IInv
  <1>1. /\ cur' = at(screen, None) /\ scans' = rendered(screen, scans)
        /\ UNCHANGED <<active, stop, socks>>
        /\ UNCHANGED <<timers, deriving, stray>>
    BY DEF advance, quiet
  <1>2. /\ cur' \in Curs /\ cur'.session = 0 /\ cur'.screen = screen
    BY <1>1, ScreensAssumption DEF at, None, Curs, Screens, Idle, ScreensAssumption
  <1>3. /\ Len(scans) \in Nat /\ Len(socks) \in Nat /\ MaxStarts \in Nat
        /\ Len(socks) + Len(scans) <= MaxStarts /\ scans \in Seq(ScanRecords)
        /\ stop \in 0..Len(scans) /\ stray \in BOOLEAN
    BY ScreensAssumption DEF ScreensAssumption, TypeOK
  <1>4. ~stray => \A s \in 1..Len(scans) : scans[s].state # "running"
    BY DEF Good, Running
  <1>5. /\ scans' \in Seq(ScanRecords) /\ Len(socks) + Len(scans') <= MaxStarts
        /\ stop \in 0..Len(scans')
        /\ ~stray => \A s \in 1..Len(scans') : scans'[s].state # "running"
    <2>1. CASE screen = "sender-scanning"
      <3> DEFINE a == [state |-> "asking", cancelled |-> FALSE,
                       alone |-> \A s \in 1..Len(scans) : ~underWay(scans, s)]
      <3>1. /\ a \in ScanRecords /\ a.state = "asking"
            /\ scans' = Append(scans, a) /\ mayStart
        BY <1>1, <2>1 DEF ScanRecords, rendered, scanning
      <3> HIDE DEF a
      <3>2. /\ scans' \in Seq(ScanRecords) /\ Len(scans') = Len(scans) + 1
            /\ scans'[Len(scans) + 1] = a
            /\ \A i \in 1..Len(scans) : scans'[i] = scans[i]
            /\ \A i \in 1..Len(scans') : i \in 1..Len(scans) \/ i = Len(scans) + 1
        BY <1>3, <3>1, OneMore
      <3>3. Len(socks) + Len(scans') <= MaxStarts /\ stop \in 0..Len(scans')
        BY <1>3, <3>1, <3>2 DEF mayStart
      <3> QED
        BY <1>4, <3>1, <3>2, <3>3
    <2>2. CASE screen # "sender-scanning"
      BY <1>1, <1>3, <1>4, <2>2 DEF rendered
    <2> QED
      BY <2>1, <2>2
  <1>6. ~stray => Running'
    BY <1>5 DEF Running
  <1> QED
    BY <1>1, <1>2, <1>3, <1>5, <1>6, CameraStep

(* A flow that is started by a button, with no camera running.             *)
LEMMA Starts ==
    ASSUME IInv, NEW flow \in Flows \ {"reconnect"}, NEW screen \in Buttonless,
           cur.screen \in Idle \ {"sender-scanning"}, start(flow, screen),
           scans' = scans, stop' \in {stop, None}, quiet
    PROVE  IInv'
  <1> USE DEF IInv
  <1>1. /\ scans' \in Seq(ScanRecords) /\ Len(scans') = Len(scans)
        /\ stop' \in 0..Len(scans) /\ stray \in BOOLEAN
    BY DEF TypeOK, None
  <1>2. ~stray => \A s \in 1..Len(scans) : scans'[s].state # "running"
    BY DEF Good, Running
  <1>3. UNCHANGED <<timers, deriving>> /\ stray' = stray
    BY DEF quiet
  <1> QED
    BY <1>1, <1>2, <1>3, StartStep

LEMMA UserStep ==
    ASSUME IInv, User
    PROVE  IInv'
  <1> USE DEF quiet
  <1>0. stray \in BOOLEAN /\ scans \in Seq(ScanRecords) /\ socks \in Seq(SocketRecords)
    BY DEF IInv, TypeOK
  <1>1. CASE RoleSelect
    <2>1. cur.screen = "role-select" /\ quiet
      BY <1>1 DEF RoleSelect
    <2>2. CASE startReceiverFlow
      BY <2>1, <2>2, Starts DEF startReceiverFlow, Idle, Flows, Buttonless
    <2>3. CASE mayStart /\ advance("sender-scanning")
      BY <2>1, <2>3, Advances DEF Idle
    <2>4. CASE advance("code-role-select")
      BY <2>1, <2>4, Advances DEF Idle
    <2> QED
      BY <1>1, <2>2, <2>3, <2>4 DEF RoleSelect
  <1>2. CASE CodeRoleSelect
    <2>1. cur.screen = "code-role-select" /\ quiet
      BY <1>2 DEF CodeRoleSelect
    <2>2. CASE startReceiverCodeFlow
      BY <2>1, <2>2, Starts DEF startReceiverCodeFlow, Idle, Flows, Buttonless
    <2>3. CASE advance("code-sender-entry")
      BY <2>1, <2>3, Advances DEF Idle
    <2>4. CASE setState("role-select", socks, scans)
      BY <1>0, <2>1, <2>4, LeavesAsIs DEF Idle
    <2> QED
      BY <1>2, <2>2, <2>3, <2>4 DEF CodeRoleSelect
  <1>3. CASE JoinDetected
    <2>1. cur.screen = "join-detected" /\ quiet
      BY <1>3 DEF JoinDetected
    <2>2. CASE startJoin(scans)
      BY <2>1, <2>2, Starts DEF startJoin, Idle, Flows, Buttonless
    <2>3. CASE setState("role-select", socks, scans)
      BY <1>0, <2>1, <2>3, LeavesAsIs DEF Idle
    <2> QED
      BY <1>3, <2>2, <2>3 DEF JoinDetected
  <1>4. CASE CodeReceiverWaiting
    <2>1. setState("code-role-select", socks, scans) /\ quiet
      BY <1>4 DEF CodeReceiverWaiting
    <2> QED
      BY <1>0, <2>1, LeavesAsIs DEF Idle
  <1>5. CASE CodeSenderEntry
    <2>1. cur.screen = "code-sender-entry" /\ quiet
      BY <1>5 DEF CodeSenderEntry
    <2>2. CASE startJoinByCode
      BY <2>1, <2>2, Starts DEF startJoinByCode, Idle, Flows, Buttonless
    <2>3. CASE setState("error", socks, scans)
      BY <1>0, <2>1, <2>3, LeavesAsIs DEF Idle
    <2>4. CASE setState("code-role-select", socks, scans)
      BY <1>0, <2>1, <2>4, LeavesAsIs DEF Idle
    <2> QED
      BY <1>5, <2>2, <2>3, <2>4 DEF CodeSenderEntry
  <1>6. CASE ReceiverWaiting \/ DisconnectSession \/ TryAgain
    <2>1. setState("role-select", socks, scans) /\ quiet
      BY <1>6 DEF ReceiverWaiting, DisconnectSession, TryAgain
    <2> QED
      BY <1>0, <2>1, LeavesAsIs DEF Idle
  <1>7. CASE SenderScanning
    <2> DEFINE C == [scans EXCEPT ![Len(scans)].cancelled = TRUE]
    <2>1. PICK next \in {"sender-paste", "role-select"} : setState(next, socks, C)
      BY <1>7 DEF SenderScanning
    <2>2. quiet
      BY <1>7 DEF SenderScanning
    <2>3. /\ C \in Seq(ScanRecords) /\ Len(C) = Len(scans)
          /\ \A s \in 1..Len(C) : C[s].state = "running" =>
                scans[s].state = "running"
      <3>1. CASE Len(scans) = 0
        <4>1. scans = <<>>
          BY <1>0, <3>1
        <4>2. C = scans
          BY <4>1, <3>1
        <4> QED
          BY <1>0, <4>2
      <3>2. CASE Len(scans) # 0
        <4> DEFINE e == [scans[Len(scans)] EXCEPT !.cancelled = TRUE]
        <4>1. Len(scans) \in 1..Len(scans) /\ scans[Len(scans)] \in ScanRecords
          BY <1>0, <3>2
        <4>2. e \in ScanRecords /\ e.state = scans[Len(scans)].state
          BY <4>1 DEF ScanRecords
        <4>3. C = [scans EXCEPT ![Len(scans)] = e]
          BY <4>1
        <4> HIDE DEF C, e
        <4>4. /\ C \in Seq(ScanRecords) /\ Len(C) = Len(scans)
              /\ C[Len(scans)] = e
              /\ \A i \in 1..Len(scans) : i # Len(scans) => C[i] = scans[i]
          BY <1>0, <4>1, <4>2, <4>3, OneChanged
        <4> QED
          BY <4>2, <4>4
      <3> QED
        BY <3>1, <3>2
    <2> HIDE DEF C
    <2>4. AllFade(socks, socks) /\ stop' \in 0..Len(scans)
      BY <1>0, <2>1, SameFade DEF setState, None
    <2> QED
      BY <1>0, <2>1, <2>2, <2>3, <2>4, LeaveStep DEF setState, Idle
  <1>8. CASE SenderPaste
    <2>1. cur.screen = "sender-paste" /\ quiet
      BY <1>8 DEF SenderPaste
    <2>2. CASE startJoin(scans)
      BY <2>1, <2>2, Starts DEF startJoin, Idle, Flows, Buttonless
    <2>3. CASE setState("error", socks, scans)
      BY <1>0, <2>1, <2>3, LeavesAsIs DEF Idle
    <2>4. CASE mayStart /\ setState("sender-scanning", socks, scans)
      BY <1>0, <2>1, <2>4, LeavesAsIs DEF Idle
    <2> QED
      BY <1>8, <2>2, <2>3, <2>4 DEF SenderPaste
  <1> QED
    BY <1>1, <1>2, <1>3, <1>4, <1>5, <1>6, <1>7, <1>8 DEF User

-----------------------------------------------------------------------------
(* The camera *)

(* A scan whose state changes, and one that is released.                   *)
LEMMA ScanChanged ==
    ASSUME TypeOK, NEW s \in Scans,
           NEW state \in {"starting", "running", "unstoppable"},
           scans' = [scans EXCEPT ![s].state = state]
    PROVE  /\ scans' \in Seq(ScanRecords) /\ Len(scans') = Len(scans)
           /\ scans'[s].state = state
           /\ \A i \in 1..Len(scans) : i # s => scans'[i] = scans[i]
  <1> DEFINE e == [scans[s] EXCEPT !.state = state]
  <1>1. scans \in Seq(ScanRecords) /\ s \in 1..Len(scans) /\ scans[s] \in ScanRecords
    BY DEF TypeOK, Scans
  <1>2. e \in ScanRecords /\ e.state = state
    BY <1>1 DEF ScanRecords
  <1>3. scans' = [scans EXCEPT ![s] = e]
    BY <1>1
  <1> HIDE DEF e
  <1> QED
    BY <1>1, <1>2, <1>3, OneChanged

LEMMA ScanReleased ==
    ASSUME TypeOK, NEW s \in Scans, NEW C, C = released(scans, s)
    PROVE  /\ C \in Seq(ScanRecords) /\ Len(C) = Len(scans)
           /\ C[s].state = "off"
           /\ \A i \in 1..Len(scans) : i # s => C[i] = scans[i]
  <1> DEFINE off == [scans[s] EXCEPT !.state = "off", !.cancelled = FALSE]
  <1>1. scans \in Seq(ScanRecords) /\ s \in 1..Len(scans)
        /\ scans[s] \in ScanRecords
    BY DEF TypeOK, Scans
  <1>2. off \in ScanRecords /\ off.state = "off"
    BY <1>1 DEF ScanRecords
  <1>3. C = [scans EXCEPT ![s] = off]
    BY DEF released
  <1> HIDE DEF off
  <1> QED
    BY <1>1, <1>2, <1>3, OneChanged

(* A step of a scan by itself.                                             *)
LEMMA ScanStep ==
    ASSUME IInv, NEW s \in Scans,
           scans' \in Seq(ScanRecords), Len(scans') = Len(scans),
           \A i \in 1..Len(scans) : i # s => scans'[i] = scans[i],
           UNCHANGED <<cur, active, socks, timers, deriving>>,
           stop' \in 0..Len(scans), stray' \in BOOLEAN,
           ~stray' =>
              /\ ~stray
              /\ \/ scans'[s].state # "running" /\ stop' = stop
                 \/ stop' = s /\ shown(s)
    PROVE  IInv'
  <1> USE DEF IInv
  <1>1. /\ cur' \in Curs /\ cur'.session <= Len(socks)
        /\ Len(socks) + Len(scans') <= MaxStarts /\ stop' \in 0..Len(scans')
    BY DEF TypeOK, Curs, Shape
  <1>2. ~stray' => Running'
    BY DEF Good, Running, shown, Scans
  <1> QED
    BY <1>1, <1>2, CameraStep

(* The scan that is shown is the only one that may be running.             *)
LEMMA OthersOff ==
    ASSUME IInv, NEW s \in Scans, ~stray, shown(s),
           NEW i \in 1..Len(scans), i # s
    PROVE  scans[i].state # "running"
  BY DEF IInv, Good, Running, shown, Scans

(* A picture starts a join, or an error is shown.                          *)
LEMMA DecodeStep ==
    ASSUME IInv, NEW s \in Scans,
           \/ start("join", "joining") /\ scans' = released(scans, s)
           \/ /\ cur' = at("error", None) /\ active' = None
              /\ socks' = closed(socks)
              /\ scans' = stopped(released(scans, s), stop),
           stop' \in {None, s}, UNCHANGED <<timers, deriving>>,
           stray' = (stray \/ ~shown(s))
    PROVE  IInv'
  <1> DEFINE C == released(scans, s)
  <1>1. /\ C \in Seq(ScanRecords) /\ Len(C) = Len(scans)
        /\ C[s].state = "off"
        /\ \A i \in 1..Len(scans) : i # s => C[i] = scans[i]
    BY ScanReleased DEF IInv
  <1>2. stop' \in 0..Len(scans) /\ stray' \in BOOLEAN
    <2>1. Len(scans) \in Nat /\ stray \in BOOLEAN /\ shown(s) \in BOOLEAN
      BY DEF IInv, TypeOK, shown
    <2> QED
      BY <2>1 DEF None, Scans
  <1>3. CASE start("join", "joining") /\ scans' = C
    <2>1. ~stray' => /\ ~stray /\ cur.screen \in Idle
                     /\ \A i \in 1..Len(scans) : scans'[i].state # "running"
      BY <1>1, <1>3, OthersOff DEF shown, Idle
    <2> QED
      BY <1>1, <1>2, <1>3, <2>1, StartStep DEF Flows, Buttonless
  <1>4. CASE /\ cur' = at("error", None) /\ active' = None
             /\ socks' = closed(socks) /\ scans' = stopped(C, stop)
    <2>1. scans' = rendered("error", stopped(C, stop))
      BY <1>4 DEF rendered
    <2>2. AllFade(socks, socks)
      BY SameFade DEF IInv, TypeOK
    <2>3. \A i \in 1..Len(C) : C[i].state = "running" => scans[i].state = "running"
      BY <1>1
    <2> HIDE DEF C
    <2> QED
      BY <1>1, <1>2, <1>4, <2>1, <2>2, <2>3, LeaveStep DEF Idle
  <1> QED
    BY <1>3, <1>4

LEMMA CameraActions ==
    ASSUME IInv, Camera
    PROVE  IInv'
  <1>1. PICK s \in Scans :
           \/ CameraGranted(s) \/ CameraDenied(s) \/ PlayFails(s)
           \/ Plays(s) \/ Decode(s) \/ DecodeAtOnce(s)
    BY DEF Camera
  <1>2. /\ stray \in BOOLEAN /\ stop \in 0..Len(scans)
        /\ s \in 0..Len(scans) /\ shown(s) \in BOOLEAN
    BY DEF IInv, TypeOK, Scans, shown
  <1>3. CASE CameraGranted(s)
    <2>1. /\ scans' \in Seq(ScanRecords) /\ Len(scans') = Len(scans)
          /\ scans'[s].state = "starting"
          /\ \A i \in 1..Len(scans) : i # s => scans'[i] = scans[i]
      BY <1>3, ScanChanged DEF CameraGranted, IInv
    <2> QED
      BY <1>2, <1>3, <2>1, ScanStep DEF CameraGranted
  <1>4. CASE PlayFails(s)
    <2>1. /\ scans' \in Seq(ScanRecords) /\ Len(scans') = Len(scans)
          /\ scans'[s].state = "unstoppable"
          /\ \A i \in 1..Len(scans) : i # s => scans'[i] = scans[i]
      BY <1>4, ScanChanged DEF PlayFails, IInv
    <2> QED
      BY <1>2, <1>4, <2>1, ScanStep DEF PlayFails
  <1>5. CASE Plays(s)
    <2>1. UNCHANGED <<cur, active, socks, timers, deriving>>
      BY <1>5 DEF Plays
    <2>2. CASE scans' = released(scans, s) /\ UNCHANGED <<stop, stray>>
      <3>1. /\ scans' \in Seq(ScanRecords) /\ Len(scans') = Len(scans)
            /\ scans'[s].state = "off"
            /\ \A i \in 1..Len(scans) : i # s => scans'[i] = scans[i]
        BY <2>2, ScanReleased DEF IInv
      <3> QED
        BY <1>2, <2>1, <2>2, <3>1, ScanStep
    <2>3. CASE /\ scans' = [scans EXCEPT ![s].state = "running"]
               /\ stop' = s /\ stray' = (stray \/ ~shown(s))
      <3>1. /\ scans' \in Seq(ScanRecords) /\ Len(scans') = Len(scans)
            /\ \A i \in 1..Len(scans) : i # s => scans'[i] = scans[i]
        BY <2>3, ScanChanged DEF IInv
      <3>2. stray' \in BOOLEAN /\ (~stray' => ~stray /\ shown(s))
        BY <1>2, <2>3
      <3> QED
        BY <1>2, <2>1, <2>3, <3>1, <3>2, ScanStep
    <2> QED
      BY <1>5, <2>2, <2>3 DEF Plays
  <1>6. CASE CameraDenied(s)
    BY <1>6, DecodeStep DEF CameraDenied
  <1>7. CASE Decode(s)
    <2>1. /\ \/ start("join", "joining") /\ scans' = released(scans, s)
             \/ /\ cur' = at("error", None) /\ active' = None
                /\ socks' = closed(socks)
                /\ scans' = stopped(released(scans, s), stop)
          /\ stop' = None
      BY <1>7 DEF Decode, startJoin, setState, rendered
    <2> QED
      BY <1>7, <2>1, DecodeStep DEF Decode
  <1>8. CASE DecodeAtOnce(s)
    BY <1>8, DecodeStep DEF DecodeAtOnce
  <1> QED
    BY <1>1, <1>3, <1>4, <1>5, <1>6, <1>7, <1>8

-----------------------------------------------------------------------------
(* What is heard, and what the page does by itself *)

(* A flow's socket that is still open is the active one.                   *)
LEMMA FlowSocket ==
    ASSUME IInv, NEW n \in Sockets, live(n), socks[n].flow # "reconnect"
    PROVE  /\ socks[n].session = n
           /\ ~stray =>
                 /\ active = n /\ cur.screen \notin Idle
                 /\ socks[n].flow = "receive" /\ socks[n].heard = "created"
                       => cur.session = n
                 /\ cur.screen = "paired" => ~Unpaired(n)
  <1>1. n \in 1..Len(socks) /\ socks[n] \in SocketRecords
    BY SocketTyped DEF IInv, Sockets
  <1>2. socks[n].flow \in Flows
    BY <1>1 DEF IInv, Shape, live, SocketRecords
  <1>3. socks[n].session = n
    BY <1>1, <1>2 DEF IInv, Shape
  <1>4. ~stray => active = n /\ active # None
    BY <1>1 DEF IInv, Good, OpenSockets, None
  <1> QED
    BY <1>3, <1>4 DEF IInv, Good, ActiveSocket, Unpaired

(* A state is reached on a screen that names a socket, or none.            *)
LEMMA AtScreen ==
    ASSUME TypeOK, NEW screen \in Screens, NEW s \in 0..Len(socks)
    PROVE  /\ at(screen, s) \in Curs /\ at(screen, s).screen = screen
           /\ at(screen, s).session = s /\ at(screen, s).token = None
           /\ s \in 0..MaxStarts /\ at(screen, s).session <= Len(socks)
  <1>1. Len(socks) \in Nat /\ Len(scans) \in Nat /\ MaxStarts \in Nat
        /\ Len(socks) + Len(scans) <= MaxStarts
    BY ScreensAssumption DEF ScreensAssumption, TypeOK
  <1>2. s \in 0..MaxStarts /\ s <= Len(socks)
    BY <1>1
  <1> QED
    BY <1>1, <1>2 DEF at, Curs, None

LEMMA HearCreatedStep ==
    ASSUME IInv, NEW n \in Sockets, HearCreated(n)
    PROVE  IInv'
  <1> DEFINE e == [socks[n] EXCEPT !.heard = "created"]
             screen == IF socks[n].flow = "receive" THEN "receiver-waiting"
                       ELSE "code-receiver-waiting"
  <1>1. /\ n \in 1..Len(socks) /\ socks[n] \in SocketRecords /\ live(n)
        /\ socks[n].flow \in {"receive", "receive-code"}
        /\ socks[n].heard = "nothing"
        /\ UNCHANGED <<active, stop, scans, timers, deriving, stray>>
    BY SocketTyped DEF HearCreated, hears, live, IInv, Sockets
  <1>2. cur' = at(screen, n) /\ socks' = [socks EXCEPT ![n] = e]
    BY <1>1 DEF HearCreated
  <1>3. /\ e \in SocketRecords /\ e.heard = "created"
        /\ e.state = socks[n].state /\ e.flow = socks[n].flow
        /\ e.session = socks[n].session /\ e.exchange = socks[n].exchange
    BY <1>1 DEF SocketRecords
  <1>4. screen \in {"receiver-waiting", "code-receiver-waiting"}
    OBVIOUS
  <1> HIDE DEF e, screen
  <1>5. /\ cur' \in Curs /\ cur'.screen = screen /\ cur'.session = n
        /\ cur'.session <= Len(socks)
    <2>1. n \in 0..Len(socks) /\ screen \in Screens /\ TypeOK
      BY <1>1, <1>4 DEF IInv, Screens
    <2> QED
      BY <1>2, <2>1, AtScreen
  <1>6. socks[n].exchange = "none"
    BY <1>1 DEF IInv, Shape
  <1>7. Unpaired(n)
    BY <1>1 DEF Unpaired
  <1>8. stray \in BOOLEAN /\ deriving \subseteq 1..MaxStarts
    BY DEF IInv, TypeOK
  <1>9. cur'.screen \notin Idle /\ cur'.screen # "paired"
    BY <1>4, <1>5 DEF Idle
  <1> QED
    BY <1>1, <1>2, <1>3, <1>5, <1>6, <1>7, <1>8, <1>9, FlowStep

(* finalizePaired on the socket of a flow, whose exchange is over.         *)
LEMMA PairedStep ==
    ASSUME IInv, NEW n \in Sockets, NEW e \in SocketRecords,
           NEW s \in 0..Len(socks), socks[n].flow # "reconnect",
           socks' = [socks EXCEPT ![n] = e], cur' = at("paired", s),
           e.state = socks[n].state, e.flow = socks[n].flow,
           e.session = socks[n].session, e.heard \in {"paired", socks[n].heard},
           e.wired, e.exchange = "none",
           deriving' = deriving \cup ({s} \ {None}),
           UNCHANGED <<active, stop, scans, timers>>, stray' \in BOOLEAN,
           ~stray' => ~stray /\ Unpaired(n) /\ s = n /\ e.heard = "paired"
    PROVE  IInv'
  <1>1. n \in 1..Len(socks)
    BY DEF Sockets
  <1>2. /\ cur' \in Curs /\ cur'.screen = "paired" /\ cur'.session = s
        /\ cur'.token = None /\ s \in 0..MaxStarts /\ cur'.session <= Len(socks)
    BY AtScreen DEF IInv, Screens
  <1>3. deriving' \subseteq 1..MaxStarts
    BY <1>2, ScreensAssumption DEF IInv, TypeOK, None, ScreensAssumption
  <1>4. ~stray' => socks[n].session = n
    BY FlowSocket DEF Unpaired
  <1>5. cur'.screen \notin Idle
    BY <1>2 DEF Idle
  <1> QED
    BY <1>1, <1>2, <1>3, <1>4, <1>5, FlowStep

LEMMA HearPairedStep ==
    ASSUME IInv, NEW n \in Sockets, HearPaired(n)
    PROVE  IInv'
  <1> DEFINE e == [socks[n] EXCEPT !.heard = "paired", !.wired = TRUE]
             S == [socks EXCEPT ![n].heard = "paired"]
  <1>1. /\ n \in 1..Len(socks) /\ socks[n] \in SocketRecords /\ live(n)
        /\ socks[n].flow \in {"receive", "join"}
        /\ socks[n].heard # "paired" /\ stray' = stray
        /\ socks[n].flow = "receive" => socks[n].heard = "created"
    BY SocketTyped DEF HearPaired, hears, live, IInv, Sockets
  <1>2. PICK s \in {cur.session, n} :
           /\ finalizePaired(S, n, s)
           /\ socks[n].flow = "receive" => s = cur.session
           /\ socks[n].flow = "join" => s = n
    BY DEF HearPaired, hears
  <1>3. /\ e \in SocketRecords /\ e.heard = "paired" /\ e.wired
        /\ e.state = socks[n].state /\ e.flow = socks[n].flow
        /\ e.session = socks[n].session /\ e.exchange = socks[n].exchange
    BY <1>1 DEF SocketRecords
  <1>4. /\ cur' = at("paired", s) /\ socks' = [S EXCEPT ![n].wired = TRUE]
        /\ deriving' = deriving \cup ({s} \ {None})
        /\ UNCHANGED <<active, stop, scans, timers>>
    BY <1>2 DEF finalizePaired
  <1>5. [S EXCEPT ![n].wired = TRUE] = [socks EXCEPT ![n] = e]
    BY <1>1 DEF IInv, TypeOK, SocketRecords
  <1> HIDE DEF e, S
  <1>6. Unpaired(n)
    BY <1>1 DEF Unpaired
  <1>7. s \in 0..Len(socks)
    BY <1>1 DEF IInv, TypeOK, Shape
  <1>8. ~stray => s = n
    BY <1>1, <1>2, FlowSocket
  <1>9. e.exchange = "none" /\ stray \in BOOLEAN
    BY <1>1, <1>3 DEF IInv, Shape, TypeOK
  <1> QED
    BY <1>1, <1>3, <1>4, <1>5, <1>6, <1>7, <1>8, <1>9, PairedStep

LEMMA HearPairedByCodeStep ==
    ASSUME IInv, NEW n \in Sockets, HearPairedByCode(n)
    PROVE  IInv'
  <1> DEFINE x == IF socks[n].flow = "join-by-code" \/ cur.session = n
                  THEN "running" ELSE "doomed"
             e == [socks[n] EXCEPT !.heard = "paired", !.exchange = x]
  <1>1. /\ n \in 1..Len(socks) /\ socks[n] \in SocketRecords /\ live(n)
        /\ socks[n].flow \in {"receive-code", "join-by-code"}
        /\ socks[n].heard # "paired"
        /\ cur' = at("verifying", None)
        /\ UNCHANGED <<active, stop, scans, timers, deriving, stray>>
    BY SocketTyped DEF HearPairedByCode, hears, live, IInv, Sockets
  <1>2. x \in {"running", "doomed"}
    OBVIOUS
  <1>3. socks' = [socks EXCEPT ![n].heard = "paired", ![n].exchange = x]
    BY DEF HearPairedByCode
  <1> HIDE DEF x
  <1>4. socks' = [socks EXCEPT ![n] = e]
    BY <1>1, <1>3 DEF IInv, TypeOK, SocketRecords
  <1>5. /\ e \in SocketRecords /\ e.heard = "paired"
        /\ e.state = socks[n].state /\ e.flow = socks[n].flow
        /\ e.session = socks[n].session
    BY <1>1, <1>2 DEF SocketRecords
  <1> HIDE DEF e
  <1>6. /\ cur' \in Curs /\ cur'.screen = "verifying"
        /\ cur'.session <= Len(socks)
    <2>1. None \in 0..Len(socks) /\ "verifying" \in Screens
      BY DEF IInv, TypeOK, None, Screens, Buttonless
    <2> QED
      BY <1>1, <2>1, AtScreen DEF IInv
  <1>7. Unpaired(n)
    BY <1>1 DEF Unpaired
  <1>8. stray \in BOOLEAN /\ deriving \subseteq 1..MaxStarts
    BY DEF IInv, TypeOK
  <1>9. cur'.screen \notin Idle /\ cur'.screen # "paired"
    BY <1>6 DEF Idle
  <1> QED
    BY <1>1, <1>4, <1>5, <1>6, <1>7, <1>8, <1>9, FlowStep

LEMMA HearLeaveStep ==
    ASSUME IInv, NEW n \in Sockets, HearError(n) \/ HearSessionEnded(n)
    PROVE  IInv'
  <1>1. /\ setState("error", socks, scans) /\ UNCHANGED <<timers, deriving>>
        /\ stray' \in {stray, stray \/ (socks[n].flow = "reconnect" /\ ~mine(n))}
    BY DEF HearError, HearSessionEnded
  <1>2. stray' \in BOOLEAN /\ (~stray' => ~stray)
    BY <1>1 DEF IInv, TypeOK
  <1> QED
    BY <1>1, <1>2, LeavesAsIs DEF Idle

LEMMA ExchangeHeardStep ==
    ASSUME IInv, NEW n \in Sockets, ExchangeHeard(n)
    PROVE  IInv'
  <1> DEFINE e == [socks[n] EXCEPT !.exchange = "heard"]
  <1>1. /\ n \in 1..Len(socks) /\ socks[n] \in SocketRecords /\ live(n)
        /\ socks[n].exchange = "running"
        /\ UNCHANGED <<cur, active, stop, scans, timers, deriving, stray>>
    BY SocketTyped DEF ExchangeHeard, live, IInv, Sockets
  <1>2. socks' = [socks EXCEPT ![n] = e]
    BY <1>1 DEF ExchangeHeard
  <1>3. /\ e \in SocketRecords /\ e.heard = socks[n].heard
        /\ e.state = socks[n].state /\ e.flow = socks[n].flow
        /\ e.session = socks[n].session
    BY <1>1 DEF SocketRecords
  <1> HIDE DEF e
  <1>4. /\ socks[n].flow \in {"receive-code", "join-by-code", "none"}
        /\ socks[n].flow # "none" /\ socks[n].heard = "paired"
    BY <1>1 DEF IInv, Shape
  <1>5. Unpaired(n)
    BY <1>1, <1>4 DEF Unpaired
  <1>6. ~stray => cur.screen \notin Idle /\ cur.screen # "paired"
    BY <1>1, <1>4, <1>5, FlowSocket
  <1>7. /\ stray \in BOOLEAN /\ deriving \subseteq 1..MaxStarts
        /\ cur \in Curs /\ cur.session <= Len(socks)
    BY DEF IInv, TypeOK, Shape, Curs
  <1> QED
    BY <1>1, <1>2, <1>3, <1>4, <1>5, <1>6, <1>7, FlowStep

LEMMA ExchangeDoneStep ==
    ASSUME IInv, NEW n \in Sockets, ExchangeDone(n)
    PROVE  IInv'
  <1> DEFINE e == [socks[n] EXCEPT !.exchange = "none", !.wired = TRUE]
             S == [socks EXCEPT ![n].exchange = "none"]
  <1>1. /\ n \in 1..Len(socks) /\ socks[n] \in SocketRecords
        /\ socks[n].exchange = "heard" /\ n # None
        /\ stray' = (stray \/ active # n)
        /\ finalizePaired(S, n, n)
    BY SocketTyped DEF ExchangeDone, IInv, Sockets, None
  <1>2. /\ cur' = at("paired", n) /\ socks' = [S EXCEPT ![n].wired = TRUE]
        /\ deriving' = deriving \cup ({n} \ {None})
        /\ UNCHANGED <<active, stop, scans, timers>>
    BY <1>1 DEF finalizePaired
  <1>3. [S EXCEPT ![n].wired = TRUE] = [socks EXCEPT ![n] = e]
    BY <1>1 DEF IInv, TypeOK, SocketRecords
  <1>4. /\ e \in SocketRecords /\ e.heard = socks[n].heard /\ e.wired
        /\ e.state = socks[n].state /\ e.flow = socks[n].flow
        /\ e.session = socks[n].session /\ e.exchange = "none"
    BY <1>1 DEF SocketRecords
  <1> HIDE DEF e, S
  <1>5. socks[n].flow \in {"receive-code", "join-by-code", "none"}
    BY <1>1 DEF IInv, Shape
  <1>6. stray' \in BOOLEAN
    BY <1>1 DEF IInv, TypeOK
  <1>7. ~stray' => ~stray /\ Unpaired(n) /\ socks[n].heard = "paired"
    <2> SUFFICES ASSUME ~stray' PROVE Unpaired(n) /\ socks[n].heard = "paired"
      BY <1>1
    <2>1. active = n /\ ~stray
      BY <1>1
    <2>2. live(n)
      BY <1>1, <2>1 DEF IInv, Good, ActiveSocket
    <2> QED
      BY <1>1, <1>5, <2>2 DEF Unpaired, IInv, Shape
  <1>8. n \in 0..Len(socks) /\ socks[n].flow # "reconnect"
    BY <1>1, <1>5
  <1> QED
    BY <1>1, <1>2, <1>3, <1>4, <1>6, <1>7, <1>8, PairedStep

LEMMA ExchangeFailsStep ==
    ASSUME IInv, NEW n \in Sockets, ExchangeFails(n)
    PROVE  IInv'
  <1> DEFINE e == [socks[n] EXCEPT !.exchange = "none"]
             S == [socks EXCEPT ![n].exchange = "none"]
  <1>1. /\ n \in 1..Len(socks) /\ socks[n] \in SocketRecords
        /\ socks \in Seq(SocketRecords) /\ scans \in Seq(ScanRecords)
        /\ stray' = (stray \/ active # n) /\ stray \in BOOLEAN
        /\ setState("error", S, scans) /\ UNCHANGED <<timers, deriving>>
    BY SocketTyped DEF ExchangeFails, IInv, TypeOK, Sockets
  <1>2. e \in SocketRecords /\ Fades(socks[n], e)
    BY <1>1 DEF SocketRecords, Fades
  <1>3. S = [socks EXCEPT ![n] = e]
    BY <1>1
  <1> HIDE DEF e, S
  <1>4. AllFade(socks, S)
    BY <1>1, <1>2, <1>3, OneFades
  <1>5. /\ stop' \in 0..Len(scans) /\ stray' \in BOOLEAN /\ (~stray' => ~stray)
        /\ timers' \in SUBSET timers
    BY <1>1 DEF setState, None
  <1> QED
    BY <1>1, <1>4, <1>5, LeaveStep DEF setState, Idle

(* A timer of a page that is not paired any more does nothing.             *)
LEMMA TimerStep ==
    ASSUME IInv, cur.screen # "paired", timers' \subseteq timers,
           UNCHANGED <<cur, active, stop, socks, scans, deriving, stray>>
    PROVE  IInv'
  <1> USE DEF IInv
  <1>1. TypeOK'
    BY DEF TypeOK
  <1>2. Shape'
    BY DEF Shape, live
  <1>3. ASSUME ~stray' PROVE Good'
    <2>1. Good
      BY <1>3
    <2> QED
      BY <2>1 DEF Good, OpenSockets, ActiveSocket, OneAttempt, Running,
                  Unpaired, live
  <1> QED
    BY <1>1, <1>2, <1>3

LEMMA RetryTimerStep ==
    ASSUME IInv, RetryTimer
    PROVE  IInv'
  <1>1. PICK t \in timers :
           /\ timers' = timers \ {t}
           /\ \/ /\ cur.screen # "paired"
                 /\ UNCHANGED <<cur, active, stop, socks, scans, stray>>
              \/ /\ cur.screen = "paired"
                 /\ attemptReconnect(socks, active, t.attempt)
                 /\ stray' = (stray \/ cur.session # t.session)
    BY DEF RetryTimer
  <1>2. /\ deriving' = deriving /\ AllFade(socks, socks)
        /\ timers' \in SUBSET timers /\ stray \in BOOLEAN
        /\ scans \in Seq(ScanRecords)
    BY <1>1, SameFade DEF RetryTimer, IInv, TypeOK
  <1>3. CASE cur.screen # "paired"
    BY <1>1, <1>2, <1>3, TimerStep
  <1>4. CASE cur.screen = "paired"
    <2>1. attemptReconnect(socks, active, t.attempt)
          /\ stray' = (stray \/ cur.session # t.session)
      BY <1>1, <1>4
    <2>2. stray' \in BOOLEAN /\ (~stray' => ~stray /\ cur.session = t.session)
      BY <1>2, <2>1
    <2>3. CASE setState("error", socks, scans)
      <3>1. stop' \in 0..Len(scans)
        BY <1>2, <2>3 DEF setState, None
      <3> QED
        BY <1>2, <2>2, <2>3, <3>1, LeaveStep DEF setState, Idle
    <2>4. CASE /\ mayStart
               /\ socks' = connect(socks, "reconnect", cur.session, t.attempt)
               /\ active' = active /\ UNCHANGED <<cur, stop, scans>>
      <3>1. t.attempt \in 0..RECONNECT_MAX_ATTEMPTS
        BY ScreensAssumption DEF IInv, TypeOK, ScreensAssumption
      <3>2. ASSUME ~stray'
            PROVE  /\ ~stray /\ active' = None
                   /\ \A m \in 1..Len(socks) : socks[m].state = "open" => m # active
                   /\ \A m \in 1..Len(socks) : socks[m].flow = "reconnect" =>
                         socks[m].session # cur.session
                   /\ \A u \in timers' : u.session # cur.session
        <4>1. OneAttempt /\ t \in Retrying /\ ~stray
          BY <2>2, <3>2 DEF Retrying, IInv, Good
        <4>2. active = None /\ Retrying = {t} /\ Mates = {}
          BY <1>4, <4>1 DEF OneAttempt
        <4>3. \A m \in 1..Len(socks) : m # active
          BY <4>2 DEF None
        <4>4. \A u \in timers' : u.session # cur.session
          BY <1>1, <4>2 DEF Retrying
        <4> QED
          BY <2>4, <4>1, <4>2, <4>3, <4>4 DEF Mates
      <3> QED
        BY <1>2, <2>2, <2>4, <3>1, <3>2, AttemptStep
    <2> QED
      BY <2>1, <2>3, <2>4 DEF attemptReconnect
  <1> QED
    BY <1>3, <1>4

(* What a close event leaves of a socket.                                  *)
LEMMA ForgottenRecord ==
    ASSUME NEW r \in SocketRecords, MaxStarts \in Nat,
           RECONNECT_MAX_ATTEMPTS \in Nat
    PROVE  LET e == [r EXCEPT !.flow = "none", !.session = None, !.attempt = 0]
           IN  /\ e \in SocketRecords /\ e.state = r.state /\ e.flow = "none"
               /\ e.session = None /\ e.exchange = r.exchange
  <1> DEFINE q == [r EXCEPT !.flow = "none", !.session = None]
             e == [r EXCEPT !.flow = "none", !.session = None, !.attempt = 0]
  <1>0. None \in 0..MaxStarts /\ "none" \in Flows \cup {"none"}
    BY DEF None
  <1>1. /\ q \in SocketRecords /\ q.state = r.state /\ q.flow = "none"
        /\ q.session = None /\ q.exchange = r.exchange
    BY <1>0 DEF SocketRecords
  <1>2. e = [q EXCEPT !.attempt = 0]
    BY DEF SocketRecords
  <1>3. 0 \in 0..RECONNECT_MAX_ATTEMPTS
    OBVIOUS
  <1> HIDE DEF q, e
  <1>4. /\ e \in SocketRecords /\ e.state = q.state /\ e.flow = q.flow
        /\ e.session = q.session /\ e.exchange = q.exchange
    BY <1>1, <1>2, <1>3 DEF SocketRecords
  <1>5. /\ e \in SocketRecords /\ e.state = r.state /\ e.flow = "none"
        /\ e.session = None /\ e.exchange = r.exchange
    BY <1>1, <1>4
  <1> QED
    BY <1>5 DEF e

(* A close event: the flow is left, the session resumed or tried again, or *)
(* nobody waits for this socket.                                           *)
LEMMA ClosedStep ==
    ASSUME IInv, NEW n \in Sockets, Closed(n)
    PROVE  IInv'
  <1> DEFINE e == [ended(socks[n], "closed") EXCEPT !.flow = "none",
                                                   !.session = None,
                                                   !.attempt = 0]
             S == [socks EXCEPT ![n] = e]
  <1>1. /\ n \in 1..Len(socks) /\ socks[n] \in SocketRecords
        /\ socks \in Seq(SocketRecords) /\ scans \in Seq(ScanRecords)
        /\ stray \in BOOLEAN /\ MaxStarts \in Nat
        /\ RECONNECT_MAX_ATTEMPTS \in Nat \ {0}
    BY SocketTyped, ScreensAssumption
       DEF IInv, TypeOK, Sockets, ScreensAssumption
  <1>2. /\ e \in SocketRecords /\ e.state = "closed" /\ e.flow = "none"
        /\ e.session = None /\ e.exchange = socks[n].exchange
    <2>1. /\ ended(socks[n], "closed") \in SocketRecords
          /\ ended(socks[n], "closed").state = "closed"
          /\ ended(socks[n], "closed").exchange = socks[n].exchange
      BY <1>1, EndedRecord
    <2> QED
      BY <1>1, <2>1, ForgottenRecord
  <1>3. /\ \/ leaves(n) /\ setState("error", S, scans) /\ UNCHANGED timers
           \/ resumes(n) /\ attemptReconnect(S, None, 1) /\ UNCHANGED timers
           \/ retries(n) /\ retry(n, S)
           \/ /\ ~leaves(n) /\ ~resumes(n) /\ ~retries(n)
              /\ socks' = S
              /\ UNCHANGED <<cur, active, stop, scans, timers>>
        /\ stray' = (stray \/ (retries(n) /\ ~mine(n)))
        /\ deriving' = deriving
    <2>1. S = [socks EXCEPT ![n] =
                 [ended(@, "closed") EXCEPT !.flow = "none",
                                           !.session = None, !.attempt = 0]]
      OBVIOUS
    <2> HIDE DEF S, e
    <2> QED
      BY <2>1 DEF Closed
  <1> HIDE DEF e
  <1>4. Fades(socks[n], e)
    BY <1>2 DEF Fades
  <1>5. /\ Len(S) = Len(socks) /\ S[n] = e
        /\ \A m \in 1..Len(socks) : m # n => S[m] = socks[m]
    BY <1>1, <1>2, OneChanged
  <1>6. AllFade(socks, S)
    BY <1>1, <1>2, <1>4, OneFades
  <1> HIDE DEF S
  <1>7. /\ stray' \in BOOLEAN
        /\ ~stray' => ~stray /\ (retries(n) => mine(n))
    BY <1>1, <1>3
  <1>8. ASSUME setState("error", S, scans), timers' = timers
        PROVE  IInv'
    <2>1. stop' \in 0..Len(scans) /\ timers' \in SUBSET timers
      BY <1>1, <1>8 DEF setState, None
    <2> QED
      BY <1>1, <1>3, <1>6, <1>7, <1>8, <2>1, LeaveStep DEF setState, Idle
  <1>9. CASE resumes(n) /\ attemptReconnect(S, None, 1) /\ UNCHANGED timers
    <2>1. CASE /\ mayStart
               /\ socks' = connect(S, "reconnect", cur.session, 1)
               /\ active' = None /\ UNCHANGED <<cur, stop, scans>>
      <3>1. ASSUME ~stray'
            PROVE  /\ ~stray
                   /\ \A m \in 1..Len(socks) : S[m].state = "open" => m # active
                   /\ \A m \in 1..Len(socks) : S[m].flow = "reconnect" =>
                         S[m].session # cur.session
                   /\ \A t \in timers' : t.session # cur.session
        <4>1. /\ ~stray /\ OneAttempt /\ cur.screen = "paired" /\ active = n
              /\ active # None
          BY <1>1, <1>7, <1>9, <3>1 DEF resumes, IInv, Good, None
        <4>2. Retrying = {} /\ Mates \subseteq {n}
          BY <4>1 DEF OneAttempt
        <4>3. \A t \in timers' : t.session # cur.session
          BY <1>9, <4>2 DEF Retrying
        <4>4. \A m \in 1..Len(socks) : m # n =>
                 (socks[m].flow = "reconnect" => socks[m].session # cur.session)
          BY <4>2 DEF Mates
        <4> QED
          BY <1>2, <1>5, <4>1, <4>3, <4>4
      <3>2. 1 \in 0..RECONNECT_MAX_ATTEMPTS
        BY <1>1
      <3> QED
        BY <1>3, <1>6, <1>7, <1>9, <2>1, <3>1, <3>2, AttemptStep
    <2> QED
      BY <1>8, <1>9, <2>1 DEF attemptReconnect
  <1>10. CASE retries(n) /\ retry(n, S)
    <2>1. CASE /\ socks[n].attempt < RECONNECT_MAX_ATTEMPTS
               /\ timers' = timers \cup {[attempt |-> socks[n].attempt + 1,
                                          session |-> socks[n].session]}
               /\ socks' = S /\ UNCHANGED <<cur, active, stop, scans>>
      BY <1>1, <1>2, <1>3, <1>5, <1>6, <1>7, <1>10, <2>1, RetryStep
    <2> QED
      BY <1>8, <1>10, <2>1 DEF retry
  <1>11. CASE /\ ~leaves(n) /\ ~resumes(n) /\ ~retries(n) /\ socks' = S
              /\ UNCHANGED <<cur, active, stop, scans, timers>>
    <2>1. stray' = stray
      BY <1>1, <1>3, <1>11
    <2>2. ASSUME ~stray PROVE n # active
      <3> SUFFICES ASSUME n = active PROVE FALSE
        OBVIOUS
      <3>1. active # None /\ ActiveSocket
        BY <1>1, <2>2 DEF IInv, Good, None
      <3>2. cur.screen = "paired"
        BY <1>11, <3>1 DEF ActiveSocket, leaves, Idle
      <3> QED
        BY <1>11, <3>1, <3>2 DEF ActiveSocket, resumes
    <2>3. ASSUME ~stray, cur.screen = "paired" PROVE n \notin Mates
      BY <1>11, <2>2, <2>3 DEF Mates, retries
    <2> QED
      BY <1>1, <1>3, <1>5, <1>6, <1>11, <2>1, <2>2, <2>3, FadeStep
  <1> QED
    BY <1>3, <1>8, <1>9, <1>10, <1>11

-----------------------------------------------------------------------------
(* The invariant, and what follows *)

LEMMA InitIInv == Init => IInv
  <1> SUFFICES ASSUME Init PROVE IInv
    OBVIOUS
  <1>1. /\ socks = <<>> /\ scans = <<>> /\ active = 0 /\ stop = 0
        /\ timers = {} /\ deriving = {} /\ stray = FALSE
    BY DEF Init, None
  <1>2. /\ cur \in Curs /\ cur.screen # "paired" /\ cur.session = 0
    BY ScreensAssumption DEF Init, at, None, Curs, Screens, ScreensAssumption
  <1>3. TypeOK
    <2>1. /\ socks \in Seq(SocketRecords) /\ scans \in Seq(ScanRecords)
          /\ Len(socks) = 0 /\ Len(scans) = 0
      BY <1>1
    <2>2. /\ Len(socks) + Len(scans) <= MaxStarts
          /\ active \in 0..Len(socks) /\ stop \in 0..Len(scans)
      BY <1>1, <2>1, ScreensAssumption DEF ScreensAssumption
    <2> QED
      BY <1>1, <1>2, <2>1, <2>2 DEF TypeOK, Curs
  <1>4. Shape
    BY <1>1, <1>2 DEF Shape
  <1>5. Good
    BY <1>1, <1>2 DEF Good, OpenSockets, ActiveSocket, OneAttempt, Running, None
  <1> QED
    BY <1>3, <1>4, <1>5 DEF IInv

LEMMA UnchangedIInv ==
    ASSUME IInv, UNCHANGED vars
    PROVE  IInv'
  <1> USE DEF IInv, vars
  <1>1. TypeOK'
    BY DEF TypeOK
  <1>2. Shape'
    BY DEF Shape, live
  <1>3. Good' <=> Good
    BY DEF Good, OpenSockets, ActiveSocket, OneAttempt, Running, Unpaired,
           Mates, Retrying, live
  <1> QED
    BY <1>1, <1>2, <1>3

LEMMA NextIInv ==
    ASSUME IInv, [Next]_vars
    PROVE  IInv'
  <1>1. CASE Relay
    BY <1>1, HearCreatedStep, HearPairedStep, HearPairedByCodeStep,
       HearLeaveStep, ReconnectedStep, ClosedStep DEF Relay, Sockets
  <1>2. CASE Local
    BY <1>2, ExchangeHeardStep, ExchangeDoneStep, ExchangeFailsStep,
       TokenStep, RetryTimerStep DEF Local
  <1> QED
    BY <1>1, <1>2, UserStep, CameraActions, UnchangedIInv DEF Next

(* The inductive invariant holds in every reachable state of the page.     *)
THEOREM AlwaysIInv == Spec => []IInv
  BY InitIInv, NextIInv, PTL DEF Spec

(* The screen, activeSocket, activeStopScan and the retries that are       *)
(* planned always refer to a socket, a scan or an attempt there is, and    *)
(* attemptReconnect never counts past RECONNECT_MAX_ATTEMPTS.              *)
THEOREM TypesHold == Spec => []TypeOK
  <1>1. IInv => TypeOK
    BY DEF IInv
  <1> QED
    BY <1>1, AlwaysIInv, PTL

(* No flow's socket is leaked: until a callback of something abandoned has *)
(* fired, a live socket is activeSocket or asks to reconnect, so that      *)
(* cleanupActive closes it.                                                *)
THEOREM SocketsAlwaysHeld == Spec => []SocketsHeld
  <1>1. IInv => SocketsHeld
    BY DEF IInv, Good, OpenSockets, SocketsHeld, Sockets
  <1> QED
    BY <1>1, AlwaysIInv, PTL

(* A paired page is connected in the session it shows, or attemptReconnect *)
(* is under way for it; there is exactly one attempt then, on a socket or  *)
(* on a timer.                                                             *)
THEOREM PairedStaysConnected == Spec => []PairedIsConnected
  <1>1. ASSUME IInv PROVE PairedIsConnected
    <2> SUFFICES ASSUME ~stray, cur.screen = "paired" PROVE PairedIsConnected
      BY DEF PairedIsConnected
    <2>1. ActiveSocket /\ OneAttempt
      BY <1>1 DEF IInv, Good
    <2>2. CASE active # None
      BY <2>1, <2>2 DEF ActiveSocket, OneAttempt, PairedIsConnected, live
    <2>3. CASE active = None
      <3>1. \/ \E m \in Sockets :
                  live(m) /\ socks[m].flow = "reconnect" /\ mine(m)
            \/ \E t \in timers : t.session = cur.session
        BY <2>1, <2>3 DEF OneAttempt, Mates, Retrying, Sockets, mine
      <3> QED
        BY <2>1, <2>3, <3>1 DEF OneAttempt, PairedIsConnected
    <2> QED
      BY <2>2, <2>3
  <1> QED
    BY <1>1, AlwaysIInv, PTL


-----------------------------------------------------------------------------
(* Who stops the camera *)

(* The screens that a join may be started from with the camera forgotten.  *)
Forgetful == {"sender-paste", "join-detected"}

(* As long as no scans overlap, the last one alone is under way; it plays  *)
(* only while activeStopScan stops it, and has been cancelled before a     *)
(* join may forget it.                                                     *)
Held ==
    ~crowded =>
       /\ \A s \in Scans : underWay(scans, s) => s = Len(scans)
       /\ \A s \in Scans :
             scans[s].state = "running" => s = stop /\ ~scans[s].cancelled
       /\ cur.screen \in Forgetful =>
             \A s \in Scans : underWay(scans, s) => scans[s].cancelled

(* D is C with scans ended or cancelled, and none begun.                   *)
Winds(C, D) ==
    /\ D \in Seq(ScanRecords) /\ Len(D) = Len(C)
    /\ \A s \in 1..Len(C) :
          /\ D[s].alone = C[s].alone
          /\ underWay(D, s) => underWay(C, s)
          /\ underWay(D, s) /\ C[s].cancelled => D[s].cancelled
          /\ D[s].state = "running" => C[s].state = "running"

LEMMA Unwound ==
    ASSUME NEW C \in Seq(ScanRecords)
    PROVE  Winds(C, C)
  BY DEF Winds

LEMMA OneWinds ==
    ASSUME NEW C \in Seq(ScanRecords), NEW s \in 1..Len(C),
           NEW e \in ScanRecords, e.alone = C[s].alone,
           e.state \in {"off", C[s].state}, e.cancelled \/ e.state = "off"
    PROVE  Winds(C, [C EXCEPT ![s] = e])
  <1> DEFINE D == [C EXCEPT ![s] = e]
  <1>1. /\ D \in Seq(ScanRecords) /\ Len(D) = Len(C) /\ D[s] = e
        /\ \A i \in 1..Len(C) : i # s => D[i] = C[i]
    BY OneChanged
  <1> HIDE DEF D
  <1>2. Winds(C, D)
    BY <1>1 DEF Winds, underWay
  <1> QED
    BY <1>2 DEF D

LEMMA ReleasedWinds ==
    ASSUME NEW C \in Seq(ScanRecords), NEW s \in 1..Len(C)
    PROVE  Winds(C, released(C, s)) /\ released(C, s)[s].state = "off"
  <1> DEFINE e == [C[s] EXCEPT !.state = "off", !.cancelled = FALSE]
  <1>1. C[s] \in ScanRecords
    OBVIOUS
  <1>2. e \in ScanRecords /\ e.state = "off" /\ e.alone = C[s].alone
    BY <1>1 DEF ScanRecords
  <1>3. released(C, s) = [C EXCEPT ![s] = e]
    BY DEF released
  <1> HIDE DEF e
  <1>4. Winds(C, [C EXCEPT ![s] = e])
    BY <1>2, OneWinds
  <1>5. [C EXCEPT ![s] = e][s] = e
    OBVIOUS
  <1> QED
    BY <1>2, <1>3, <1>4, <1>5

LEMMA WindsOn ==
    ASSUME NEW C \in Seq(ScanRecords), NEW D, NEW E, Winds(C, D), Winds(D, E)
    PROVE  Winds(C, E)
  BY DEF Winds

(* No scan that was running is running once it has been stopped.           *)
LEMMA StoppedWinds ==
    ASSUME TypeOK, NEW C \in Seq(ScanRecords), Len(C) = Len(scans)
    PROVE  /\ Winds(C, stopped(C, stop))
           /\ stop \in 1..Len(C) => stopped(C, stop)[stop].state # "running"
  <1>1. stop \in 0..Len(C) /\ Len(C) \in Nat
    BY DEF TypeOK
  <1>2. CASE stop # None /\ C[stop].state = "running"
    <2>1. stop \in 1..Len(C) /\ stopped(C, stop) = released(C, stop)
      BY <1>1, <1>2 DEF None, stopped
    <2> QED
      BY <2>1, ReleasedWinds
  <1>3. CASE ~(stop # None /\ C[stop].state = "running")
    <2>1. stopped(C, stop) = C
      BY <1>3 DEF stopped
    <2> QED
      BY <1>1, <1>3, <2>1, Unwound DEF None
  <1> QED
    BY <1>2, <1>3

(* Scans only end: overlaps are not forgotten, and whatever runs is seen   *)
(* to by the caller.                                                       *)
LEMMA WindsHeld ==
    ASSUME TypeOK, Held, Winds(scans, scans'),
           ~crowded => \A s \in Scans : scans'[s].state = "running" =>
                          s = stop' /\ ~scans'[s].cancelled,
           cur'.screen \in Forgetful =>
              \/ cur.screen = cur'.screen
              \/ ~crowded => \A s \in Scans :
                                underWay(scans', s) => scans'[s].cancelled
    PROVE  Held'
  <1>1. Scans' = Scans /\ (crowded' <=> crowded)
    BY DEF Winds, Scans, crowded
  <1>2. \A s \in Scans : underWay(scans', s) => underWay(scans, s)
    BY DEF Winds, Scans
  <1>3. \A s \in Scans : underWay(scans', s) /\ scans[s].cancelled => scans'[s].cancelled
    BY DEF Winds, Scans
  <1>4. Len(scans') = Len(scans)
    BY DEF Winds
  <1>5. underWay(scans, 0)' = underWay(scans', 0)
    BY DEF underWay
  <1>6. ASSUME ~crowded'
        PROVE  /\ \A s \in Scans' : underWay(scans', s) => s = Len(scans')
               /\ \A s \in Scans' : scans'[s].state = "running" =>
                     s = stop' /\ ~scans'[s].cancelled
               /\ cur'.screen \in Forgetful =>
                     \A s \in Scans' : underWay(scans', s) => scans'[s].cancelled
    BY <1>1, <1>2, <1>3, <1>4, <1>6 DEF Held
  <1> QED
    BY <1>6 DEF Held

(* The screen is rendered: nothing runs, or a new scan is asked for, and   *)
(* it is alone only if nothing was under way.                              *)
LEMMA RenderedHeld ==
    ASSUME TypeOK, Held, NEW D, Winds(scans, D),
           NEW screen, scans' = rendered(screen, D), cur'.screen = screen,
           screen # "sender-scanning" =>
              /\ ~crowded => \A s \in Scans : D[s].state = "running" =>
                                s = stop' /\ ~D[s].cancelled
              /\ screen \in Forgetful =>
                    \/ cur.screen = screen
                    \/ ~crowded => \A s \in Scans :
                                      underWay(D, s) => D[s].cancelled
    PROVE  Held'
  <1>1. CASE screen # "sender-scanning"
    <2>1. scans' = D
      BY <1>1 DEF rendered
    <2> QED
      BY <1>1, <2>1, WindsHeld
  <1>2. CASE screen = "sender-scanning"
    <2> DEFINE a == [state |-> "asking", cancelled |-> FALSE,
                     alone |-> \A s \in 1..Len(D) : ~underWay(D, s)]
    <2>1. a \in ScanRecords /\ a.state = "asking" /\ scans' = Append(D, a)
          /\ (a.alone <=> \A s \in 1..Len(D) : ~underWay(D, s))
      BY <1>2 DEF ScanRecords, rendered, scanning
    <2> HIDE DEF a
    <2>2. D \in Seq(ScanRecords) /\ Len(D) \in Nat
      BY DEF Winds
    <2>3. /\ Len(scans') = Len(D) + 1 /\ scans'[Len(D) + 1] = a
          /\ \A i \in 1..Len(D) : scans'[i] = D[i]
          /\ \A i \in 1..Len(scans') : i \in 1..Len(D) \/ i = Len(D) + 1
      BY <2>1, <2>2, OneMore
    <2>4. Scans' = 1..Len(scans') /\ Len(scans') \in Scans'
      BY <2>2, <2>3 DEF Scans
    <2>5. ~crowded' => a.alone
      BY <2>3, <2>4 DEF crowded
    <2>6. ~crowded' => \A s \in 1..Len(D) : ~underWay(scans', s)
      BY <2>1, <2>3, <2>5 DEF underWay
    <2>7. ~crowded' => \A s \in Scans' : underWay(scans', s) => s = Len(scans')
      BY <2>3, <2>4, <2>6
    <2>8. ~crowded' => \A s \in Scans' : scans'[s].state # "running"
      BY <2>1, <2>3, <2>4, <2>6 DEF underWay
    <2>9. cur'.screen \notin Forgetful
      BY <1>2 DEF Forgetful
    <2> QED
      BY <2>7, <2>8, <2>9 DEF Held
  <1> QED
    BY <1>1, <1>2

(* cleanupActive, and the next screen; a stop function that is kept after  *)
(* it stops nothing that runs.                                             *)
LEMMA LeaveHeld ==
    ASSUME TypeOK, Held, NEW C, Winds(scans, C), NEW screen,
           scans' = rendered(screen, stopped(C, stop)), cur'.screen = screen,
           screen \in Forgetful /\ ~crowded =>
              \A s \in Scans : underWay(C, s) => C[s].cancelled
    PROVE  Held'
  <1> DEFINE D == stopped(C, stop)
  <1>1. C \in Seq(ScanRecords) /\ Len(C) = Len(scans) /\ scans \in Seq(ScanRecords)
    BY DEF Winds, TypeOK
  <1>2. Winds(C, D) /\ (stop \in 1..Len(C) => D[stop].state # "running")
    BY <1>1, StoppedWinds
  <1>3. Winds(scans, D)
    BY <1>1, <1>2, WindsOn
  <1> HIDE DEF D
  <1>4. ~crowded => \A s \in Scans : D[s].state # "running"
    BY <1>1, <1>2, <1>3 DEF Held, Winds, Scans
  <1>5. screen \in Forgetful /\ ~crowded =>
           \A s \in Scans : underWay(D, s) => D[s].cancelled
    BY <1>1, <1>2 DEF Winds, Scans
  <1>6. scans' = rendered(screen, D)
    BY DEF D
  <1> QED
    BY <1>3, <1>4, <1>5, <1>6, RenderedHeld

LEMMA SetStateHeld ==
    ASSUME TypeOK, Held, NEW screen, screen \notin Forgetful, NEW S,
           setState(screen, S, scans)
    PROVE  Held'
  <1>1. Winds(scans, scans)
    BY Unwound DEF TypeOK
  <1> QED
    BY <1>1, LeaveHeld DEF setState, at

(* The camera is not touched, and no screen that forgets it is entered.    *)
LEMMA StayHeld ==
    ASSUME TypeOK, Held, UNCHANGED <<stop, scans>>,
           cur'.screen = cur.screen \/ cur'.screen \notin Forgetful
    PROVE  Held'
  <1>1. Winds(scans, scans')
    BY Unwound DEF TypeOK
  <1>2. ~crowded => \A s \in Scans : scans'[s].state = "running" =>
                       s = stop' /\ ~scans'[s].cancelled
    BY DEF Held
  <1> QED
    BY <1>1, <1>2, WindsHeld

(* A join whose scans, if they never overlapped, are none of them running. *)
LEMMA JoinHeld ==
    ASSUME TypeOK, Held, start("join", "joining"), Winds(scans, scans'),
           ~crowded => \A s \in Scans : scans'[s].state # "running"
    PROVE  Held'
  <1>1. cur'.screen = "joining"
    BY DEF start, at
  <1>2. cur'.screen \notin Forgetful
    BY <1>1 DEF Forgetful
  <1> QED
    BY <1>2, WindsHeld

LEMMA AdvanceHeld ==
    ASSUME TypeOK, Held, NEW screen, screen \notin Forgetful, advance(screen)
    PROVE  Held'
  <1>1. Winds(scans, scans)
    BY Unwound DEF TypeOK
  <1>2. cur'.screen = screen /\ scans' = rendered(screen, scans) /\ stop' = stop
    BY DEF advance, at
  <1>3. ~crowded => \A s \in Scans : scans[s].state = "running" =>
                       s = stop' /\ ~scans[s].cancelled
    BY <1>2 DEF Held
  <1> QED
    BY <1>1, <1>2, <1>3, RenderedHeld

LEMMA StartHeld ==
    ASSUME TypeOK, Held, NEW flow, NEW screen, screen \notin Forgetful,
           start(flow, screen), UNCHANGED <<stop, scans>>
    PROVE  Held'
  <1>1. cur'.screen = screen
    BY DEF start, at
  <1> QED
    BY <1>1, StayHeld

LEMMA PasteHeld ==
    ASSUME TypeOK, Held, cur.screen \in Forgetful, startJoin(scans)
    PROVE  Held'
  <1>1. Winds(scans, scans)
    BY Unwound DEF TypeOK
  <1>2. start("join", "joining") /\ scans' = scans
    BY DEF startJoin
  <1>3. ~crowded => \A s \in Scans : scans[s].state # "running"
    BY DEF Held, underWay
  <1> QED
    BY <1>1, <1>2, <1>3, JoinHeld

LEMMA UserHeld ==
    ASSUME TypeOK, Held, User
    PROVE  Held'
  <1>1. CASE RoleSelect
    BY <1>1, StartHeld, AdvanceHeld DEF RoleSelect, startReceiverFlow, Forgetful
  <1>2. CASE CodeRoleSelect
    BY <1>2, StartHeld, AdvanceHeld, SetStateHeld
       DEF CodeRoleSelect, startReceiverCodeFlow, Forgetful
  <1>3. CASE JoinDetected
    BY <1>3, PasteHeld, SetStateHeld DEF JoinDetected, Forgetful
  <1>4. CASE CodeReceiverWaiting \/ ReceiverWaiting \/ DisconnectSession \/ TryAgain
    BY <1>4, SetStateHeld
       DEF CodeReceiverWaiting, ReceiverWaiting, DisconnectSession, TryAgain, Forgetful
  <1>5. CASE CodeSenderEntry
    BY <1>5, StartHeld, SetStateHeld DEF CodeSenderEntry, startJoinByCode, Forgetful
  <1>6. CASE SenderScanning
    <2> DEFINE C == [scans EXCEPT ![Len(scans)].cancelled = TRUE]
    <2>1. PICK next \in {"sender-paste", "role-select"} : setState(next, socks, C)
      BY <1>6 DEF SenderScanning
    <2>2. scans \in Seq(ScanRecords) /\ Len(scans) \in Nat
      BY DEF TypeOK
    <2>3. CASE Len(scans) = 0
      <3>1. scans = <<>>
        BY <2>2, <2>3
      <3>2. C = scans
        BY <2>3, <3>1
      <3>3. Winds(scans, scans)
        BY <2>2, Unwound
      <3>4. Scans = {}
        BY <2>3 DEF Scans
      <3> HIDE DEF C
      <3> QED
        BY <2>1, <3>2, <3>3, <3>4, LeaveHeld DEF setState, at
    <2>4. CASE Len(scans) # 0
      <3> DEFINE e == [scans[Len(scans)] EXCEPT !.cancelled = TRUE]
      <3>1. Len(scans) \in 1..Len(scans) /\ scans[Len(scans)] \in ScanRecords
        BY <2>2, <2>4
      <3>2. /\ e \in ScanRecords /\ e.state = scans[Len(scans)].state
            /\ e.alone = scans[Len(scans)].alone /\ e.cancelled = TRUE
        BY <3>1 DEF ScanRecords
      <3>3. C = [scans EXCEPT ![Len(scans)] = e]
        BY <3>1
      <3> HIDE DEF C, e
      <3>4. Winds(scans, C) /\ C[Len(scans)].cancelled = TRUE
        <4>1. Winds(scans, [scans EXCEPT ![Len(scans)] = e])
          BY <2>2, <3>1, <3>2, OneWinds
        <4>2. [scans EXCEPT ![Len(scans)] = e][Len(scans)] = e
          BY <2>2, <3>1
        <4> QED
          BY <3>2, <3>3, <4>1, <4>2
      <3>5. ~crowded => \A s \in Scans : underWay(C, s) => C[s].cancelled
        BY <3>4 DEF Held, Winds, Scans
      <3> QED
        BY <2>1, <3>4, <3>5, LeaveHeld DEF setState, at
    <2> QED
      BY <2>3, <2>4
  <1>7. CASE SenderPaste
    BY <1>7, PasteHeld, SetStateHeld DEF SenderPaste, Forgetful
  <1> QED
    BY <1>1, <1>2, <1>3, <1>4, <1>5, <1>6, <1>7 DEF User

(* A scan that goes on, while the others are as they were.                 *)
LEMMA GoesOnHeld ==
    ASSUME TypeOK, Held, NEW s \in Scans, underWay(scans, s),
           NEW state \in {"starting", "running", "unstoppable"},
           scans' = [scans EXCEPT ![s].state = state], UNCHANGED cur,
           IF state = "running" THEN stop' = s /\ ~scans[s].cancelled
           ELSE stop' = stop
    PROVE  Held'
  <1> DEFINE e == [scans[s] EXCEPT !.state = state]
  <1>1. scans \in Seq(ScanRecords) /\ s \in 1..Len(scans) /\ scans[s] \in ScanRecords
    BY DEF TypeOK, Scans
  <1>2. /\ e \in ScanRecords /\ e.state = state /\ e.alone = scans[s].alone
        /\ e.cancelled = scans[s].cancelled
    BY <1>1 DEF ScanRecords
  <1>3. scans' = [scans EXCEPT ![s] = e]
    BY <1>1
  <1> HIDE DEF e
  <1>4. /\ Len(scans') = Len(scans) /\ scans'[s] = e
        /\ \A i \in 1..Len(scans) : i # s => scans'[i] = scans[i]
    BY <1>1, <1>2, <1>3, OneChanged
  <1>5. Scans' = Scans /\ \A i \in Scans : scans'[i].alone = scans[i].alone
    BY <1>2, <1>4 DEF Scans
  <1>6. crowded' <=> crowded
    BY <1>5 DEF crowded
  <1>7. \A i \in Scans : underWay(scans', i) =>
           underWay(scans, i) /\ scans'[i].cancelled = scans[i].cancelled
    BY <1>2, <1>4 DEF Scans, underWay
  <1>8. ~crowded => \A i \in Scans : scans'[i].state = "running" => i = s
    BY <1>4 DEF Held, Scans, underWay
  <1>9. ~crowded => \A i \in Scans : scans'[i].state = "running" =>
                       i = stop' /\ ~scans'[i].cancelled
    BY <1>2, <1>4, <1>8
  <1> QED
    BY <1>4, <1>5, <1>6, <1>7, <1>9 DEF Held

(* A scan that is over: nothing else was under way.                        *)
LEMMA OverHeld ==
    ASSUME TypeOK, Held, NEW s \in Scans, underWay(scans, s)
    PROVE  /\ Winds(scans, released(scans, s))
           /\ ~crowded => \A i \in Scans : released(scans, s)[i].state # "running"
  <1>1. scans \in Seq(ScanRecords) /\ s \in 1..Len(scans)
    BY DEF TypeOK, Scans
  <1>2. Winds(scans, released(scans, s)) /\ released(scans, s)[s].state = "off"
    BY <1>1, ReleasedWinds
  <1> QED
    BY <1>2 DEF Winds, Held, Scans, underWay

LEMMA CameraStaysHeld ==
    ASSUME TypeOK, Held, Camera
    PROVE  Held'
  <1>1. PICK s \in Scans :
           \/ CameraGranted(s) \/ CameraDenied(s) \/ PlayFails(s)
           \/ Plays(s) \/ Decode(s) \/ DecodeAtOnce(s)
    BY DEF Camera
  <1> DEFINE C == released(scans, s)
  <1>2. underWay(scans, s)
    BY <1>1 DEF underWay, CameraGranted, CameraDenied, PlayFails, Plays,
                Decode, DecodeAtOnce
  <1>3. Winds(scans, C) /\ (~crowded => \A i \in Scans : C[i].state # "running")
    BY <1>2, OverHeld
  <1> HIDE DEF C
  <1>4. CASE CameraGranted(s)
    BY <1>2, <1>4, GoesOnHeld DEF CameraGranted
  <1>5. CASE PlayFails(s)
    BY <1>2, <1>5, GoesOnHeld DEF PlayFails
  <1>6. CASE Plays(s)
    <2>1. CASE scans' = C /\ UNCHANGED <<cur, stop>>
      BY <1>3, <2>1, WindsHeld
    <2>2. CASE /\ ~scans[s].cancelled /\ stop' = s /\ UNCHANGED cur
               /\ scans' = [scans EXCEPT ![s].state = "running"]
      BY <1>2, <2>2, GoesOnHeld
    <2> QED
      BY <1>6, <2>1, <2>2 DEF Plays, C
  <1>7. CASE start("join", "joining") /\ scans' = C
    BY <1>3, <1>7, JoinHeld
  <1>8. CASE cur'.screen = "error" /\ scans' = rendered("error", stopped(C, stop))
    BY <1>3, <1>8, LeaveHeld DEF Forgetful
  <1>9. CASE CameraDenied(s) \/ Decode(s) \/ DecodeAtOnce(s)
    BY <1>7, <1>8, <1>9 DEF CameraDenied, Decode, DecodeAtOnce, startJoin,
                            setState, at, rendered, C
  <1> QED
    BY <1>1, <1>4, <1>5, <1>6, <1>9

(* A page that is resumed or given up.                                     *)
LEMMA AttemptHeld ==
    ASSUME TypeOK, Held, NEW S, NEW act, NEW attempt,
           attemptReconnect(S, act, attempt)
    PROVE  Held'
  BY SetStateHeld, StayHeld DEF attemptReconnect, Forgetful

LEMMA RelayHeld ==
    ASSUME TypeOK, Held, NEW n \in Sockets,
           \/ HearCreated(n) \/ HearPaired(n)
           \/ HearPairedByCode(n) \/ HearError(n) \/ HearSessionEnded(n)
           \/ HearReconnected(n) \/ Closed(n)
    PROVE  Held'
  <1>1. CASE HearCreated(n) \/ HearPaired(n) \/ HearPairedByCode(n)
    BY <1>1, StayHeld DEF HearCreated, HearPaired, HearPairedByCode,
                          finalizePaired, at, Forgetful
  <1>2. CASE HearError(n) \/ HearSessionEnded(n)
    BY <1>2, SetStateHeld DEF HearError, HearSessionEnded, Forgetful
  <1>3. CASE HearReconnected(n)
    <2>1. /\ Winds(scans, scans) /\ UNCHANGED <<cur, stop>>
          /\ scans' = rendered(cur.screen, scans)
      BY <1>3, Unwound DEF HearReconnected, TypeOK
    <2>2. ~crowded => \A s \in Scans : scans[s].state = "running" =>
                         s = stop' /\ ~scans[s].cancelled
      BY <2>1 DEF Held
    <2> QED
      BY <2>1, <2>2, RenderedHeld
  <1>4. CASE Closed(n)
    <2>1. PICK S :
             \/ setState("error", S, scans)
             \/ attemptReconnect(S, None, 1)
             \/ retry(n, S)
             \/ UNCHANGED <<cur, active, stop, scans, timers>>
      BY <1>4 DEF Closed
    <2> QED
      BY <2>1, SetStateHeld, AttemptHeld, StayHeld DEF retry, Forgetful
  <1> QED
    BY <1>1, <1>2, <1>3, <1>4

LEMMA LocalHeld ==
    ASSUME TypeOK, Held, Local
    PROVE  Held'
  <1>1. ASSUME NEW n \in Sockets,
               ExchangeHeard(n) \/ ExchangeDone(n) \/ ExchangeFails(n)
        PROVE  Held'
    BY <1>1, StayHeld, SetStateHeld DEF ExchangeHeard, ExchangeDone,
       ExchangeFails, finalizePaired, at, Forgetful
  <1>2. ASSUME NEW s \in deriving, TokenDerived(s)
        PROVE  Held'
    <2>1. cur'.screen = cur.screen /\ UNCHANGED <<stop, scans>>
      BY <1>2 DEF TokenDerived, TypeOK
    <2> QED
      BY <2>1, StayHeld
  <1>3. CASE RetryTimer
    BY <1>3, StayHeld, AttemptHeld DEF RetryTimer
  <1> QED
    BY <1>1, <1>2, <1>3 DEF Local

(* The camera that plays is the one activeStopScan stops, for any number   *)
(* of sockets, scans and attempts and in every order of their callbacks,   *)
(* as long as no two scans overlap; and until a callback of something      *)
(* abandoned has fired, it plays on the scanning screen alone.  Of a       *)
(* stream whose play() was rejected the theorem claims nothing: nobody     *)
(* stops it.                                                               *)
THEOREM PlayingIsAlwaysHeld == Spec => []PlayingIsHeld
  <1>1. Init => Held
    BY DEF Init, Held, Scans
  <1>2. TypeOK /\ Held /\ [Next]_vars => Held'
    <2>1. ASSUME TypeOK, Held, Relay PROVE Held'
      BY <2>1, RelayHeld DEF Relay
    <2>2. ASSUME TypeOK, Held, UNCHANGED vars PROVE Held'
      BY <2>2, StayHeld DEF vars
    <2> QED
      BY <2>1, <2>2, UserHeld, CameraStaysHeld, LocalHeld DEF Next
  <1>3. IInv /\ Held => PlayingIsHeld
    <2> SUFFICES ASSUME IInv, Held, NEW s \in Scans, lit(s),
                        scans[s].state = "running"
                 PROVE  /\ ~crowded => s = stop /\ ~scans[s].cancelled
                        /\ ~stray => s = stop /\ shown(s)
      BY DEF PlayingIsHeld, lit
    <2> QED
      BY DEF IInv, Good, Running, Held, Scans, shown
  <1>4. Spec => []TypeOK
    BY TypesHold
  <1> QED
    BY <1>1, <1>2, <1>3, <1>4, AlwaysIInv, PTL DEF Spec

=============================================================================
