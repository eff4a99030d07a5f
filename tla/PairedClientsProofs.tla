------------------------- MODULE PairedClientsProofs -------------------------
(***************************************************************************)
(* Proofs about PairedClients, for any number of sockets, reconnect        *)
(* attempts and swap requests: which socket a client is on, that no client *)
(* is stranded, that the two clients' roles stay complementary, and that   *)
(* their epochs agree as long as connections break on one side only.       *)
(***************************************************************************)
EXTENDS PairedClients, TLAPS, FiniteSetTheorems

Has(q, S) == \E j \in 1..Len(q) : q[j] \in S

(* A socket whose connection the relay has ended still has to hear why,    *)
(* and hears nothing after that.                                           *)
HearsWhy(c, l) ==
    c.screen = "paired" /\ l.fin /\ ~l.broken /\ l.state = "open" =>
       /\ l.wired => l.down # <<>>
       /\ l.down # <<>> =>
             l.down[Len(l.down)] \in {"session_ended", "error"}

(* The n-th socket l of a client c, with its handler h and the slot s: only*)
(* the latest socket is in use, a handler is known to the session once its *)
(* first message is accepted, and the first socket stays active until it   *)
(* is closed.                                                              *)
SocketOK(c, l, h, s, n) ==
    /\ n > c.last => l = Unused /\ h = "none"
    /\ l.state \in {"opening", "open"} => n = c.last
    /\ h \in {"none", "first"} => l.down = <<>> /\ s.conn # n
    /\ h # "none" => l.state \in {"open", "closed"}
    /\ l.broken => n + RECONNECT_MAX_ATTEMPTS <= MaxConns
    /\ c.screen = "paired" => ~Has(l.up, {"end_session"})
    /\ HearsWhy(c, l)
    /\ n = 1 =>
          /\ h \in {"serving", "gone"}
          /\ l.state = "open" =>
                c.active = 1 /\ l.wired /\ c.screen = "paired"
          /\ carries(l) => h = "serving" /\ s.conn = 1 /\ s.connected

(* A paired client c with its latest socket l is connected, or about to    *)
(* retry, or trying, and has sockets left for the attempts that remain.    *)
ClientOK(c, l) ==
    /\ c.active <= c.last
    /\ c.screen = "paired" =>
       \/ /\ c.active = c.last /\ ~c.sleeping
          /\ l.state = "open" /\ l.wired
       \/ /\ c.active = None
          /\ c.last + RECONNECT_MAX_ATTEMPTS - c.attempt <= MaxConns
          /\ \/ /\ c.sleeping /\ l.state = "closed"
                /\ c.attempt < RECONNECT_MAX_ATTEMPTS
             \/ /\ ~c.sleeping /\ l.state \in {"opening", "open"} /\ ~l.wired

PeerOK(p) ==
    /\ ClientOK(client[p], link[p][client[p].last])
    /\ \A n \in Links :
          SocketOK(client[p], link[p][n], handler[p][n], slot[p], n)

Inv == TypeOK /\ \A p \in Peers : PeerOK(p)

-----------------------------------------------------------------------------
(* Role swaps *)

Once(q, S) ==
    \A i, j \in 1..Len(q) : q[i] \in S /\ q[j] \in S => i = j

Request  == {"role_swap_request"}
Response == {"accepted", "rejected"}

(* Both clients are on their first connection, and no swap was cut off.    *)
Undisturbed(p) == carries(link[p][1]) /\ ~client[p].cut
On == \A p \in Peers : Undisturbed(p)

ups(p)   == link[p][1].up
downs(p) == link[p][1].down

(* A peer that awaits a response has one request or response under way,    *)
(* one that does not has none.                                             *)
Negotiating(p) ==
    LET a == Has(ups(p), Request)
        b == Has(downs(other(p)), Request)
        x == Has(ups(other(p)), Response)
        y == Has(downs(p), Response) IN
    /\ Once(ups(p), Request) /\ Once(downs(other(p)), Request)
    /\ Once(ups(other(p)), Response) /\ Once(downs(p), Response)
    /\ ~(a /\ b) /\ ~(a /\ x) /\ ~(a /\ y) /\ ~(b /\ x) /\ ~(b /\ y) /\ ~(x /\ y)
    /\ client[p].awaiting <=> a \/ b \/ x \/ y

(* p's request has been accepted, and p does not know it yet.              *)
HalfDone(p) ==
    Has(ups(other(p)), {"accepted"}) \/ Has(downs(p), {"accepted"})

Swapping ==
    On =>
       /\ \A p \in Peers :
             /\ Negotiating(p)
             /\ ~Has(downs(p), {"peer_reconnected", "reconnected"})
       /\ ~(HalfDone("host") /\ HalfDone("guest"))
       /\ (client["host"].role # client["guest"].role)
             <=> ~(HalfDone("host") \/ HalfDone("guest"))

(* The inductive invariant.                                                *)
IInv == Inv /\ Swapping
-----------------------------------------------------------------------------
(* Queues *)

(* A message more at the end of a queue.                                   *)
LEMMA QueuePut ==
    ASSUME NEW X, NEW q \in Seq(X), NEW m \in X, NEW S
    PROVE  /\ Append(q, m) \in Seq(X) /\ Append(q, m) # <<>>
           /\ Append(q, m)[Len(Append(q, m))] = m
           /\ Has(Append(q, m), S) <=> Has(q, S) \/ m \in S
           /\ Once(q, S) /\ (m \in S => ~Has(q, S)) => Once(Append(q, m), S)
  <1> DEFINE r == Append(q, m)
             n == Len(q) + 1
  <1>1. /\ r \in Seq(X) /\ Len(r) = n /\ n \in Nat /\ Len(q) \in Nat
        /\ r[n] = m
        /\ \A j \in 1..Len(q) : r[j] = q[j]
    OBVIOUS
  <1>2. \A j \in 1..n : j \in 1..Len(q) \/ j = n
    BY <1>1
  <1>3. r # <<>>
    <2>1. Len(<<>>) = 0
      OBVIOUS
    <2> HIDE DEF r
    <2> QED
      BY <1>1, <2>1
  <1> HIDE DEF r
  <1>4. Has(r, S) <=> Has(q, S) \/ m \in S
    BY <1>1, <1>2 DEF Has
  <1>5. ASSUME Once(q, S), m \in S => ~Has(q, S)
        PROVE  Once(r, S)
    BY <1>1, <1>2, <1>5 DEF Once, Has
  <1> QED
    BY <1>1, <1>3, <1>4, <1>5 DEF r

(* The first message of a queue is taken.                                  *)
LEMMA QueueTake ==
    ASSUME NEW X, NEW q \in Seq(X), q # <<>>, NEW S
    PROVE  /\ Tail(q) \in Seq(X) /\ Head(q) \in X
           /\ Has(q, S) <=> Head(q) \in S \/ Has(Tail(q), S)
           /\ Once(q, S) => Once(Tail(q), S)
           /\ Once(q, S) /\ Head(q) \in S => ~Has(Tail(q), S)
           /\ Head(q) # q[Len(q)] =>
                 Tail(q) # <<>> /\ Tail(q)[Len(Tail(q))] = q[Len(q)]
           /\ Tail(q) # <<>> => Tail(q)[Len(Tail(q))] = q[Len(q)]
  <1> DEFINE t == Tail(q)
             n == Len(q)
  <1>1. /\ t \in Seq(X) /\ n \in Nat \ {0} /\ Len(t) = n - 1
        /\ Head(q) = q[1] /\ q[1] \in X
        /\ \A j \in 1..Len(t) : t[j] = q[j + 1]
    OBVIOUS
  <1>0. Len(<<>>) = 0
    OBVIOUS
  <1> HIDE DEF t
  <1>2. /\ \A j \in 1..Len(t) : j + 1 \in 1..n
        /\ \A j \in 1..n : j = 1 \/ (j - 1 \in 1..Len(t) /\ t[j - 1] = q[j])
        /\ 1 \in 1..n
    BY <1>1
  <1>3. Has(q, S) <=> Head(q) \in S \/ Has(t, S)
    BY <1>1, <1>2 DEF Has
  <1>4. ASSUME Once(q, S) PROVE Once(t, S)
    <2> SUFFICES ASSUME NEW i \in 1..Len(t), NEW j \in 1..Len(t),
                        t[i] \in S, t[j] \in S
                 PROVE  i = j
      BY DEF Once
    <2>1. i + 1 \in 1..n /\ j + 1 \in 1..n /\ q[i + 1] \in S /\ q[j + 1] \in S
      BY <1>1, <1>2
    <2>2. i + 1 = j + 1
      BY <1>4, <2>1 DEF Once
    <2> QED
      BY <2>2
  <1>5. ASSUME Once(q, S), Head(q) \in S, Has(t, S) PROVE FALSE
    <2>1. PICK j \in 1..Len(t) : t[j] \in S
      BY <1>5 DEF Has
    <2>2. j + 1 \in 1..n /\ q[j + 1] \in S /\ q[1] \in S /\ j + 1 # 1
      BY <1>1, <1>2, <1>5, <2>1
    <2> QED
      BY <1>2, <1>5, <2>2 DEF Once
  <1>6. t # <<>> => t[Len(t)] = q[n]
    <2>1. Len(t) = 0 => t = <<>>
      BY <1>1
    <2> QED
      BY <1>1, <1>2, <2>1
  <1>7. Head(q) # q[n] => t # <<>>
    BY <1>0, <1>1
  <1> QED
    BY <1>1, <1>3, <1>4, <1>5, <1>6, <1>7 DEF t

LEMMA EmptyQueue ==
    ASSUME NEW S
    PROVE  ~Has(<<>>, S) /\ Once(<<>>, S)
  BY DEF Has, Once

-----------------------------------------------------------------------------
(* Edits of a socket *)

LinkFns == [Peers -> [Links -> LinkRecord]]

put(L, p, n, l) == [L EXCEPT ![p][n] = l]

downTo(l, m) == IF carries(l) THEN [l EXCEPT !.down = Append(@, m)] ELSE l
upTo(l, m)   == IF carries(l) THEN [l EXCEPT !.up = Append(@, m)] ELSE l
shut(l)      == [l EXCEPT !.state = "closed", !.down = <<>>]
heard(l)     == [l EXCEPT !.down = Tail(@)]
taken(l)     == [l EXCEPT !.up = Tail(@)]
finished(l)  == [l EXCEPT !.fin = TRUE]

LEMMA PutAt ==
    ASSUME NEW L \in LinkFns, NEW p \in Peers, NEW n \in Links,
           NEW l \in LinkRecord
    PROVE  /\ put(L, p, n, l) \in LinkFns
           /\ put(L, p, n, l)[p][n] = l
           /\ \A q \in Peers, k \in Links :
                 q # p \/ k # n => put(L, p, n, l)[q][k] = L[q][k]
  BY DEF LinkFns, put

(* The same, in a form that is easier to cite.                             *)
Puts(M, L, p, n, l) ==
    /\ M \in LinkFns /\ M[p][n] = l
    /\ \A q \in Peers, k \in Links : q # p \/ k # n => M[q][k] = L[q][k]

LEMMA PutPuts ==
    ASSUME NEW L \in LinkFns, NEW p \in Peers, NEW n \in Links,
           NEW l \in LinkRecord
    PROVE  Puts(put(L, p, n, l), L, p, n, l)
  BY PutAt DEF Puts

LEMMA EditFields ==
    ASSUME NEW l \in LinkRecord, NEW m \in Messages
    PROVE  /\ downTo(l, m) \in LinkRecord
           /\ downTo(l, m).state = l.state /\ downTo(l, m).broken = l.broken
           /\ downTo(l, m).fin = l.fin /\ downTo(l, m).wired = l.wired
           /\ downTo(l, m).up = l.up
           /\ downTo(l, m).down =
                 IF carries(l) THEN Append(l.down, m) ELSE l.down
           /\ upTo(l, m) \in LinkRecord
           /\ upTo(l, m).state = l.state /\ upTo(l, m).broken = l.broken
           /\ upTo(l, m).fin = l.fin /\ upTo(l, m).wired = l.wired
           /\ upTo(l, m).down = l.down
           /\ upTo(l, m).up = IF carries(l) THEN Append(l.up, m) ELSE l.up
  <1>1. l.down \in Seq(Messages) /\ l.up \in Seq(Messages)
    BY DEF LinkRecord
  <1>2. Append(l.down, m) \in Seq(Messages) /\ Append(l.up, m) \in Seq(Messages)
    BY <1>1
  <1>3. CASE carries(l)
    <2> DEFINE d == Append(l.down, m)
               u == Append(l.up, m)
    <2>1. /\ downTo(l, m) = [l EXCEPT !.down = d]
          /\ upTo(l, m) = [l EXCEPT !.up = u]
          /\ d \in Seq(Messages) /\ u \in Seq(Messages)
      BY <1>2, <1>3 DEF downTo, upTo
    <2> HIDE DEF d, u
    <2>2. /\ [l EXCEPT !.down = d] \in LinkRecord
          /\ [l EXCEPT !.up = u] \in LinkRecord
      BY <2>1 DEF LinkRecord
    <2>3. downTo(l, m).down = d /\ upTo(l, m).up = u
      BY <2>1 DEF LinkRecord
    <2>4. /\ downTo(l, m).state = l.state /\ downTo(l, m).broken = l.broken
          /\ downTo(l, m).fin = l.fin /\ downTo(l, m).wired = l.wired
          /\ downTo(l, m).up = l.up
      BY <2>1 DEF LinkRecord
    <2>5. /\ upTo(l, m).state = l.state /\ upTo(l, m).broken = l.broken
          /\ upTo(l, m).fin = l.fin /\ upTo(l, m).wired = l.wired
          /\ upTo(l, m).down = l.down
      BY <2>1 DEF LinkRecord
    <2> QED
      BY <1>3, <2>1, <2>2, <2>3, <2>4, <2>5 DEF d, u
  <1>4. CASE ~carries(l)
    BY <1>4 DEF downTo, upTo
  <1> QED
    BY <1>3, <1>4

LEMMA ShutFields ==
    ASSUME NEW l \in LinkRecord
    PROVE  /\ shut(l) \in LinkRecord /\ shut(l).state = "closed"
           /\ shut(l).down = <<>> /\ shut(l).up = l.up
           /\ shut(l).broken = l.broken /\ shut(l).fin = l.fin
           /\ shut(l).wired = l.wired
           /\ finished(l) \in LinkRecord /\ finished(l).state = l.state
           /\ finished(l).down = l.down /\ finished(l).up = l.up
           /\ finished(l).broken = l.broken /\ finished(l).fin = TRUE
           /\ finished(l).wired = l.wired
  <1>1. <<>> \in Seq(Messages)
    OBVIOUS
  <1> QED
    BY <1>1 DEF LinkRecord, shut, finished

LEMMA TakeFields ==
    ASSUME NEW l \in LinkRecord
    PROVE  /\ l.down # <<>> =>
                 /\ heard(l) \in LinkRecord
                 /\ heard(l).state = l.state /\ heard(l).down = Tail(l.down)
                 /\ heard(l).up = l.up /\ heard(l).broken = l.broken
                 /\ heard(l).fin = l.fin /\ heard(l).wired = l.wired
           /\ l.up # <<>> =>
                 /\ taken(l) \in LinkRecord
                 /\ taken(l).state = l.state /\ taken(l).up = Tail(l.up)
                 /\ taken(l).down = l.down /\ taken(l).broken = l.broken
                 /\ taken(l).fin = l.fin /\ taken(l).wired = l.wired
  <1>1. ASSUME l.down # <<>>
        PROVE  /\ heard(l) \in LinkRecord
               /\ heard(l).state = l.state /\ heard(l).down = Tail(l.down)
               /\ heard(l).up = l.up /\ heard(l).broken = l.broken
               /\ heard(l).fin = l.fin /\ heard(l).wired = l.wired
    <2> DEFINE t == Tail(l.down)
    <2>1. t \in Seq(Messages)
      <3>1. l.down \in Seq(Messages)
        BY DEF LinkRecord
      <3> QED
        BY <1>1, <3>1, QueueTake
    <2>2. heard(l) = [l EXCEPT !.down = t]
      BY DEF heard
    <2> HIDE DEF t
    <2>3. /\ heard(l) \in LinkRecord
          /\ heard(l).state = l.state /\ heard(l).down = t
          /\ heard(l).up = l.up /\ heard(l).broken = l.broken
          /\ heard(l).fin = l.fin /\ heard(l).wired = l.wired
      BY <2>1, <2>2 DEF LinkRecord
    <2> QED
      BY <2>3 DEF t
  <1>2. ASSUME l.up # <<>>
        PROVE  /\ taken(l) \in LinkRecord
               /\ taken(l).state = l.state /\ taken(l).up = Tail(l.up)
               /\ taken(l).down = l.down /\ taken(l).broken = l.broken
               /\ taken(l).fin = l.fin /\ taken(l).wired = l.wired
    <2> DEFINE t == Tail(l.up)
    <2>1. t \in Seq(Messages)
      <3>1. l.up \in Seq(Messages)
        BY DEF LinkRecord
      <3> QED
        BY <1>2, <3>1, QueueTake
    <2>2. taken(l) = [l EXCEPT !.up = t]
      BY DEF taken
    <2> HIDE DEF t
    <2>3. /\ taken(l) \in LinkRecord
          /\ taken(l).state = l.state /\ taken(l).up = t
          /\ taken(l).down = l.down /\ taken(l).broken = l.broken
          /\ taken(l).fin = l.fin /\ taken(l).wired = l.wired
      BY <2>1, <2>2 DEF LinkRecord
    <2> QED
      BY <2>3 DEF t
  <1> QED
    BY <1>1, <1>2

LEMMA PutSame ==
    ASSUME NEW L \in LinkFns, NEW p \in Peers, NEW n \in Links
    PROVE  L = put(L, p, n, L[p][n]) /\ n # None
  BY DEF LinkFns, put, Links, None

LEMMA SendDownAt ==
    ASSUME NEW L \in LinkFns, NEW p \in Peers, NEW n \in Links, NEW m
    PROVE  sendDown(L, p, n, m) = put(L, p, n, downTo(L[p][n], m))
  <1>1. L = put(L, p, n, L[p][n]) /\ n # None
    BY PutSame
  <1> QED
    BY <1>1 DEF put, sendDown, downTo

LEMMA SendUpAt ==
    ASSUME NEW L \in LinkFns, NEW p \in Peers, NEW n \in Links, NEW m
    PROVE  sendUp(L, p, n, m) = put(L, p, n, upTo(L[p][n], m))
  <1>1. L = put(L, p, n, L[p][n]) /\ n # None
    BY PutSame
  <1> QED
    BY <1>1 DEF put, sendUp, upTo

LEMMA CloseAt ==
    ASSUME NEW L \in LinkFns, NEW p \in Peers, NEW n \in Links
    PROVE  closeSocket(L, p, n) = put(L, p, n, shut(L[p][n]))
  <1>1. n # None
    BY PutSame
  <1> QED
    BY <1>1 DEF put, closeSocket, shut, LinkFns

LEMMA HeardAt ==
    ASSUME NEW L \in LinkFns, NEW p \in Peers, NEW n \in Links
    PROVE  [L EXCEPT ![p][n].down = Tail(@)] = put(L, p, n, heard(L[p][n]))
  BY DEF put, heard

LEMMA TakenAt ==
    ASSUME NEW L \in LinkFns, NEW p \in Peers, NEW n \in Links
    PROVE  [L EXCEPT ![p][n].up = Tail(@)] = put(L, p, n, taken(L[p][n]))
  BY DEF put, taken

LEMMA RestAt ==
    ASSUME link \in LinkFns, NEW p \in Peers, NEW n \in Links
    PROVE  rest(p, n) = put(link, p, n, heard(link[p][n]))
  BY HeardAt DEF rest

LEMMA UnreadAt ==
    ASSUME link \in LinkFns, NEW p \in Peers, NEW n \in Links
    PROVE  unread(p, n) = put(link, p, n, taken(link[p][n]))
  BY TakenAt DEF unread

ended(L, p, n) == [L EXCEPT ![p][n].fin = TRUE]

LEMMA EndedAt ==
    ASSUME NEW L \in LinkFns, NEW p \in Peers, NEW n \in Links
    PROVE  ended(L, p, n) = put(L, p, n, finished(L[p][n]))
  BY DEF put, ended, finished

-----------------------------------------------------------------------------
(* What leaves a peer in order *)

LEMMA TwoPeers ==
    ASSUME NEW p \in Peers
    PROVE  /\ other(p) \in Peers /\ other(p) # p /\ other(other(p)) = p
           /\ \A q \in Peers : q = p \/ q = other(p)
  BY DEF Peers, other

LEMMA Bounds ==
    /\ MaxConns \in Nat /\ RECONNECT_MAX_ATTEMPTS \in Nat \ {0}
    /\ 1 \in Links /\ Links \subseteq Nat \ {0} /\ None \notin Links
    /\ \A n \in Nat : n \in Links <=> 1 <= n /\ n <= MaxConns
  BY ClientsAssumption DEF ClientsAssumption, Links, None

LEMMA PeerTyped ==
    ASSUME TypeOK, NEW p \in Peers
    PROVE  /\ client[p] \in ClientRecord
           /\ client[p].last \in Links /\ client[p].active \in Links \cup {None}
           /\ client[p].attempt \in 0..RECONNECT_MAX_ATTEMPTS
           /\ link \in LinkFns
           /\ \A n \in Links : link[p][n] \in LinkRecord
           /\ slot[p] \in [conn : Links, connected : BOOLEAN, token : BOOLEAN]
           /\ slot[p].conn \in Links /\ slot[p].connected \in BOOLEAN
  <1>1. /\ client[p] \in ClientRecord /\ link \in LinkFns
        /\ \A n \in Links : link[p][n] \in LinkRecord
        /\ slot[p] \in [conn : Links, connected : BOOLEAN, token : BOOLEAN]
    BY DEF TypeOK, LinkFns
  <1>2. /\ client[p].last \in Links /\ client[p].active \in Links \cup {None}
        /\ client[p].attempt \in 0..RECONNECT_MAX_ATTEMPTS
    BY <1>1 DEF ClientRecord
  <1> QED
    BY <1>1, <1>2

(* Where a socket l of the client c was, e now is: its queues have moved,  *)
(* or its connection has failed or ended; h is the handler now.            *)
Stirred(c, h, n, l, e) ==
    /\ n > c.last => e = l
    /\ e.state = l.state /\ e.wired = l.wired
    /\ carries(e) => carries(l)
    /\ e.broken => n + RECONNECT_MAX_ATTEMPTS <= MaxConns
    /\ c.screen = "paired" => ~Has(e.up, {"end_session"})
    /\ HearsWhy(c, e)
    /\ h \in {"none", "first"} => e.down = <<>>

(* The handler of a socket e has moved on, from h to g.                    *)
MovesOn(h, g, n, e) ==
    \/ g = h
    \/ /\ h # "none" /\ g \notin {"none", "first"}
       /\ n = 1 => g \in {"serving", "gone"} /\ (carries(e) => g = "serving")

LEMMA StirredPeer ==
    ASSUME Inv, NEW p \in Peers,
           client'[p].screen = client[p].screen,
           client'[p].last = client[p].last,
           client'[p].active = client[p].active,
           client'[p].sleeping = client[p].sleeping,
           client'[p].attempt = client[p].attempt,
           \A k \in Links :
              /\ Stirred(client[p], handler'[p][k], k, link[p][k], link'[p][k])
              /\ MovesOn(handler[p][k], handler'[p][k], k, link'[p][k])
              /\ handler'[p][k] \in {"none", "first"} => slot'[p].conn # k,
           carries(link'[p][1]) => slot'[p].conn = 1 /\ slot'[p].connected
    PROVE  PeerOK(p)'
  <1> DEFINE c == client[p]
             d == client'[p]
  <1>1. c.last \in Links
    BY PeerTyped DEF Inv
  <1>2. ASSUME NEW k \in Links
        PROVE  SocketOK(d, link'[p][k], handler'[p][k], slot'[p], k)
    <2>1. SocketOK(c, link[p][k], handler[p][k], slot[p], k)
      BY DEF Inv, PeerOK
    <2>2. /\ Stirred(c, handler'[p][k], k, link[p][k], link'[p][k])
          /\ MovesOn(handler[p][k], handler'[p][k], k, link'[p][k])
          /\ handler'[p][k] \in {"none", "first"} => slot'[p].conn # k
          /\ k = 1 /\ carries(link'[p][k]) =>
                slot'[p].conn = 1 /\ slot'[p].connected
      OBVIOUS
    <2>3. HearsWhy(d, link'[p][k])
      BY <2>2 DEF Stirred, HearsWhy
    <2>4. k > d.last => link'[p][k] = Unused /\ handler'[p][k] = "none"
      BY <2>1, <2>2 DEF SocketOK, Stirred, MovesOn
    <2>5. k = 1 =>
          /\ handler'[p][k] \in {"serving", "gone"}
          /\ link'[p][k].state = "open" =>
                d.active = 1 /\ link'[p][k].wired /\ d.screen = "paired"
          /\ carries(link'[p][k]) =>
               handler'[p][k] = "serving" /\ slot'[p].conn = 1
               /\ slot'[p].connected
      BY <2>1, <2>2 DEF SocketOK, Stirred, MovesOn
    <2>6. /\ link'[p][k].state \in {"opening", "open"} => k = d.last
          /\ handler'[p][k] # "none" => link'[p][k].state \in {"open", "closed"}
      BY <2>1, <2>2 DEF SocketOK, Stirred, MovesOn
    <2>7. /\ link'[p][k].broken => k + RECONNECT_MAX_ATTEMPTS <= MaxConns
          /\ d.screen = "paired" => ~Has(link'[p][k].up, {"end_session"})
          /\ handler'[p][k] \in {"none", "first"} => link'[p][k].down = <<>>
      BY <2>2 DEF Stirred
    <2> QED
      BY <2>2, <2>3, <2>4, <2>5, <2>6, <2>7 DEF SocketOK
  <1>3. ClientOK(d, link'[p][d.last])
    <2>1. ClientOK(c, link[p][c.last])
      BY DEF Inv, PeerOK
    <2>2. /\ link'[p][c.last].state = link[p][c.last].state
          /\ link'[p][c.last].wired = link[p][c.last].wired
      BY <1>1 DEF Stirred
    <2> QED
      BY <2>1, <2>2 DEF ClientOK
  <1> QED
    BY <1>2, <1>3 DEF PeerOK

(* A socket of a client that has not left, and the same one afterwards.    *)
LEMMA Unstirred ==
    ASSUME Inv, NEW p \in Peers, NEW k \in Links
    PROVE  /\ Stirred(client[p], handler[p][k], k, link[p][k], link[p][k])
           /\ MovesOn(handler[p][k], handler[p][k], k, link[p][k])
           /\ handler[p][k] \in {"none", "first"} => slot[p].conn # k
           /\ carries(link[p][1]) => slot[p].conn = 1 /\ slot[p].connected
           /\ handler[p][k] # "none" => k <= client[p].last
           /\ link[p][k].state # "none" => k <= client[p].last
           /\ handler[p][k] \notin {"none", "first"} \/ link[p][k].down = <<>>
  <1>1. /\ SocketOK(client[p], link[p][k], handler[p][k], slot[p], k)
        /\ SocketOK(client[p], link[p][1], handler[p][1], slot[p], 1)
    BY Bounds DEF Inv, PeerOK
  <1>2. k \in Nat /\ client[p].last \in Nat
    BY Bounds, PeerTyped DEF Inv
  <1>3. Unused.state = "none"
    BY DEF Unused
  <1> QED
    BY <1>1, <1>2, <1>3 DEF SocketOK, Stirred, MovesOn

Why == {"session_ended", "error"}

LEMMA StirDown ==
    ASSUME NEW c, NEW h, NEW n \in Nat, NEW l \in LinkRecord,
           NEW e \in LinkRecord, Stirred(c, h, n, l, e),
           c.last \in Nat, n <= c.last, h \notin {"none", "first"},
           NEW m \in Messages
    PROVE  /\ Stirred(c, h, n, l, downTo(e, m))
           /\ m \in Why => Stirred(c, h, n, l, finished(downTo(e, m)))
           /\ c.screen # "paired" => Stirred(c, h, n, l, finished(e))
  <1>1. e.down \in Seq(Messages)
    BY DEF LinkRecord
  <1> DEFINE f == downTo(e, m)
             g == finished(f)
             a == Append(e.down, m)
  <1>2. /\ f \in LinkRecord /\ f.state = e.state /\ f.broken = e.broken
        /\ f.fin = e.fin /\ f.wired = e.wired /\ f.up = e.up
        /\ f.down = IF carries(e) THEN a ELSE e.down
    BY EditFields
  <1>3. /\ g \in LinkRecord /\ g.state = e.state /\ g.broken = e.broken
        /\ g.fin = TRUE /\ g.wired = e.wired /\ g.up = e.up
        /\ g.down = f.down
    BY <1>2, ShutFields
  <1>4. /\ finished(e).state = e.state /\ finished(e).broken = e.broken
        /\ finished(e).fin = TRUE /\ finished(e).wired = e.wired
        /\ finished(e).up = e.up /\ finished(e).down = e.down
    BY ShutFields
  <1>5. a # <<>> /\ a[Len(a)] = m
    BY <1>1, QueuePut
  <1>6. e.broken \in BOOLEAN /\ e.fin \in BOOLEAN
    BY DEF LinkRecord
  <1> HIDE DEF f, g, a
  <1>7. ~(n > c.last)
    OBVIOUS
  <1>8. Stirred(c, h, n, l, f)
    BY <1>2, <1>6, <1>7 DEF Stirred, HearsWhy, carries
  <1>9. ASSUME m \in Why PROVE Stirred(c, h, n, l, g)
    <2>1. HearsWhy(c, g)
      BY <1>2, <1>3, <1>5, <1>6, <1>9 DEF Stirred, HearsWhy, carries, Why
    <2> QED
      BY <1>2, <1>3, <1>7, <2>1 DEF Stirred, carries
  <1>10. ASSUME c.screen # "paired" PROVE Stirred(c, h, n, l, finished(e))
    BY <1>4, <1>7, <1>10 DEF Stirred, HearsWhy, carries
  <1> QED
    BY <1>8, <1>9, <1>10 DEF f, g

LEMMA StirUp ==
    ASSUME NEW c, NEW h, NEW n \in Nat, NEW l \in LinkRecord,
           NEW e \in LinkRecord, Stirred(c, h, n, l, e),
           c.last \in Nat, n <= c.last,
           NEW m \in Messages, m # "end_session"
    PROVE  Stirred(c, h, n, l, upTo(e, m))
  <1>1. e.up \in Seq(Messages)
    BY DEF LinkRecord
  <1> DEFINE f == upTo(e, m)
             a == Append(e.up, m)
  <1>2. /\ f.state = e.state /\ f.broken = e.broken
        /\ f.fin = e.fin /\ f.wired = e.wired /\ f.down = e.down
        /\ f.up = IF carries(e) THEN a ELSE e.up
    BY EditFields
  <1>3. Has(a, {"end_session"}) <=> Has(e.up, {"end_session"})
    BY <1>1, QueuePut
  <1> HIDE DEF f, a
  <1>4. ~(n > c.last)
    OBVIOUS
  <1> QED
    <2>1. HearsWhy(c, f)
      BY <1>2 DEF Stirred, HearsWhy
    <2> QED
      BY <1>2, <1>3, <1>4, <2>1 DEF Stirred, carries, f

LEMMA StirTake ==
    ASSUME NEW c, NEW h, NEW n \in Nat, NEW l \in LinkRecord,
           NEW e \in LinkRecord, Stirred(c, h, n, l, e),
           c.last \in Nat, n <= c.last
    PROVE  /\ e.up # <<>> => Stirred(c, h, n, l, taken(e))
           /\ e.down # <<>> /\ (Head(e.down) \notin Why \/ ~e.wired) =>
                 Stirred(c, h, n, l, heard(e))
  <1>1. e.up \in Seq(Messages) /\ e.down \in Seq(Messages)
    BY DEF LinkRecord
  <1>2. ~(n > c.last)
    OBVIOUS
  <1>3. ASSUME e.up # <<>> PROVE Stirred(c, h, n, l, taken(e))
    <2> DEFINE f == taken(e)
               t == Tail(e.up)
    <2>1. /\ f.state = e.state /\ f.broken = e.broken
          /\ f.fin = e.fin /\ f.wired = e.wired /\ f.down = e.down
          /\ f.up = t
      BY <1>3, TakeFields
    <2>2. Has(t, {"end_session"}) => Has(e.up, {"end_session"})
      BY <1>1, <1>3, QueueTake
    <2> HIDE DEF f, t
    <2>3. HearsWhy(c, f)
      BY <2>1 DEF Stirred, HearsWhy
    <2> QED
      BY <1>2, <2>1, <2>2, <2>3 DEF Stirred, carries, f
  <1>4. ASSUME e.down # <<>>, Head(e.down) \notin Why \/ ~e.wired
        PROVE  Stirred(c, h, n, l, heard(e))
    <2> DEFINE f == heard(e)
               t == Tail(e.down)
    <2>1. /\ f.state = e.state /\ f.broken = e.broken
          /\ f.fin = e.fin /\ f.wired = e.wired /\ f.up = e.up
          /\ f.down = t
      BY <1>4, TakeFields
    <2>2. /\ Head(e.down) # e.down[Len(e.down)] =>
                t # <<>> /\ t[Len(t)] = e.down[Len(e.down)]
          /\ t # <<>> => t[Len(t)] = e.down[Len(e.down)]
      BY <1>1, <1>4, QueueTake
    <2> HIDE DEF f, t
    <2>3. HearsWhy(c, f)
      BY <1>4, <2>1, <2>2 DEF Stirred, HearsWhy, Why
    <2>4. h \notin {"none", "first"}
      BY <1>4 DEF Stirred
    <2> QED
      BY <1>2, <2>1, <2>3, <2>4 DEF Stirred, carries, f
  <1> QED
    BY <1>3, <1>4
(* A message down a socket, and the end of its connection after one.       *)
LEMMA DownAt ==
    ASSUME NEW L \in LinkFns, NEW q \in Peers, NEW n \in Links,
           NEW m \in Messages
    PROVE  LET M == sendDown(L, q, n, m)
               D == ended(sendDown(L, q, n, m), q, n) IN
           /\ M \in LinkFns /\ D \in LinkFns
           /\ \A r \in Peers, k \in Links :
                 r # q \/ k # n => M[r][k] = L[r][k] /\ D[r][k] = L[r][k]
           /\ M[q][n] = downTo(L[q][n], m)
           /\ D[q][n] = finished(downTo(L[q][n], m))
  <1> DEFINE E == put(L, q, n, downTo(L[q][n], m))
             F == put(E, q, n, finished(E[q][n]))
  <1>1. L[q][n] \in LinkRecord
    BY DEF LinkFns
  <1>2. downTo(L[q][n], m) \in LinkRecord
    BY <1>1, EditFields
  <1>3. /\ E \in LinkFns /\ E[q][n] = downTo(L[q][n], m)
        /\ \A r \in Peers, k \in Links : r # q \/ k # n => E[r][k] = L[r][k]
    <2>1. Puts(E, L, q, n, downTo(L[q][n], m))
      BY <1>2, PutPuts
    <2> QED
      BY <2>1 DEF Puts
  <1>4. sendDown(L, q, n, m) = E
    BY SendDownAt
  <1> HIDE DEF E
  <1>5. finished(E[q][n]) \in LinkRecord
    BY <1>2, <1>3, ShutFields
  <1>6. /\ F \in LinkFns /\ F[q][n] = finished(E[q][n])
        /\ \A r \in Peers, k \in Links : r # q \/ k # n => F[r][k] = E[r][k]
    <2>1. Puts(F, E, q, n, finished(E[q][n]))
      BY <1>3, <1>5, PutPuts
    <2> QED
      BY <2>1 DEF Puts
  <1>7. ended(E, q, n) = F
    BY <1>3, EndedAt
  <1> HIDE DEF F
  <1> QED
    BY <1>3, <1>4, <1>6, <1>7

(* What a message to the other peer does, and the end of its connection.   *)
LEMMA PeerSends ==
    ASSUME TypeOK, NEW L \in LinkFns, NEW q \in Peers, NEW m \in Messages
    PROVE  LET M == sendPeer(L, q, m)
               D == dismissed(L, q)
               n == slot[q].conn IN
           /\ M \in LinkFns /\ D \in LinkFns
           /\ \A r \in Peers, k \in Links :
                 r # q \/ k # n => M[r][k] = L[r][k] /\ D[r][k] = L[r][k]
           /\ slot[q].connected => M[q][n] = downTo(L[q][n], m)
           /\ ~slot[q].connected => M = L /\ D = L
           /\ slot[q].connected =>
                 D[q][n] = finished(downTo(L[q][n], "session_ended"))
  <1>1. slot[q].conn \in Links
    BY PeerTyped
  <1>2. CASE ~slot[q].connected
    BY <1>2 DEF sendPeer, dismissed
  <1>3. CASE slot[q].connected
    <2>1. PICK n \in Links : n = slot[q].conn
      BY <1>1
    <2>2. /\ sendPeer(L, q, m) = sendDown(L, q, n, m)
          /\ dismissed(L, q) =
                ended(sendDown(L, q, n, "session_ended"), q, n)
      BY <1>3, <2>1 DEF sendPeer, dismissed, ended
    <2>3. "session_ended" \in Messages
      BY DEF Messages
    <2> DEFINE M == sendDown(L, q, n, m)
               D == ended(sendDown(L, q, n, "session_ended"), q, n)
    <2>4. /\ M \in LinkFns /\ M[q][n] = downTo(L[q][n], m)
          /\ \A r \in Peers, k \in Links : r # q \/ k # n => M[r][k] = L[r][k]
      BY DownAt
    <2>5. /\ D \in LinkFns
          /\ D[q][n] = finished(downTo(L[q][n], "session_ended"))
          /\ \A r \in Peers, k \in Links : r # q \/ k # n => D[r][k] = L[r][k]
      BY <2>3, DownAt
    <2> HIDE DEF M, D
    <2>6. sendPeer(L, q, m) = M /\ dismissed(L, q) = D
      BY <2>2 DEF M, D
    <2> QED
      BY <1>3, <2>1, <2>4, <2>5, <2>6
  <1> QED
    BY <1>2, <1>3

(* The peer that is told, or dismissed, or left alone.                     *)
LEMMA ToldPeer ==
    ASSUME Inv, NEW q \in Peers, client'[q] = client[q],
           handler'[q] = handler[q], slot'[q] = slot[q],
           NEW L \in LinkFns, \A k \in Links : L[q][k] = link[q][k],
           NEW m \in Messages,
           \/ \A k \in Links : link'[q][k] = link[q][k]
           \/ \A k \in Links : link'[q][k] = sendPeer(L, q, m)[q][k]
           \/ \A k \in Links : link'[q][k] = dismissed(L, q)[q][k]
    PROVE  PeerOK(q)'
  <1>1. /\ TypeOK /\ slot[q].conn \in Links /\ client[q].last \in Nat
        /\ \A k \in Links : k \in Nat /\ link[q][k] \in LinkRecord
    BY PeerTyped, Bounds DEF Inv
  <1>2. ASSUME NEW k \in Links
        PROVE  Stirred(client[q], handler[q][k], k, link[q][k], link'[q][k])
    <2>1. /\ Stirred(client[q], handler[q][k], k, link[q][k], link[q][k])
          /\ handler[q][k] \in {"none", "first"} => slot[q].conn # k
          /\ handler[q][k] # "none" => k <= client[q].last
      BY Unstirred
    <2>2. CASE link'[q][k] = link[q][k]
      BY <2>1, <2>2
    <2>3. CASE link'[q][k] # link[q][k]
      <3>1. k = slot[q].conn /\ slot[q].connected
        BY <1>1, <2>3, PeerSends
      <3>2. \/ link'[q][k] = downTo(link[q][k], m)
            \/ link'[q][k] = finished(downTo(link[q][k], "session_ended"))
        BY <1>1, <2>3, <3>1, PeerSends
      <3>3. handler[q][k] \notin {"none", "first"} /\ k <= client[q].last
        BY <2>1, <3>1
      <3>4. "session_ended" \in Messages /\ "session_ended" \in Why
        BY DEF Messages, Why
      <3>5. /\ Stirred(client[q], handler[q][k], k, link[q][k],
                       downTo(link[q][k], m))
            /\ Stirred(client[q], handler[q][k], k, link[q][k],
                       finished(downTo(link[q][k], "session_ended")))
        BY <1>1, <2>1, <3>3, <3>4, StirDown
      <3> QED
        BY <3>2, <3>5
    <2> QED
      BY <2>2, <2>3
  <1>3. \A k \in Links :
           /\ MovesOn(handler[q][k], handler[q][k], k, link'[q][k])
           /\ handler[q][k] \in {"none", "first"} => slot[q].conn # k
    BY Unstirred DEF MovesOn
  <1>4. carries(link'[q][1]) => slot[q].conn = 1 /\ slot[q].connected
    <2>1. carries(link'[q][1]) => carries(link[q][1])
      BY <1>2, Bounds DEF Stirred
    <2> QED
      BY <2>1, Unstirred, Bounds
  <1> QED
    BY <1>2, <1>3, <1>4, StirredPeer

(* The fields of a client that say where it is.                            *)
Stays(c, d) ==
    /\ d \in ClientRecord
    /\ d.screen = c.screen /\ d.last = c.last /\ d.active = c.active
    /\ d.sleeping = c.sleeping /\ d.attempt = c.attempt

LEMMA OneClient ==
    ASSUME TypeOK, NEW p \in Peers, NEW d \in ClientRecord
    PROVE  LET D == [client EXCEPT ![p] = d] IN
           /\ D \in [Peers -> ClientRecord] /\ D[p] = d
           /\ \A q \in Peers : q # p => D[q] = client[q]
  BY DEF TypeOK

(* A step of one client that moves the queues of one socket.               *)
LEMMA MildStep ==
    ASSUME Inv, NEW p \in Peers, NEW n \in Links,
           NEW d, Stays(client[p], d), client' = [client EXCEPT ![p] = d],
           NEW e \in LinkRecord, link' = put(link, p, n, e),
           Stirred(client[p], handler[p][n], n, link[p][n], e),
           UNCHANGED relayVars
    PROVE  Inv'
  <1>1. /\ client' \in [Peers -> ClientRecord] /\ client'[p] = d
        /\ \A q \in Peers : q # p => client'[q] = client[q]
    BY OneClient DEF Inv, Stays
  <1>2. /\ link' \in LinkFns /\ link'[p][n] = e
        /\ \A q \in Peers, k \in Links :
              q # p \/ k # n => link'[q][k] = link[q][k]
    <2>1. link \in LinkFns
      BY PeerTyped DEF Inv
    <2>2. Puts(link', link, p, n, e)
      BY <2>1, PutPuts
    <2> QED
      BY <2>2 DEF Puts
  <1>3. TypeOK'
    BY <1>1, <1>2 DEF Inv, TypeOK, LinkFns, relayVars
  <1>4. PeerOK(p)'
    <2>1. ASSUME NEW k \in Links
          PROVE  /\ Stirred(client[p], handler'[p][k], k, link[p][k],
                            link'[p][k])
                 /\ MovesOn(handler[p][k], handler'[p][k], k, link'[p][k])
                 /\ handler'[p][k] \in {"none", "first"} => slot'[p].conn # k
      BY <1>2, Unstirred DEF relayVars, MovesOn
    <2>2. carries(link'[p][1]) => slot'[p].conn = 1 /\ slot'[p].connected
      <3>1. carries(link'[p][1]) => carries(link[p][1])
        BY <2>1, Bounds DEF Stirred
      <3> QED
        BY <3>1, Unstirred, Bounds DEF relayVars
    <2> QED
      BY <1>1, <2>1, <2>2, StirredPeer DEF Stays
  <1>5. ASSUME NEW q \in Peers, q # p PROVE PeerOK(q)'
    <2>1. /\ \A k \in Links : link'[q][k] = link[q][k]
          /\ client'[q] = client[q] /\ handler'[q] = handler[q]
          /\ slot'[q] = slot[q]
      BY <1>1, <1>2, <1>5 DEF relayVars
    <2>2. link \in LinkFns /\ "error" \in Messages
      BY PeerTyped DEF Inv, Messages
    <2> QED
      BY <2>1, <2>2, ToldPeer
  <1> QED
    BY <1>3, <1>4, <1>5 DEF Inv

-----------------------------------------------------------------------------
(* Steps that leave a client where it is *)

LEMMA PutPut ==
    ASSUME NEW L \in LinkFns, NEW p \in Peers, NEW n \in Links, NEW a, NEW b
    PROVE  put(put(L, p, n, a), p, n, b) = put(L, p, n, b)
  BY DEF LinkFns, put

(* One message is heard, and perhaps another one sent.                     *)
LEMMA HearsDoes ==
    ASSUME Inv, NEW p \in Peers, NEW n \in Links, NEW m \in Messages,
           hears(p, n, m), m \notin Why \/ ~link[p][n].wired
    PROVE  LET l == link[p][n] IN
           /\ l \in LinkRecord /\ l.down \in Seq(Messages)
           /\ l.down # <<>> /\ Head(l.down) = m
           /\ l.state = "open" /\ n = client[p].last
           /\ heard(l) \in LinkRecord
           /\ rest(p, n) \in LinkFns
           /\ rest(p, n) = put(link, p, n, heard(l))
           /\ Stirred(client[p], handler[p][n], n, l, heard(l))
           /\ handler[p][n] \notin {"none", "first"}
           /\ UNCHANGED relayVars
  <1> DEFINE l == link[p][n]
  <1>1. /\ l \in LinkRecord /\ link \in LinkFns /\ n \in Nat
        /\ client[p].last \in Nat
    BY PeerTyped, Bounds DEF Inv
  <1>2. l.down \in Seq(Messages)
    BY <1>1 DEF LinkRecord
  <1>3. /\ l.down # <<>> /\ Head(l.down) = m /\ l.state = "open"
        /\ UNCHANGED relayVars
    BY DEF hears
  <1>4. n = client[p].last
    BY <1>3 DEF Inv, PeerOK, SocketOK
  <1>5. heard(l) \in LinkRecord
    BY <1>1, <1>3, TakeFields
  <1>6. rest(p, n) = put(link, p, n, heard(l))
    BY <1>1, RestAt
  <1>7. rest(p, n) \in LinkFns
    <2>1. Puts(rest(p, n), link, p, n, heard(l))
      BY <1>1, <1>5, <1>6, PutPuts
    <2> QED
      BY <2>1 DEF Puts
  <1>8. /\ Stirred(client[p], handler[p][n], n, l, l)
        /\ handler[p][n] \notin {"none", "first"}
    BY <1>3, Unstirred
  <1>9. Stirred(client[p], handler[p][n], n, l, heard(l))
    BY <1>1, <1>3, <1>4, <1>8, StirTake
  <1> QED
    BY <1>1, <1>2, <1>3, <1>4, <1>5, <1>6, <1>7, <1>8, <1>9

(* The answer to what was heard.                                           *)
LEMMA AnswersDoes ==
    ASSUME Inv, NEW p \in Peers, NEW n \in Links, NEW m \in Messages,
           hears(p, n, m), m \notin Why \/ ~link[p][n].wired,
           NEW a \in Messages, a # "end_session"
    PROVE  LET e == upTo(heard(link[p][n]), a) IN
           /\ e \in LinkRecord
           /\ sendUp(rest(p, n), p, n, a) = put(link, p, n, e)
           /\ Stirred(client[p], handler[p][n], n, link[p][n], e)
  <1> DEFINE l == link[p][n]
             f == heard(l)
  <1>1. /\ l \in LinkRecord /\ f \in LinkRecord /\ n = client[p].last
        /\ rest(p, n) \in LinkFns /\ rest(p, n) = put(link, p, n, f)
        /\ Stirred(client[p], handler[p][n], n, l, f)
    BY HearsDoes
  <1>2. n \in Nat /\ link \in LinkFns
    BY Bounds, PeerTyped DEF Inv
  <1> HIDE DEF f
  <1>3. upTo(f, a) \in LinkRecord
    BY <1>1, EditFields
  <1>4. rest(p, n)[p][n] = f
    <2>1. Puts(rest(p, n), link, p, n, f)
      BY <1>1, <1>2, PutPuts
    <2> QED
      BY <2>1 DEF Puts
  <1>5. sendUp(rest(p, n), p, n, a) = put(rest(p, n), p, n, upTo(f, a))
    BY <1>1, <1>4, SendUpAt
  <1>6. put(rest(p, n), p, n, upTo(f, a)) = put(link, p, n, upTo(f, a))
    BY <1>1, <1>2, PutPut
  <1>7. Stirred(client[p], handler[p][n], n, l, upTo(f, a))
    BY <1>1, <1>2, StirUp
  <1> QED
    BY <1>3, <1>5, <1>6, <1>7 DEF f

(* The edits of a client's record that leave it where it is.               *)
LEMMA ClientEdits ==
    ASSUME NEW c \in ClientRecord
    PROVE  /\ Stays(c, c) /\ Stays(c, rendered(c))
           /\ Stays(c, [c EXCEPT !.token = TRUE])
           /\ Stays(c, [c EXCEPT !.awaiting = FALSE])
           /\ Stays(c, [c EXCEPT !.epoch = @ + 1])
           /\ Stays(c, [c EXCEPT !.role = flipped(@)])
  <1>1. /\ Stays(c, c) /\ Stays(c, [c EXCEPT !.token = TRUE])
        /\ Stays(c, [c EXCEPT !.awaiting = FALSE])
    BY DEF Stays, ClientRecord
  <1>2. Stays(c, rendered(c))
    BY <1>1 DEF rendered
  <1>3. Stays(c, [c EXCEPT !.epoch = @ + 1])
    BY DEF Stays, ClientRecord
  <1>4. Stays(c, [c EXCEPT !.role = flipped(@)])
    BY DEF Stays, ClientRecord, flipped
  <1> QED
    BY <1>1, <1>2, <1>3, <1>4

LEMMA StaysOn ==
    ASSUME NEW c, NEW d, NEW e, Stays(c, d), Stays(d, e)
    PROVE  Stays(c, e)
  BY DEF Stays

LEMMA RenderedEdits ==
    ASSUME NEW c \in ClientRecord
    PROVE  /\ Stays(c, [rendered(c) EXCEPT !.epoch = @ + 1])
           /\ Stays(c, [rendered(c) EXCEPT !.role = flipped(@)])
  <1> DEFINE r == rendered(c)
  <1>1. Stays(c, r) /\ r \in ClientRecord
    BY ClientEdits DEF Stays
  <1> HIDE DEF r
  <1>2. /\ Stays(r, [r EXCEPT !.epoch = @ + 1])
        /\ Stays(r, [r EXCEPT !.role = flipped(@)])
    BY <1>1, ClientEdits
  <1> QED
    BY <1>1, <1>2, StaysOn DEF r

(* The client of a step that only hears or sends is the one it was.        *)
LEMMA HearsOnly ==
    ASSUME Inv, NEW p \in Peers, NEW n \in Links, NEW m \in Messages,
           hears(p, n, m), m \notin Why \/ ~link[p][n].wired,
           NEW d, Stays(client[p], d), client' = [client EXCEPT ![p] = d],
           \/ link' = rest(p, n)
           \/ \E a \in Messages : /\ a # "end_session"
                                  /\ link' = sendUp(rest(p, n), p, n, a)
    PROVE  Inv'
  <1>1. CASE link' = rest(p, n)
    <2> DEFINE e == heard(link[p][n])
    <2>1. /\ e \in LinkRecord /\ link' = put(link, p, n, e)
          /\ Stirred(client[p], handler[p][n], n, link[p][n], e)
          /\ UNCHANGED relayVars
      BY <1>1, HearsDoes
    <2> HIDE DEF e
    <2> QED
      BY <2>1, MildStep
  <1>2. ASSUME NEW a \in Messages, a # "end_session",
               link' = sendUp(rest(p, n), p, n, a)
        PROVE  Inv'
    <2> DEFINE e == upTo(heard(link[p][n]), a)
    <2>1. /\ e \in LinkRecord /\ link' = put(link, p, n, e)
          /\ Stirred(client[p], handler[p][n], n, link[p][n], e)
      BY <1>2, AnswersDoes
    <2>2. UNCHANGED relayVars
      BY DEF hears
    <2> HIDE DEF e
    <2> QED
      BY <2>1, <2>2, MildStep
  <1> QED
    BY <1>1, <1>2

LEMMA SameClient ==
    ASSUME TypeOK, NEW p \in Peers
    PROVE  client = [client EXCEPT ![p] = client[p]]
  BY DEF TypeOK

LEMMA HearInv ==
    ASSUME Inv, NEW p \in Peers, NEW n \in Links,
           \/ HearUnwired(p, n) \/ HearPeerDisconnected(p, n)
           \/ HearPeerReconnected(p, n) \/ HearSwapRequest(p, n)
           \/ HearSwapResponse(p, n)
    PROVE  Inv'
  <1> DEFINE c == client[p]
             e == [rendered(c) EXCEPT !.epoch = @ + 1]
             f == [rendered(c) EXCEPT !.role = flipped(@)]
             g == [c EXCEPT !.awaiting = FALSE]
             becomes(d) == client' = [client EXCEPT ![p] = d]
  <1>1. /\ client = [client EXCEPT ![p] = c]
        /\ \A d \in {c, e, f, g} : Stays(c, d)
    <2>1. c \in ClientRecord /\ client = [client EXCEPT ![p] = c]
      BY PeerTyped, SameClient DEF Inv
    <2> QED
      BY <2>1, ClientEdits, RenderedEdits
  <1>2. /\ {"peer_reconnected", "peer_disconnected", "role_swap_request",
            "accepted", "rejected"} \subseteq Messages \ Why
        /\ "accepted" # "end_session" /\ "rejected" # "end_session"
        /\ "session_ended" \in Messages
    BY DEF Messages, Why
  <1>3. SUFFICES
        /\ \E d \in {c, e, f, g} : becomes(d)
        /\ \E m \in Messages :
              hears(p, n, m) /\ (m \notin Why \/ ~link[p][n].wired)
        /\ \/ link' = rest(p, n)
           \/ \E a \in Messages : /\ a # "end_session"
                                  /\ link' = sendUp(rest(p, n), p, n, a)
    <2>1. PICK d \in {c, e, f, g} : becomes(d)
      BY <1>3
    <2>2. Stays(client[p], d)
      BY <1>1
    <2> HIDE DEF e, f, g
    <2> QED
      BY <1>3, <2>1, <2>2, HearsOnly
  <1>4. CASE HearPeerDisconnected(p, n)
    <2>1. hears(p, n, "peer_disconnected") /\ link' = rest(p, n) /\ becomes(c)
      BY <1>1, <1>4 DEF HearPeerDisconnected, wiredHears
    <2> HIDE DEF e, f, g
    <2> QED
      BY <1>2, <2>1
  <1>5. CASE HearPeerReconnected(p, n)
    <2>1. hears(p, n, "peer_reconnected") /\ link' = rest(p, n) /\ becomes(e)
      BY <1>5 DEF HearPeerReconnected, wiredHears
    <2> HIDE DEF e, f, g, becomes
    <2> QED
      BY <1>2, <2>1
  <1>6. CASE HearSwapRequest(p, n)
    <2>1. /\ hears(p, n, "role_swap_request")
          /\ \/ link' = sendUp(rest(p, n), p, n, "accepted")
             \/ link' = sendUp(rest(p, n), p, n, "rejected")
          /\ becomes(f) \/ becomes(c)
      BY <1>1, <1>6 DEF HearSwapRequest, wiredHears
    <2> HIDE DEF e, f, g, becomes
    <2> QED
      BY <1>2, <2>1
  <1>7. CASE HearSwapResponse(p, n)
    <2>1. /\ hears(p, n, "accepted") \/ hears(p, n, "rejected")
          /\ link' = rest(p, n)
          /\ becomes(f) \/ becomes(g) \/ becomes(c)
      BY <1>1, <1>7 DEF HearSwapResponse, wiredHears
    <2> HIDE DEF e, f, g, becomes
    <2> QED
      BY <1>2, <2>1
  <1>8. CASE HearUnwired(p, n)
    <2>1. PICK m \in {"peer_reconnected", "peer_disconnected",
                      "session_ended", "role_swap_request", "accepted",
                      "rejected"} : hears(p, n, m)
      BY <1>8 DEF HearUnwired
    <2>2. link' = rest(p, n) /\ becomes(c) /\ ~link[p][n].wired
      BY <1>1, <1>8 DEF HearUnwired
    <2>3. m \in Messages
      BY <1>2, <2>1
    <2> HIDE DEF e, f, g, becomes
    <2> QED
      BY <2>1, <2>2, <2>3
  <1> QED
    BY <1>4, <1>5, <1>6, <1>7, <1>8
(* A message up the active socket, or the first one.                       *)
LEMMA SendsDoes ==
    ASSUME Inv, NEW p \in Peers, NEW n \in Links, n <= client[p].last,
           NEW a \in Messages, a # "end_session"
    PROVE  LET e == upTo(link[p][n], a) IN
           /\ e \in LinkRecord
           /\ sendUp(link, p, n, a) = put(link, p, n, e)
           /\ Stirred(client[p], handler[p][n], n, link[p][n], e)
  <1>1. /\ link[p][n] \in LinkRecord /\ link \in LinkFns /\ n \in Nat
        /\ client[p].last \in Nat
    BY PeerTyped, Bounds DEF Inv
  <1>2. Stirred(client[p], handler[p][n], n, link[p][n], link[p][n])
    BY Unstirred
  <1>3. upTo(link[p][n], a) \in LinkRecord
    BY <1>1, EditFields
  <1>4. sendUp(link, p, n, a) = put(link, p, n, upTo(link[p][n], a))
    BY <1>1, SendUpAt
  <1>5. Stirred(client[p], handler[p][n], n, link[p][n],
                upTo(link[p][n], a))
    BY <1>1, <1>2, StirUp
  <1> QED
    BY <1>3, <1>4, <1>5

LEMMA SnapDoes ==
    ASSUME Inv, NEW p \in Peers, NEW n \in Links, carries(link[p][n]),
           n + RECONNECT_MAX_ATTEMPTS <= MaxConns
    PROVE  LET e == [link[p][n] EXCEPT !.broken = TRUE] IN
           /\ e \in LinkRecord
           /\ [link EXCEPT ![p][n].broken = TRUE] = put(link, p, n, e)
           /\ Stirred(client[p], handler[p][n], n, link[p][n], e)
  <1> DEFINE l == link[p][n]
             e == [l EXCEPT !.broken = TRUE]
  <1>1. /\ l \in LinkRecord /\ link \in LinkFns /\ n \in Nat
        /\ client[p].last \in Nat
    BY PeerTyped, Bounds DEF Inv
  <1>2. Stirred(client[p], handler[p][n], n, l, l) /\ n <= client[p].last
    BY Unstirred DEF carries
  <1>3. /\ e \in LinkRecord /\ e.state = l.state /\ e.wired = l.wired
        /\ e.broken = TRUE /\ e.fin = l.fin /\ e.up = l.up /\ e.down = l.down
    BY <1>1 DEF LinkRecord
  <1>4. [link EXCEPT ![p][n].broken = TRUE] = put(link, p, n, e)
    BY DEF put
  <1> HIDE DEF e
  <1>5. ~(n > client[p].last)
    BY <1>1, <1>2
  <1>6. HearsWhy(client[p], e)
    BY <1>3 DEF HearsWhy
  <1>7. Stirred(client[p], handler[p][n], n, l, e)
    BY <1>2, <1>3, <1>5, <1>6 DEF Stirred, carries
  <1> QED
    BY <1>3, <1>4, <1>7 DEF e

LEMMA ActiveUsed ==
    ASSUME Inv, NEW p \in Peers
    PROVE  /\ client[p].active <= client[p].last
           /\ 1 <= client[p].last
  BY PeerTyped, Bounds DEF Inv, PeerOK, ClientOK

LEMMA MildInv ==
    ASSUME Inv, NEW p \in Peers,
           \/ DeriveToken(p) \/ RequestSwap(p) \/ SwapTimeout(p)
           \/ \E n \in Links : Break(p, n)
    PROVE  Inv'
  <1> DEFINE c == client[p]
  <1>1. /\ c \in ClientRecord /\ link \in LinkFns
        /\ client = [client EXCEPT ![p] = c] /\ Stays(c, c)
        /\ c.active \in Links \cup {None} /\ c.active <= c.last /\ 1 <= c.last
    BY PeerTyped, SameClient, ClientEdits, ActiveUsed DEF Inv
  <1>2. /\ 1 \in Links
        /\ link = put(link, p, 1, link[p][1])
        /\ Stirred(c, handler[p][1], 1, link[p][1], link[p][1])
        /\ link[p][1] \in LinkRecord
    BY <1>1, Bounds, PutSame, Unstirred, PeerTyped DEF Inv
  <1>3. {"reconnect_token", "role_swap_request"} \subseteq Messages
    BY DEF Messages
  <1>4. CASE DeriveToken(p)
    <2> DEFINE d == [c EXCEPT !.token = TRUE]
               e == upTo(link[p][1], "reconnect_token")
    <2>1. Stays(c, d)
      BY <1>1, ClientEdits
    <2>2. client' = [client EXCEPT ![p] = d] /\ UNCHANGED relayVars
          /\ link' = sendUp(link, p, 1, "reconnect_token")
      BY <1>4 DEF DeriveToken
    <2>3. /\ e \in LinkRecord /\ link' = put(link, p, 1, e)
          /\ Stirred(c, handler[p][1], 1, link[p][1], e)
      BY <1>1, <1>2, <1>3, <2>2, SendsDoes
    <2> HIDE DEF d, e
    <2> QED
      BY <1>2, <2>1, <2>2, <2>3, MildStep
  <1>5. CASE RequestSwap(p)
    <2> DEFINE r == [c EXCEPT !.awaiting = TRUE, !.asked = @ + 1]
               d == IF r.active = None THEN r ELSE [r EXCEPT !.timers = @ + 1]
    <2>1. Stays(c, d)
      <3>1. c.asked \in 0..MaxSwaps /\ c.asked < MaxSwaps /\ c.timers \in Nat
        BY <1>1, <1>5 DEF RequestSwap, ClientRecord
      <3>2. c.asked + 1 \in 0..MaxSwaps /\ c.timers + 1 \in Nat
        BY <3>1, ClientsAssumption DEF ClientsAssumption
      <3>3. Stays(c, r) /\ r.timers = c.timers
        BY <1>1, <3>2 DEF Stays, ClientRecord
      <3> HIDE DEF r
      <3>4. Stays(r, [r EXCEPT !.timers = @ + 1])
        BY <3>2, <3>3 DEF Stays, ClientRecord
      <3> QED
        BY <3>3, <3>4, StaysOn
    <2>2. /\ client' = [client EXCEPT ![p] = d] /\ UNCHANGED relayVars
          /\ link' = sendUp(link, p, c.active, "role_swap_request")
      <3>1. r.active = c.active
        BY <1>1 DEF ClientRecord
      <3> QED
        BY <1>5, <3>1 DEF RequestSwap
    <2>3. \E n \in Links, e \in LinkRecord :
             link' = put(link, p, n, e)
             /\ Stirred(c, handler[p][n], n, link[p][n], e)
      <3>1. CASE c.active = None
        BY <1>2, <2>2, <3>1 DEF sendUp
      <3>2. CASE c.active # None
        <4>1. PICK n \in Links : n = c.active
          BY <1>1, <3>2
        <4> QED
          BY <1>1, <1>3, <2>2, <4>1, SendsDoes
      <3> QED
        BY <3>1, <3>2
    <2> HIDE DEF d
    <2> QED
      BY <2>1, <2>2, <2>3, MildStep
  <1>6. CASE SwapTimeout(p)
    <2> DEFINE d == [c EXCEPT !.timers = @ - 1, !.awaiting = FALSE,
                              !.cut = c.cut \/ c.awaiting]
    <2>1. Stays(c, d)
      <3>1. c.timers \in Nat /\ c.timers > 0
        BY <1>1, <1>6 DEF SwapTimeout, ClientRecord
      <3>2. c.timers - 1 \in Nat
        BY <3>1
      <3>3. (c.cut \/ c.awaiting) \in BOOLEAN
        BY <1>1 DEF ClientRecord
      <3> QED
        BY <1>1, <3>2, <3>3 DEF Stays, ClientRecord
    <2>2. client' = [client EXCEPT ![p] = d] /\ UNCHANGED relayVars
          /\ link' = link
      BY <1>6 DEF SwapTimeout, relayVars
    <2> HIDE DEF d
    <2> QED
      BY <1>2, <2>1, <2>2, MildStep
  <1>7. ASSUME NEW n \in Links, Break(p, n) PROVE Inv'
    <2> DEFINE e == [link[p][n] EXCEPT !.broken = TRUE]
    <2>1. /\ carries(link[p][n]) /\ n + RECONNECT_MAX_ATTEMPTS <= MaxConns
          /\ link' = [link EXCEPT ![p][n].broken = TRUE]
          /\ client' = [client EXCEPT ![p] = c] /\ UNCHANGED relayVars
      BY <1>1, <1>7 DEF Break, relayVars
    <2>2. /\ e \in LinkRecord /\ link' = put(link, p, n, e)
          /\ Stirred(c, handler[p][n], n, link[p][n], e)
      BY <2>1, SnapDoes
    <2> HIDE DEF e
    <2> QED
      BY <1>1, <2>1, <2>2, MildStep
  <1> QED
    BY <1>4, <1>5, <1>6, <1>7

-----------------------------------------------------------------------------
(* Steps of the relay *)

HandlerStates == {"none", "first", "announce", "confirm", "serving", "gone"}
SlotRecords   == [conn : Links, connected : BOOLEAN, token : BOOLEAN]

(* A step of p's n-th handler, to g, with p's slot s and socket e, and what *)
(* it tells the other peer.                                                *)
RelayMove(p, n, g, s, e, L, m) ==
    LET q == other(p) IN
    /\ client' = client /\ session' \in BOOLEAN
    /\ g \in HandlerStates /\ handler' = [handler EXCEPT ![p][n] = g]
    /\ s \in SlotRecords /\ slot' = [slot EXCEPT ![p] = s]
    /\ s.conn = slot[p].conn \/ (s.conn = n /\ g \notin {"none", "first"})
    /\ e \in LinkRecord /\ link' \in LinkFns /\ link'[p][n] = e
    /\ \A k \in Links : k # n => link'[p][k] = link[p][k]
    /\ Stirred(client[p], g, n, link[p][n], e)
    /\ MovesOn(handler[p][n], g, n, e)
    /\ carries(link'[p][1]) => s.conn = 1 /\ s.connected
    /\ L \in LinkFns /\ m \in Messages
    /\ \A k \in Links : L[q][k] = link[q][k]
    /\ \/ \A k \in Links : link'[q][k] = link[q][k]
       \/ \A k \in Links : link'[q][k] = sendPeer(L, q, m)[q][k]
       \/ \A k \in Links : link'[q][k] = dismissed(L, q)[q][k]

LEMMA RelayStep ==
    ASSUME Inv, NEW p \in Peers, NEW n \in Links, NEW g, NEW s, NEW e,
           NEW L, NEW m, RelayMove(p, n, g, s, e, L, m)
    PROVE  Inv'
  <1> USE DEF RelayMove
  <1>1. /\ handler' \in [Peers -> [Links -> HandlerStates]]
        /\ handler'[p][n] = g
        /\ \A k \in Links : k # n => handler'[p][k] = handler[p][k]
        /\ \A q \in Peers : q # p => handler'[q] = handler[q]
    BY DEF Inv, TypeOK, HandlerStates
  <1>2. /\ slot' \in [Peers -> SlotRecords] /\ slot'[p] = s
        /\ \A q \in Peers : q # p => slot'[q] = slot[q]
    BY DEF Inv, TypeOK, SlotRecords
  <1>3. TypeOK'
    BY <1>1, <1>2 DEF Inv, TypeOK, LinkFns, HandlerStates, SlotRecords
  <1>4. PeerOK(p)'
    <2>1. ASSUME NEW k \in Links
          PROVE  /\ Stirred(client[p], handler'[p][k], k, link[p][k],
                            link'[p][k])
                 /\ MovesOn(handler[p][k], handler'[p][k], k, link'[p][k])
                 /\ handler'[p][k] \in {"none", "first"} => slot'[p].conn # k
      <3>1. CASE k = n
        <4>1. g \in {"none", "first"} => s.conn # n
          <5>1. g \in {"none", "first"} => g = handler[p][n]
            BY DEF MovesOn
          <5> QED
            BY <5>1, Unstirred
        <4> QED
          BY <1>1, <1>2, <3>1, <4>1
      <3>2. CASE k # n
        BY <1>1, <1>2, <3>2, Unstirred
      <3> QED
        BY <3>1, <3>2
    <2> QED
      BY <1>2, <2>1, StirredPeer
  <1>5. PeerOK(other(p))'
    BY <1>1, <1>2, TwoPeers, ToldPeer
  <1> QED
    BY <1>3, <1>4, <1>5, TwoPeers DEF Inv

(* The handler that acts is known to the client, and the first socket is   *)
(* served from the start.                                                  *)
LEMMA HandlerFacts ==
    ASSUME Inv, NEW p \in Peers, NEW n \in Links, handler[p][n] # "none"
    PROVE  /\ link \in LinkFns /\ link[p][n] \in LinkRecord
           /\ n \in Nat /\ client[p].last \in Nat /\ n <= client[p].last
           /\ Stirred(client[p], handler[p][n], n, link[p][n], link[p][n])
           /\ handler[p][n] \in HandlerStates
           /\ slot[p] \in SlotRecords /\ slot = [slot EXCEPT ![p] = slot[p]]
           /\ handler = [handler EXCEPT ![p][n] = handler[p][n]]
           /\ n = 1 => handler[p][n] \in {"serving", "gone"}
           /\ carries(link[p][1]) =>
                 slot[p].conn = 1 /\ slot[p].connected /\ n = 1
                 /\ handler[p][1] = "serving"
           /\ slot[p].conn \in Links
  <1>1. /\ link \in LinkFns /\ link[p][n] \in LinkRecord
        /\ n \in Nat /\ client[p].last \in Nat /\ slot[p].conn \in Links
        /\ slot[p] \in SlotRecords
    BY PeerTyped, Bounds DEF Inv, SlotRecords
  <1>2. /\ handler[p][n] \in HandlerStates
        /\ slot = [slot EXCEPT ![p] = slot[p]]
        /\ handler = [handler EXCEPT ![p][n] = handler[p][n]]
    BY DEF Inv, TypeOK, HandlerStates
  <1>3. /\ Stirred(client[p], handler[p][n], n, link[p][n], link[p][n])
        /\ n <= client[p].last
        /\ carries(link[p][1]) => slot[p].conn = 1 /\ slot[p].connected
    BY Unstirred
  <1>4. /\ SocketOK(client[p], link[p][1], handler[p][1], slot[p], 1)
        /\ SocketOK(client[p], link[p][n], handler[p][n], slot[p], n)
    BY Bounds DEF Inv, PeerOK
  <1>5. /\ n = 1 => handler[p][n] \in {"serving", "gone"}
        /\ carries(link[p][1]) =>
              client[p].last = 1 /\ handler[p][1] = "serving"
    BY <1>4 DEF SocketOK, carries
  <1>6. carries(link[p][1]) => n = 1
    BY <1>1, <1>3, <1>5, Bounds
  <1> QED
    BY <1>1, <1>2, <1>3, <1>5, <1>6

(* The handler has taken a message from its socket.                        *)
LEMMA ReadsDoes ==
    ASSUME Inv, NEW p \in Peers, NEW n \in Links, NEW m, NEW pc,
           pc # "none", reads(p, n, m, pc)
    PROVE  LET l == link[p][n] IN
           /\ handler[p][n] = pc
           /\ l.up \in Seq(Messages) /\ l.up # <<>> /\ Head(l.up) = m
           /\ taken(l) \in LinkRecord
           /\ unread(p, n) \in LinkFns
           /\ unread(p, n) = put(link, p, n, taken(l))
           /\ unread(p, n)[p][n] = taken(l)
           /\ \A q \in Peers, k \in Links :
                 q # p \/ k # n => unread(p, n)[q][k] = link[q][k]
           /\ Stirred(client[p], pc, n, l, taken(l))
  <1> DEFINE l == link[p][n]
  <1>1. /\ handler[p][n] = pc /\ l.up # <<>> /\ Head(l.up) = m
    BY DEF reads
  <1>2. /\ l \in LinkRecord /\ link \in LinkFns /\ n \in Nat
        /\ client[p].last \in Nat /\ n <= client[p].last
        /\ Stirred(client[p], pc, n, l, l)
    BY <1>1, HandlerFacts
  <1>3. l.up \in Seq(Messages)
    BY <1>2 DEF LinkRecord
  <1>4. taken(l) \in LinkRecord
    BY <1>1, <1>2, TakeFields
  <1>5. unread(p, n) = put(link, p, n, taken(l))
    BY <1>2, UnreadAt
  <1>6. /\ unread(p, n) \in LinkFns /\ unread(p, n)[p][n] = taken(l)
        /\ \A q \in Peers, k \in Links :
              q # p \/ k # n => unread(p, n)[q][k] = link[q][k]
    <2>1. Puts(unread(p, n), link, p, n, taken(l))
      BY <1>2, <1>4, <1>5, PutPuts
    <2> QED
      BY <2>1 DEF Puts
  <1>7. Stirred(client[p], pc, n, l, taken(l))
    BY <1>1, <1>2, StirTake
  <1> QED
    BY <1>1, <1>3, <1>4, <1>5, <1>6, <1>7

LEMMA StirredOn ==
    ASSUME NEW c, NEW h, NEW g, NEW n, NEW l, NEW e, Stirred(c, h, n, l, e),
           g \notin {"none", "first"}
    PROVE  Stirred(c, g, n, l, e)
  BY DEF Stirred

LEMMA RelayMessages ==
    {"peer_reconnected", "peer_disconnected", "session_ended", "reconnected",
     "error", "role_swap_request", "accepted", "rejected"} \subseteq Messages
  BY DEF Messages

LEMMA AnnounceInv ==
    ASSUME Inv, NEW p \in Peers, NEW n \in Links, Announce(p, n)
    PROVE  Inv'
  <1> DEFINE l == link[p][n]
             q == other(p)
             M == sendPeer(link, q, "peer_reconnected")
  <1>1. /\ handler[p][n] = "announce" /\ UNCHANGED client
        /\ handler' = [handler EXCEPT ![p][n] = "confirm"]
        /\ slot' = slot /\ session' = session /\ link' = M
    BY DEF Announce
  <1>2. /\ link \in LinkFns /\ l \in LinkRecord
        /\ Stirred(client[p], "announce", n, l, l)
        /\ slot[p] \in SlotRecords /\ slot = [slot EXCEPT ![p] = slot[p]]
        /\ n # 1 /\ ~carries(link[p][1])
    BY <1>1, HandlerFacts
  <1>3. /\ Stirred(client[p], "confirm", n, l, l)
        /\ MovesOn(handler[p][n], "confirm", n, l)
    BY <1>1, <1>2, StirredOn DEF MovesOn
  <1>4. /\ M \in LinkFns /\ \A k \in Links : M[p][k] = link[p][k]
    <2>1. q \in Peers /\ q # p /\ "peer_reconnected" \in Messages /\ TypeOK
      BY TwoPeers, RelayMessages DEF Inv
    <2> HIDE DEF q
    <2> QED
      BY <1>2, <2>1, PeerSends
  <1>5. "confirm" \in HandlerStates /\ session \in BOOLEAN /\ 1 \in Links
        /\ "peer_reconnected" \in Messages
    BY Bounds, RelayMessages DEF HandlerStates, Inv, TypeOK
  <1> HIDE DEF M
  <1>6. \A k \in Links :
           link'[q][k] = sendPeer(link, q, "peer_reconnected")[q][k]
    BY <1>1 DEF M
  <1>7. RelayMove(p, n, "confirm", slot[p], l, link, "peer_reconnected")
    BY <1>1, <1>2, <1>3, <1>4, <1>5, <1>6 DEF RelayMove
  <1> QED
    BY <1>7, RelayStep

LEMMA ConfirmInv ==
    ASSUME Inv, NEW p \in Peers, NEW n \in Links, Confirm(p, n)
    PROVE  Inv'
  <1> DEFINE l == link[p][n]
             q == other(p)
             M == sendDown(link, p, n, "reconnected")
             e == downTo(l, "reconnected")
  <1>1. /\ handler[p][n] = "confirm" /\ UNCHANGED client
        /\ handler' = [handler EXCEPT ![p][n] = "serving"]
        /\ slot' = slot /\ session' = session /\ link' = M
    BY DEF Confirm
  <1>2. /\ link \in LinkFns /\ l \in LinkRecord
        /\ Stirred(client[p], "confirm", n, l, l)
        /\ slot[p] \in SlotRecords /\ slot = [slot EXCEPT ![p] = slot[p]]
        /\ n # 1 /\ ~carries(link[p][1])
        /\ n \in Nat /\ client[p].last \in Nat /\ n <= client[p].last
    BY <1>1, HandlerFacts
  <1>3. "reconnected" \in Messages
    BY RelayMessages
  <1>4. e \in LinkRecord /\ Stirred(client[p], "serving", n, l, e)
    BY <1>2, <1>3, EditFields, StirDown, StirredOn
  <1>5. MovesOn(handler[p][n], "serving", n, e)
    BY <1>1, <1>2 DEF MovesOn
  <1>6. /\ M \in LinkFns /\ M[p][n] = e
        /\ \A r \in Peers, k \in Links : r # p \/ k # n => M[r][k] = link[r][k]
    BY <1>2, <1>3, DownAt
  <1>7. "serving" \in HandlerStates /\ session \in BOOLEAN /\ 1 \in Links
        /\ q \in Peers /\ q # p
    BY Bounds, TwoPeers DEF HandlerStates, Inv, TypeOK
  <1> HIDE DEF M, e
  <1>8. \A k \in Links : link'[q][k] = link[q][k]
    BY <1>1, <1>6, <1>7
  <1>9. RelayMove(p, n, "serving", slot[p], e, link, "reconnected")
    BY <1>1, <1>2, <1>3, <1>4, <1>5, <1>6, <1>7, <1>8 DEF RelayMove
  <1> QED
    BY <1>9, RelayStep

LEMMA ReadTokenInv ==
    ASSUME Inv, NEW p \in Peers, NEW n \in Links, ReadToken(p, n)
    PROVE  Inv'
  <1> DEFINE l == link[p][n]
             q == other(p)
             e == taken(l)
             s == [slot[p] EXCEPT !.token = TRUE]
  <1>1. /\ reads(p, n, "reconnect_token", "serving") /\ UNCHANGED client
        /\ handler' = handler /\ session' = session /\ link' = unread(p, n)
        /\ slot' = [slot EXCEPT ![p] = s]
    BY DEF ReadToken
  <1>2. /\ handler[p][n] = "serving" /\ e \in LinkRecord
        /\ unread(p, n) \in LinkFns /\ unread(p, n)[p][n] = e
        /\ \A r \in Peers, k \in Links :
              r # p \/ k # n => unread(p, n)[r][k] = link[r][k]
        /\ Stirred(client[p], "serving", n, l, e)
    BY <1>1, ReadsDoes
  <1>3. /\ link \in LinkFns /\ slot[p] \in SlotRecords
        /\ handler = [handler EXCEPT ![p][n] = "serving"]
        /\ carries(link[p][1]) =>
              slot[p].conn = 1 /\ slot[p].connected /\ n = 1
    BY <1>2, HandlerFacts
  <1>4. s \in SlotRecords /\ s.conn = slot[p].conn
        /\ s.connected = slot[p].connected
    BY <1>3 DEF SlotRecords
  <1>5. /\ "serving" \in HandlerStates /\ session \in BOOLEAN /\ 1 \in Links
        /\ q \in Peers /\ q # p /\ "error" \in Messages
    BY Bounds, TwoPeers, RelayMessages DEF HandlerStates, Inv, TypeOK
  <1> HIDE DEF s, e
  <1>6. carries(link'[p][1]) => s.conn = 1 /\ s.connected
    <2>1. carries(link'[p][1]) => carries(link[p][1])
      BY <1>1, <1>2, <1>5 DEF Stirred
    <2> QED
      BY <1>3, <1>4, <2>1
  <1>7. MovesOn(handler[p][n], "serving", n, e)
    BY <1>2 DEF MovesOn
  <1>8. \A k \in Links : link'[q][k] = link[q][k]
    BY <1>1, <1>2, <1>5
  <1>9. RelayMove(p, n, "serving", s, e, link, "error")
    BY <1>1, <1>2, <1>3, <1>4, <1>5, <1>6, <1>7, <1>8 DEF RelayMove
  <1> QED
    BY <1>9, RelayStep

LEMMA ReadRelayedInv ==
    ASSUME Inv, NEW p \in Peers, NEW n \in Links, ReadRelayed(p, n)
    PROVE  Inv'
  <1>1. PICK m \in {"role_swap_request", "accepted", "rejected"} :
           /\ reads(p, n, m, "serving")
           /\ link' = sendPeer(unread(p, n), other(p), m)
           /\ UNCHANGED <<client, relayVars>>
    BY DEF ReadRelayed
  <1> DEFINE l == link[p][n]
             q == other(p)
             e == taken(l)
             U == unread(p, n)
             M == sendPeer(U, q, m)
  <1>2. /\ handler[p][n] = "serving" /\ e \in LinkRecord
        /\ U \in LinkFns /\ U[p][n] = e
        /\ \A r \in Peers, k \in Links : r # p \/ k # n => U[r][k] = link[r][k]
        /\ Stirred(client[p], "serving", n, l, e)
    BY <1>1, ReadsDoes
  <1>3. /\ slot[p] \in SlotRecords /\ slot = [slot EXCEPT ![p] = slot[p]]
        /\ handler = [handler EXCEPT ![p][n] = "serving"]
        /\ carries(link[p][1]) => slot[p].conn = 1 /\ slot[p].connected
    BY <1>2, HandlerFacts
  <1>4. /\ "serving" \in HandlerStates /\ session \in BOOLEAN /\ 1 \in Links
        /\ q \in Peers /\ q # p /\ m \in Messages
    BY Bounds, TwoPeers, RelayMessages DEF HandlerStates, Inv, TypeOK
  <1> HIDE DEF U, e, q
  <1>5. M \in LinkFns /\ \A k \in Links : M[p][k] = U[p][k]
    BY <1>2, <1>4, PeerSends DEF Inv
  <1> HIDE DEF M
  <1>6. link' = M /\ \A k \in Links : link'[q][k] = sendPeer(U, q, m)[q][k]
    BY <1>1 DEF M, U, q
  <1>7. link'[p][n] = e /\ \A k \in Links : k # n => link'[p][k] = link[p][k]
    BY <1>2, <1>5, <1>6
  <1>8. carries(link'[p][1]) => slot[p].conn = 1 /\ slot[p].connected
    <2>1. carries(link'[p][1]) => carries(link[p][1])
      BY <1>2, <1>4, <1>7 DEF Stirred
    <2> QED
      BY <1>3, <2>1
  <1>9. MovesOn(handler[p][n], "serving", n, e)
    BY <1>2 DEF MovesOn
  <1>10. /\ UNCHANGED client /\ handler' = handler /\ slot' = slot
         /\ session' = session
    BY <1>1 DEF relayVars
  <1>11. \A k \in Links : U[q][k] = link[q][k]
    BY <1>2, <1>4
  <1>12. RelayMove(p, n, "serving", slot[p], e, U, m)
    BY <1>2, <1>3, <1>4, <1>5, <1>6, <1>7, <1>8, <1>9, <1>10, <1>11
       DEF RelayMove, q
  <1> QED
    BY <1>12, RelayStep
       DEF q

LEMMA ReadEndInv ==
    ASSUME Inv, NEW p \in Peers, NEW n \in Links, ReadEnd(p, n)
    PROVE  Inv'
  <1> DEFINE l == link[p][n]
             q == other(p)
             U == unread(p, n)
             D == dismissed(U, q)
             e == finished(taken(l))
  <1>1. /\ reads(p, n, "end_session", "serving")
        /\ link' = ended(D, p, n)
        /\ handler' = [handler EXCEPT ![p][n] = "gone"]
        /\ session' = FALSE /\ UNCHANGED client /\ slot' = slot
    BY DEF ReadEnd, ended
  <1>2. /\ handler[p][n] = "serving" /\ taken(l) \in LinkRecord
        /\ U \in LinkFns /\ U[p][n] = taken(l)
        /\ \A r \in Peers, k \in Links : r # p \/ k # n => U[r][k] = link[r][k]
        /\ Stirred(client[p], "serving", n, l, taken(l))
        /\ l.up \in Seq(Messages) /\ l.up # <<>> /\ Head(l.up) = "end_session"
    BY <1>1, ReadsDoes
  <1>3. /\ slot[p] \in SlotRecords /\ slot = [slot EXCEPT ![p] = slot[p]]
        /\ l \in LinkRecord /\ n \in Nat /\ client[p].last \in Nat
        /\ n <= client[p].last
        /\ carries(link[p][1]) => n = 1
    BY <1>2, HandlerFacts
  <1>4. /\ "gone" \in HandlerStates /\ FALSE \in BOOLEAN /\ 1 \in Links
        /\ q \in Peers /\ q # p
        /\ "session_ended" \in Messages
    BY Bounds, TwoPeers, RelayMessages DEF HandlerStates
  <1>5. client[p].screen # "paired"
    <2>1. Has(l.up, {"end_session"})
      BY <1>2, QueueTake
    <2> QED
      BY <2>1 DEF Inv, PeerOK, SocketOK
  <1> HIDE DEF U, q
  <1>6. /\ D \in LinkFns /\ \A k \in Links : D[p][k] = U[p][k]
    BY <1>2, <1>4, PeerSends DEF Inv
  <1>7. e \in LinkRecord /\ e.fin = TRUE
    BY <1>2, ShutFields
  <1> HIDE DEF D
  <1>8. /\ link' \in LinkFns /\ link'[p][n] = e
        /\ \A r \in Peers, k \in Links : r # p \/ k # n => link'[r][k] = D[r][k]
    <2>1. ended(D, p, n) = put(D, p, n, finished(D[p][n]))
      BY <1>6, EndedAt
    <2>2. finished(D[p][n]) = e
      BY <1>2, <1>6
    <2> QED
      <3>1. Puts(link', D, p, n, e)
        BY <1>1, <1>6, <1>7, <2>1, <2>2, PutPuts
      <3> QED
        BY <3>1 DEF Puts
  <1>9. Stirred(client[p], "gone", n, l, e)
    <2>1. "serving" \notin {"none", "first"} /\ "gone" \notin {"none", "first"}
      OBVIOUS
    <2>2. Stirred(client[p], "serving", n, l, e)
      BY <1>2, <1>3, <1>4, <1>5, <2>1, StirDown
    <2> QED
      BY <2>1, <2>2, StirredOn
  <1>10. MovesOn(handler[p][n], "gone", n, e)
    BY <1>2, <1>7 DEF MovesOn, carries
  <1> HIDE DEF e
  <1>11. \A k \in Links : k # n => link'[p][k] = link[p][k]
    BY <1>2, <1>6, <1>8
  <1>12. ~carries(link'[p][1])
    BY <1>3, <1>4, <1>7, <1>8, <1>11 DEF carries
  <1>13. /\ \A k \in Links : link'[q][k] = dismissed(U, q)[q][k]
         /\ \A k \in Links : U[q][k] = link[q][k]
    BY <1>2, <1>4, <1>8 DEF D
  <1>14. session' \in BOOLEAN /\ slot' = [slot EXCEPT ![p] = slot[p]]
         /\ handler' = [handler EXCEPT ![p][n] = "gone"] /\ UNCHANGED client
    BY <1>1, <1>3
  <1>15. U \in LinkFns /\ slot[p] \in SlotRecords
    BY <1>2, <1>3
  <1>16. RelayMove(p, n, "gone", slot[p], e, U, "session_ended")
    BY <1>4, <1>7, <1>8, <1>9, <1>10, <1>11, <1>12, <1>13, <1>14, <1>15
       DEF RelayMove, q
  <1> QED
    BY <1>16, RelayStep

LEMMA ReadReconnectInv ==
    ASSUME Inv, NEW p \in Peers, NEW n \in Links, ReadReconnect(p, n)
    PROVE  Inv'
  <1> DEFINE l == link[p][n]
             q == other(p)
             U == unread(p, n)
             e == taken(l)
  <1>1. reads(p, n, "reconnect", "first") /\ UNCHANGED client
        /\ session' = session
    BY DEF ReadReconnect
  <1>2. /\ handler[p][n] = "first" /\ e \in LinkRecord
        /\ U \in LinkFns /\ U[p][n] = e
        /\ \A r \in Peers, k \in Links : r # p \/ k # n => U[r][k] = link[r][k]
        /\ Stirred(client[p], "first", n, l, e)
    BY <1>1, ReadsDoes
  <1>3. /\ slot[p] \in SlotRecords /\ slot = [slot EXCEPT ![p] = slot[p]]
        /\ l \in LinkRecord /\ n \in Nat /\ client[p].last \in Nat
        /\ n <= client[p].last /\ n # 1 /\ ~carries(link[p][1])
        /\ link \in LinkFns
    BY <1>2, HandlerFacts
  <1>4. /\ {"gone", "announce"} \subseteq HandlerStates
        /\ session \in BOOLEAN /\ 1 \in Links
        /\ q \in Peers /\ q # p /\ "error" \in Messages /\ "error" \in Why
    BY Bounds, TwoPeers, RelayMessages DEF HandlerStates, Why, Inv, TypeOK
  <1>5. /\ Stirred(client[p], "announce", n, l, e)
        /\ Stirred(client[p], "gone", n, l, e)
    BY <1>2, StirredOn
  <1>6. \A f : /\ MovesOn(handler[p][n], "announce", n, f)
               /\ MovesOn(handler[p][n], "gone", n, f)
    BY <1>2, <1>3 DEF MovesOn
  <1> HIDE DEF U, e, q
  <1>7. ASSUME slot' = [slot EXCEPT ![p].conn = n, ![p].connected = TRUE],
               handler' = [handler EXCEPT ![p][n] = "announce"], link' = U
        PROVE  Inv'
    <2> DEFINE s == [slot[p] EXCEPT !.conn = n, !.connected = TRUE]
    <2>1. s \in SlotRecords /\ s.conn = n /\ slot' = [slot EXCEPT ![p] = s]
      BY <1>3, <1>7 DEF SlotRecords
    <2> HIDE DEF s
    <2>2. /\ \A k \in Links : k # n => link'[p][k] = link[p][k]
          /\ \A k \in Links : link'[q][k] = link[q][k]
          /\ link' \in LinkFns /\ link'[p][n] = e
      BY <1>2, <1>4, <1>7
    <2>3. ~carries(link'[p][1])
      BY <1>3, <1>4, <2>2
    <2>4. /\ session' \in BOOLEAN /\ UNCHANGED client
          /\ link \in LinkFns /\ e \in LinkRecord
          /\ "announce" \notin {"none", "first"}
      BY <1>1, <1>2, <1>3, <1>4
    <2>5. MovesOn(handler[p][n], "announce", n, e)
      BY <1>6
    <2>6. RelayMove(p, n, "announce", s, e, link, "error")
      BY <1>4, <1>5, <1>7, <2>1, <2>2, <2>3, <2>4, <2>5 DEF RelayMove, q
    <2> QED
      BY <2>6, RelayStep
  <1>8. ASSUME handler' = [handler EXCEPT ![p][n] = "gone"], slot' = slot,
               link' = ended(sendDown(U, p, n, "error"), p, n)
        PROVE  Inv'
    <2> DEFINE f == finished(downTo(e, "error"))
    <2>1. f \in LinkRecord
      BY <1>2, <1>4, EditFields, ShutFields
    <2>2. Stirred(client[p], "gone", n, l, f)
      BY <1>2, <1>3, <1>4, <1>5, StirDown
    <2>3. /\ link' \in LinkFns /\ link'[p][n] = f
          /\ \A r \in Peers, k \in Links :
                r # p \/ k # n => link'[r][k] = U[r][k]
      <3>1. /\ ended(sendDown(U, p, n, "error"), p, n) \in LinkFns
            /\ ended(sendDown(U, p, n, "error"), p, n)[p][n] = f
            /\ \A r \in Peers, k \in Links : r # p \/ k # n =>
                  ended(sendDown(U, p, n, "error"), p, n)[r][k] = U[r][k]
        BY <1>2, <1>4, DownAt
      <3> HIDE DEF f
      <3> QED
        BY <1>8, <3>1
    <2> HIDE DEF f
    <2>4. /\ \A k \in Links : k # n => link'[p][k] = link[p][k]
          /\ \A k \in Links : link'[q][k] = link[q][k]
      BY <1>2, <1>4, <2>3
    <2>5. ~carries(link'[p][1])
      BY <1>3, <1>4, <2>4
    <2>6. RelayMove(p, n, "gone", slot[p], f, link, "error")
      BY <1>1, <1>2, <1>3, <1>4, <1>6, <1>8, <2>1, <2>2, <2>3, <2>4, <2>5
         DEF RelayMove, q
    <2> QED
      BY <2>6, RelayStep
  <1> QED
    BY <1>7, <1>8 DEF ReadReconnect, U, ended

LEMMA HandleDisconnectInv ==
    ASSUME Inv, NEW p \in Peers, NEW n \in Links, HandleDisconnect(p, n)
    PROVE  Inv'
  <1> DEFINE l == link[p][n]
             q == other(p)
             s == [slot[p] EXCEPT !.connected = FALSE]
             M == sendPeer(link, q, "peer_disconnected")
  <1>1. /\ l.broken \/ l.fin \/ l.state = "closed"
        /\ handler[p][n] \in {"first", "serving"}
        /\ handler' = [handler EXCEPT ![p][n] = "gone"]
        /\ UNCHANGED client /\ session' = session
        /\ \/ slot' = [slot EXCEPT ![p] = s] /\ link' = M
           \/ slot' = slot /\ link' = link
    BY DEF HandleDisconnect
  <1>2. /\ link \in LinkFns /\ l \in LinkRecord
        /\ Stirred(client[p], handler[p][n], n, l, l)
        /\ slot[p] \in SlotRecords /\ slot = [slot EXCEPT ![p] = slot[p]]
        /\ carries(link[p][1]) => n = 1
        /\ n = 1 => handler[p][n] = "serving"
    BY <1>1, HandlerFacts
  <1>3. ~carries(l) /\ ~carries(link[p][1])
    BY <1>1, <1>2 DEF carries
  <1>4. /\ Stirred(client[p], "gone", n, l, l)
        /\ MovesOn(handler[p][n], "gone", n, l)
    BY <1>1, <1>2, <1>3, StirredOn DEF MovesOn
  <1>5. s \in SlotRecords /\ s.conn = slot[p].conn
    BY <1>2 DEF SlotRecords
  <1>6. /\ "gone" \in HandlerStates /\ session \in BOOLEAN /\ 1 \in Links
        /\ q \in Peers /\ q # p /\ "peer_disconnected" \in Messages
    BY Bounds, TwoPeers, RelayMessages DEF HandlerStates, Inv, TypeOK
  <1> HIDE DEF q, s
  <1>7. M \in LinkFns /\ \A k \in Links : M[p][k] = link[p][k]
    BY <1>2, <1>6, PeerSends DEF Inv
  <1> HIDE DEF M
  <1>8. CASE slot' = [slot EXCEPT ![p] = s] /\ link' = M
    <2>1. \A k \in Links :
             link'[q][k] = sendPeer(link, q, "peer_disconnected")[q][k]
      BY <1>8 DEF M
    <2>2. RelayMove(p, n, "gone", s, l, link, "peer_disconnected")
      BY <1>1, <1>2, <1>3, <1>4, <1>5, <1>6, <1>7, <1>8, <2>1
         DEF RelayMove, q
    <2> QED
      BY <2>2, RelayStep
  <1>9. CASE slot' = slot /\ link' = link
    <2>1. RelayMove(p, n, "gone", slot[p], l, link, "peer_disconnected")
      BY <1>1, <1>2, <1>3, <1>4, <1>6, <1>9 DEF RelayMove, q
    <2> QED
      BY <2>1, RelayStep
  <1> QED
    BY <1>1, <1>8, <1>9

LEMMA ReapInv ==
    ASSUME Inv, Reap
    PROVE  Inv'
  <1> DEFINE H == dismissed(link, "host")
             G == dismissed(H, "guest")
  <1>1. /\ link' = G /\ session' = FALSE
        /\ UNCHANGED <<client, handler, slot>>
    BY DEF Reap
  <1>2. /\ "host" \in Peers /\ "guest" \in Peers /\ "session_ended" \in Messages
        /\ \A p \in Peers : p = "host" \/ p = "guest"
    BY RelayMessages DEF Peers
  <1>3. link \in LinkFns
    BY <1>2, PeerTyped DEF Inv
  <1>4. H \in LinkFns /\ \A k \in Links : H["guest"][k] = link["guest"][k]
    BY <1>2, <1>3, PeerSends DEF Inv
  <1> HIDE DEF H
  <1>5. G \in LinkFns /\ \A k \in Links : G["host"][k] = H["host"][k]
    BY <1>2, <1>4, PeerSends DEF Inv
  <1>6. TypeOK'
    BY <1>1, <1>5 DEF Inv, TypeOK, LinkFns
  <1> HIDE DEF G
  <1>7. PeerOK("host")'
    <2>1. \A k \in Links : link'["host"][k] = dismissed(link, "host")["host"][k]
      BY <1>1, <1>5 DEF H
    <2> QED
      BY <1>1, <1>2, <1>3, <2>1, ToldPeer
  <1>8. PeerOK("guest")'
    <2>1. \A k \in Links : link'["guest"][k] = dismissed(H, "guest")["guest"][k]
      BY <1>1 DEF G
    <2> QED
      BY <1>1, <1>2, <1>4, <2>1, ToldPeer
  <1> QED
    BY <1>2, <1>6, <1>7, <1>8 DEF Inv

-----------------------------------------------------------------------------
(* Steps that move a client *)

LEMMA OwnStep ==
    ASSUME Inv, NEW p \in Peers, NEW d \in ClientRecord,
           client' = [client EXCEPT ![p] = d],
           link' \in LinkFns,
           \A q \in Peers, k \in Links : q # p => link'[q][k] = link[q][k],
           handler' \in [Peers -> [Links -> HandlerStates]],
           \A q \in Peers : q # p => handler'[q] = handler[q],
           slot' = slot, session' = session,
           ClientOK(d, link'[p][d.last]),
           \A k \in Links :
              SocketOK(d, link'[p][k], handler'[p][k], slot[p], k)
    PROVE  Inv'
  <1>1. /\ client' \in [Peers -> ClientRecord] /\ client'[p] = d
        /\ \A q \in Peers : q # p => client'[q] = client[q]
    BY OneClient DEF Inv
  <1>2. TypeOK'
    BY <1>1 DEF Inv, TypeOK, LinkFns, HandlerStates
  <1>3. PeerOK(p)'
    BY <1>1 DEF PeerOK
  <1>4. ASSUME NEW q \in Peers, q # p PROVE PeerOK(q)'
    <2>1. /\ \A k \in Links : link'[q][k] = link[q][k]
          /\ client'[q] = client[q] /\ handler'[q] = handler[q]
          /\ slot'[q] = slot[q]
      BY <1>1, <1>4
    <2>2. link \in LinkFns /\ "error" \in Messages
      BY PeerTyped, RelayMessages DEF Inv
    <2> QED
      BY <2>1, <2>2, ToldPeer
  <1> QED
    BY <1>2, <1>3, <1>4 DEF Inv

(* A socket that stays, while the client's screen may change.              *)
LEMMA SocketStays ==
    ASSUME NEW c, NEW d, NEW l, NEW h, NEW s, NEW k,
           SocketOK(c, l, h, s, k), d.last = c.last,
           d.screen = "paired" => c.screen = "paired",
           k = 1 /\ l.state = "open" => d.active = 1 /\ d.screen = "paired"
    PROVE  SocketOK(d, l, h, s, k)
  <1>1. HearsWhy(d, l)
    BY DEF SocketOK, HearsWhy
  <1> QED
    BY <1>1 DEF SocketOK

(* A socket that is closed.                                                *)
LEMMA SocketCloses ==
    ASSUME NEW c, NEW d, NEW l \in LinkRecord, NEW h, NEW s, NEW k \in Nat,
           SocketOK(c, l, h, s, k), d.last \in Nat, k <= d.last,
           d.screen = "paired" => c.screen = "paired"
    PROVE  SocketOK(d, shut(l), h, s, k)
  <1> DEFINE e == shut(l)
  <1>1. /\ e.state = "closed" /\ e.down = <<>> /\ e.up = l.up
        /\ e.broken = l.broken
    BY ShutFields
  <1> HIDE DEF e
  <1>2. ~(k > d.last)
    OBVIOUS
  <1>3. HearsWhy(d, e)
    BY <1>1 DEF HearsWhy
  <1> QED
    BY <1>1, <1>2, <1>3 DEF SocketOK, carries, e

LEMMA RetryClient ==
    ASSUME NEW c \in ClientRecord, NEW l, NEW e, ClientOK(c, l),
           c.screen = "paired", l.state \in {"opening", "open"},
           l.state = "opening" \/ ~l.wired, e.state = "closed"
    PROVE  /\ retry(c) \in ClientRecord /\ retry(c).last = c.last
           /\ retry(c).active = c.active /\ c.active = None
           /\ ClientOK(retry(c), e)
  <1>1. /\ c.active = None /\ ~c.sleeping
        /\ c.last + RECONNECT_MAX_ATTEMPTS - c.attempt <= MaxConns
        /\ c.active <= c.last
    BY DEF ClientOK
  <1>2. /\ c.attempt \in Nat /\ RECONNECT_MAX_ATTEMPTS \in Nat
        /\ c.attempt <= RECONNECT_MAX_ATTEMPTS
    BY Bounds DEF ClientRecord
  <1>3. CASE c.attempt >= RECONNECT_MAX_ATTEMPTS
    <2> DEFINE d == [c EXCEPT !.screen = "error"]
    <2>1. retry(c) = d
      BY <1>3 DEF retry
    <2>2. /\ d \in ClientRecord /\ d.last = c.last /\ d.active = c.active
          /\ d.screen = "error"
      BY DEF ClientRecord
    <2> HIDE DEF d
    <2>3. ClientOK(d, e)
      BY <1>1, <2>2 DEF ClientOK
    <2> QED
      BY <1>1, <2>1, <2>2, <2>3
  <1>4. CASE ~(c.attempt >= RECONNECT_MAX_ATTEMPTS)
    <2> DEFINE d == [c EXCEPT !.sleeping = TRUE]
    <2>1. retry(c) = d
      BY <1>4 DEF retry
    <2>2. /\ d \in ClientRecord /\ d.last = c.last /\ d.active = c.active
          /\ d.sleeping = TRUE /\ d.attempt = c.attempt
      BY DEF ClientRecord
    <2> HIDE DEF d
    <2>3. c.attempt < RECONNECT_MAX_ATTEMPTS
      BY <1>2, <1>4
    <2>4. ClientOK(d, e)
      BY <1>1, <2>2, <2>3 DEF ClientOK
    <2> QED
      BY <1>1, <2>1, <2>2, <2>4
  <1> QED
    BY <1>3, <1>4

(* The socket that is in use is the latest one.                            *)
LEMMA InUse ==
    ASSUME Inv, NEW p \in Peers, NEW n \in Links,
           link[p][n].state \in {"opening", "open"}
    PROVE  /\ n = client[p].last
           /\ \A k \in Links : k # n =>
                 link[p][k].state \notin {"opening", "open"}
           /\ ClientOK(client[p], link[p][n])
           /\ \A k \in Links :
                 SocketOK(client[p], link[p][k], handler[p][k], slot[p], k)
           /\ handler \in [Peers -> [Links -> HandlerStates]]
           /\ link \in LinkFns /\ link[p][n] \in LinkRecord
           /\ client[p] \in ClientRecord /\ n \in Nat
  <1>1. /\ \A k \in Links :
              SocketOK(client[p], link[p][k], handler[p][k], slot[p], k)
        /\ ClientOK(client[p], link[p][client[p].last])
    BY DEF Inv, PeerOK
  <1>2. \A k \in Links : link[p][k].state \in {"opening", "open"} =>
           k = client[p].last
    BY <1>1 DEF SocketOK
  <1>3. handler \in [Peers -> [Links -> HandlerStates]]
    BY DEF Inv, TypeOK, HandlerStates
  <1>4. /\ link \in LinkFns /\ link[p][n] \in LinkRecord
        /\ client[p] \in ClientRecord /\ n \in Nat
    BY PeerTyped, Bounds DEF Inv
  <1> QED
    BY <1>1, <1>2, <1>3, <1>4

(* The latest socket is closed, and the client is d now.                   *)
LEMMA ClosingStep ==
    ASSUME Inv, NEW p \in Peers, NEW n \in Links,
           link[p][n].state \in {"opening", "open"},
           link' = closeSocket(link, p, n), UNCHANGED relayVars,
           NEW d \in ClientRecord, client' = [client EXCEPT ![p] = d],
           d.last = client[p].last,
           d.screen = "paired" => client[p].screen = "paired",
           \A e : e.state = "closed" => ClientOK(d, e)
    PROVE  Inv'
  <1> DEFINE l == link[p][n]
  <1>1. /\ n = client[p].last
        /\ \A k \in Links : k # n =>
              link[p][k].state \notin {"opening", "open"}
        /\ \A k \in Links :
              SocketOK(client[p], link[p][k], handler[p][k], slot[p], k)
        /\ handler \in [Peers -> [Links -> HandlerStates]]
        /\ link \in LinkFns /\ l \in LinkRecord /\ n \in Nat
    BY InUse
  <1>2. shut(l) \in LinkRecord /\ shut(l).state = "closed"
    BY <1>1, ShutFields
  <1>3. link' = put(link, p, n, shut(l))
    BY <1>1, CloseAt
  <1>4. /\ link' \in LinkFns /\ link'[p][n] = shut(l)
        /\ \A q \in Peers, k \in Links :
              q # p \/ k # n => link'[q][k] = link[q][k]
    <2>1. Puts(link', link, p, n, shut(l))
      BY <1>1, <1>2, <1>3, PutPuts
    <2> QED
      BY <2>1 DEF Puts
  <1>5. SocketOK(d, shut(l), handler[p][n], slot[p], n)
    BY <1>1, SocketCloses
  <1>6. ASSUME NEW k \in Links
        PROVE  SocketOK(d, link'[p][k], handler[p][k], slot[p], k)
    <2>1. CASE k = n
      BY <1>4, <1>5, <2>1
    <2>2. CASE k # n
      <3>1. link'[p][k] = link[p][k] /\ link[p][k].state # "open"
        BY <1>1, <1>4, <2>2
      <3> QED
        BY <1>1, <3>1, SocketStays
    <2> QED
      BY <2>1, <2>2
  <1>7. ClientOK(d, link'[p][d.last])
    BY <1>1, <1>2, <1>4
  <1>8. handler' = handler /\ slot' = slot /\ session' = session
    BY DEF relayVars
  <1>9. /\ \A q \in Peers, k \in Links : q # p => link'[q][k] = link[q][k]
        /\ handler' \in [Peers -> [Links -> HandlerStates]]
        /\ \A q \in Peers : q # p => handler'[q] = handler[q]
        /\ \A k \in Links :
              SocketOK(d, link'[p][k], handler'[p][k], slot[p], k)
    BY <1>1, <1>4, <1>6, <1>8
  <1> QED
    BY <1>4, <1>7, <1>8, <1>9, OwnStep

LEMMA OpensInv ==
    ASSUME Inv, NEW p \in Peers, NEW n \in Links, Opens(p, n)
    PROVE  Inv'
  <1> DEFINE l == link[p][n]
             c == client[p]
             e == [l EXCEPT !.state = "open", !.up = <<"reconnect">>]
  <1>1. /\ l.state = "opening"
        /\ link' = [link EXCEPT ![p][n].state = "open",
                                ![p][n].up = <<"reconnect">>]
        /\ handler' = [handler EXCEPT ![p][n] = "first"]
        /\ client' = client /\ slot' = slot /\ session' = session
    BY DEF Opens
  <1>2. /\ n = c.last /\ ClientOK(c, l)
        /\ \A k \in Links : SocketOK(c, link[p][k], handler[p][k], slot[p], k)
        /\ handler \in [Peers -> [Links -> HandlerStates]]
        /\ link \in LinkFns /\ l \in LinkRecord /\ c \in ClientRecord
        /\ n \in Nat
    BY <1>1, InUse
  <1>3. SocketOK(c, l, handler[p][n], slot[p], n)
    BY <1>2
  <1>4. handler[p][n] = "none" /\ l.down = <<>> /\ slot[p].conn # n /\ n # 1
    BY <1>1, <1>3 DEF SocketOK
  <1>5. <<"reconnect">> \in Seq(Messages) /\ ~Has(<<"reconnect">>, {"end_session"})
    <2>1. "reconnect" \in Messages /\ "reconnect" # "end_session"
      BY DEF Messages
    <2> DEFINE m == "reconnect"
               S == {"end_session"}
    <2>2. m \in Messages /\ m \notin S
      BY <2>1
    <2> HIDE DEF m, S
    <2>3. Len(<<m>>) = 1 /\ <<m>>[1] = m /\ <<m>> \in Seq(Messages)
      BY <2>2
    <2>4. ~Has(<<m>>, S)
      BY <2>2, <2>3 DEF Has
    <2> QED
      BY <2>3, <2>4 DEF m, S
  <1> DEFINE u == <<"reconnect">>
  <1>6. /\ e \in LinkRecord /\ e.state = "open" /\ e.up = u
        /\ e.down = l.down /\ e.broken = l.broken /\ e.fin = l.fin
        /\ e.wired = l.wired
    <2>1. u \in Seq(Messages) /\ e = [l EXCEPT !.state = "open", !.up = u]
      BY <1>5
    <2> HIDE DEF u
    <2> QED
      BY <1>2, <2>1 DEF LinkRecord
  <1>7. link' = put(link, p, n, e)
    BY <1>1, <1>2 DEF put, LinkFns
  <1> HIDE DEF e, u
  <1>8. /\ link' \in LinkFns /\ link'[p][n] = e
        /\ \A q \in Peers, k \in Links :
              q # p \/ k # n => link'[q][k] = link[q][k]
    <2>1. Puts(link', link, p, n, e)
      BY <1>2, <1>6, <1>7, PutPuts
    <2> QED
      BY <2>1 DEF Puts
  <1>9. /\ handler' \in [Peers -> [Links -> HandlerStates]]
        /\ handler'[p][n] = "first"
        /\ \A k \in Links : k # n => handler'[p][k] = handler[p][k]
        /\ \A q \in Peers : q # p => handler'[q] = handler[q]
    BY <1>1, <1>2 DEF HandlerStates
  <1>10. ClientOK(c, e)
    BY <1>1, <1>2, <1>6 DEF ClientOK
  <1>11. SocketOK(c, e, "first", slot[p], n)
    <2>1. c.screen = "paired" => ~e.wired
      BY <1>1, <1>2, <1>6 DEF ClientOK
    <2>2. HearsWhy(c, e)
      BY <1>4, <1>6, <2>1 DEF HearsWhy
    <2>3. ~Has(e.up, {"end_session"})
      BY <1>5, <1>6 DEF u
    <2>4. ~(n > c.last)
      BY <1>2
    <2> QED
      BY <1>2, <1>3, <1>4, <1>6, <2>2, <2>3, <2>4 DEF SocketOK
  <1>12. ASSUME NEW k \in Links
         PROVE  SocketOK(c, link'[p][k], handler'[p][k], slot[p], k)
    <2>1. CASE k = n
      BY <1>8, <1>9, <1>11, <2>1
    <2>2. CASE k # n
      BY <1>2, <1>8, <1>9, <2>2
    <2> QED
      BY <2>1, <2>2
  <1>13. client' = [client EXCEPT ![p] = c] /\ ClientOK(c, link'[p][c.last])
    BY <1>1, <1>2, <1>8, <1>10, SameClient DEF Inv
  <1>14. \A q \in Peers, k \in Links : q # p => link'[q][k] = link[q][k]
    BY <1>8
  <1>15. c \in ClientRecord /\ slot' = slot /\ session' = session
         /\ link' \in LinkFns
    BY <1>1, <1>2, <1>8
  <1> HIDE DEF c
  <1> QED
    BY <1>9, <1>12, <1>13, <1>14, <1>15, OwnStep

LEMMA ConnectFailsInv ==
    ASSUME Inv, NEW p \in Peers, NEW n \in Links, ConnectFails(p, n)
    PROVE  Inv'
  <1> DEFINE c == client[p]
  <1>1. /\ link[p][n].state = "opening" /\ link' = closeSocket(link, p, n)
        /\ UNCHANGED relayVars
    BY DEF ConnectFails
  <1>2. /\ ClientOK(c, link[p][n]) /\ c \in ClientRecord
    BY <1>1, InUse
  <1>3. CASE c.screen = "paired"
    <2>1. client' = [client EXCEPT ![p] = retry(c)]
      BY <1>3 DEF ConnectFails
    <2>2. /\ retry(c) \in ClientRecord /\ retry(c).last = c.last
          /\ \A e : e.state = "closed" => ClientOK(retry(c), e)
      <3>1. PICK e0 : e0 = [state |-> "closed"]
        OBVIOUS
      <3>2. e0.state = "closed"
        BY <3>1
      <3> QED
        BY <1>1, <1>2, <1>3, <3>2, RetryClient
    <2> QED
      BY <1>1, <1>3, <2>1, <2>2, ClosingStep
  <1>4. CASE c.screen # "paired"
    <2>1. client' = [client EXCEPT ![p] = c]
      BY <1>4, SameClient DEF ConnectFails, Inv
    <2>2. \A e : ClientOK(c, e)
      BY <1>2, <1>4 DEF ClientOK
    <2> QED
      BY <1>1, <1>2, <1>4, <2>1, <2>2, ClosingStep
  <1> QED
    BY <1>3, <1>4

(* An attempt to reconnect, or the end of the attempts.                    *)
LEMMA AttemptStep ==
    ASSUME Inv, NEW p \in Peers, NEW L \in LinkFns,
           \A q \in Peers, k \in Links : q # p => L[q][k] = link[q][k],
           NEW c \in ClientRecord, c.last = client[p].last,
           c.active = None, c.screen = "paired", ~c.sleeping,
           \A k \in Links : /\ L[p][k].state \notin {"opening", "open"}
                            /\ SocketOK(c, L[p][k], handler[p][k], slot[p], k),
           NEW a \in 0..RECONNECT_MAX_ATTEMPTS,
           c.last + 1 \in Links,
           c.last + 1 + RECONNECT_MAX_ATTEMPTS - a <= MaxConns,
           attemptReconnect(p, c, a, L), UNCHANGED relayVars
    PROVE  Inv'
  <1>1. /\ handler \in [Peers -> [Links -> HandlerStates]]
        /\ handler' = handler /\ slot' = slot /\ session' = session
        /\ c.last \in Links /\ c.last \in Nat /\ None <= c.last
    <2>1. c.last \in Links
      BY DEF ClientRecord
    <2>2. c.last \in Nat /\ None <= c.last
      <3>1. \A x \in Links : x \in Nat /\ 0 <= x
        BY Bounds
      <3> QED
        BY <2>1, <3>1 DEF None
    <2>3. handler \in [Peers -> [Links -> HandlerStates]]
      BY DEF Inv, TypeOK, HandlerStates
    <2> QED
      BY <2>1, <2>2, <2>3 DEF relayVars
  <1>2. CASE ~c.token
    <2> DEFINE d == [c EXCEPT !.screen = "error"]
    <2>1. client' = [client EXCEPT ![p] = d] /\ link' = L
      BY <1>2 DEF attemptReconnect
    <2>2. /\ d \in ClientRecord /\ d.last = c.last /\ d.active = None
          /\ d.screen = "error"
      BY DEF ClientRecord
    <2> HIDE DEF d
    <2>3. \A k \in Links :
             SocketOK(d, link'[p][k], handler'[p][k], slot[p], k)
      BY <1>1, <2>1, <2>2, SocketStays
    <2>4. ClientOK(d, link'[p][d.last])
      BY <1>1, <2>2 DEF ClientOK
    <2>5. /\ link' \in LinkFns
          /\ \A q \in Peers, k \in Links : q # p => link'[q][k] = link[q][k]
      BY <2>1
    <2>6. /\ handler' \in [Peers -> [Links -> HandlerStates]]
          /\ \A q \in Peers : q # p => handler'[q] = handler[q]
      BY <1>1
    <2> QED
      BY <1>1, <2>1, <2>2, <2>3, <2>4, <2>5, <2>6, OwnStep
  <1>3. CASE c.token
    <2> DEFINE n == c.last + 1
               d == [c EXCEPT !.last = n, !.attempt = a]
               e == [L[p][n] EXCEPT !.state = "opening"]
    <2>1. /\ client' = [client EXCEPT ![p] = d]
          /\ link' = [L EXCEPT ![p][n].state = "opening"]
      BY <1>3 DEF attemptReconnect
    <2>2. /\ d \in ClientRecord /\ d.last = n /\ d.active = None
          /\ d.screen = "paired" /\ d.attempt = a /\ ~d.sleeping
      BY DEF ClientRecord
    <2>3. n \in Links /\ n \in Nat /\ n > c.last /\ n # 1
      BY <1>1, Bounds
    <2>4. /\ L[p][n] = Unused /\ handler[p][n] = "none"
          /\ slot[p].conn # n /\ L[p][n] \in LinkRecord
      BY <2>3 DEF SocketOK, LinkFns
    <2>5. /\ e.state = "opening" /\ e.down = <<>> /\ e.up = <<>>
          /\ e.broken = FALSE /\ e.fin = FALSE /\ e.wired = FALSE
      BY <2>4 DEF Unused
    <2>6. e \in LinkRecord
      BY <2>4 DEF LinkRecord
    <2>7. link' = put(L, p, n, e)
      BY <2>1 DEF put
    <2> HIDE DEF d, e, n
    <2>8. /\ link' \in LinkFns /\ link'[p][n] = e
          /\ \A q \in Peers, k \in Links :
                q # p \/ k # n => link'[q][k] = L[q][k]
      <3>1. Puts(link', L, p, n, e)
        BY <2>3, <2>6, <2>7, PutPuts
      <3> QED
        BY <3>1 DEF Puts
    <2>9. ClientOK(d, e)
      <3>1. None <= n /\ n + RECONNECT_MAX_ATTEMPTS - a <= MaxConns
        BY <2>3 DEF n, None
      <3> QED
        BY <2>2, <2>5, <3>1 DEF ClientOK
    <2>10. SocketOK(d, e, "none", slot[p], n)
      <3>1. ~Has(e.up, {"end_session"})
        BY <2>5, EmptyQueue
      <3>2. HearsWhy(d, e)
        BY <2>5 DEF HearsWhy
      <3>3. ~(n > n)
        BY <2>3
      <3> QED
        BY <2>2, <2>3, <2>4, <2>5, <3>1, <3>2, <3>3 DEF SocketOK
    <2>11. ASSUME NEW k \in Links
           PROVE  SocketOK(d, link'[p][k], handler[p][k], slot[p], k)
      <3>1. CASE k = n
        BY <2>4, <2>8, <2>10, <3>1
      <3>2. CASE k # n
        <4>1. /\ link'[p][k] = L[p][k]
              /\ L[p][k].state \notin {"opening", "open"}
              /\ SocketOK(c, L[p][k], handler[p][k], slot[p], k)
          BY <2>8, <3>2
        <4>2. k > d.last => k > c.last
          BY <1>1, <2>2, <2>3, Bounds
        <4>3. HearsWhy(d, L[p][k])
          BY <4>1 DEF HearsWhy
        <4> QED
          BY <2>2, <4>1, <4>2, <4>3 DEF SocketOK, carries
      <3> QED
        BY <3>1, <3>2
    <2>12. \A q \in Peers, k \in Links : q # p => link'[q][k] = link[q][k]
      BY <2>8
    <2> QED
      BY <1>1, <2>1, <2>2, <2>8, <2>9, <2>11, <2>12, OwnStep
  <1> QED
    BY <1>2, <1>3 DEF ClientRecord

LEMMA RetryTimerInv ==
    ASSUME Inv, NEW p \in Peers, RetryTimer(p)
    PROVE  Inv'
  <1> DEFINE b == client[p]
             c == [b EXCEPT !.sleeping = FALSE]
  <1>1. /\ b.sleeping /\ UNCHANGED relayVars
        /\ \/ c.screen = "paired" /\ attemptReconnect(p, c, c.attempt + 1, link)
           \/ /\ c.screen # "paired"
              /\ client' = [client EXCEPT ![p] = c] /\ link' = link
    BY DEF RetryTimer
  <1>2. /\ b \in ClientRecord /\ link \in LinkFns /\ b.last \in Links
        /\ b.attempt \in 0..RECONNECT_MAX_ATTEMPTS /\ b.last \in Nat
    BY PeerTyped, Bounds DEF Inv
  <1>3. /\ c \in ClientRecord /\ c.last = b.last /\ c.active = b.active
        /\ c.screen = b.screen /\ c.attempt = b.attempt /\ c.sleeping = FALSE
    BY <1>2 DEF ClientRecord
  <1>4. /\ ClientOK(b, link[p][b.last])
        /\ \A k \in Links : SocketOK(b, link[p][k], handler[p][k], slot[p], k)
    BY DEF Inv, PeerOK
  <1> HIDE DEF c
  <1>5. \A k \in Links : SocketOK(c, link[p][k], handler[p][k], slot[p], k)
    <2>1. \A k \in Links : k = 1 /\ link[p][k].state = "open" =>
             b.active = 1 /\ b.screen = "paired"
      BY <1>4 DEF SocketOK
    <2> QED
      BY <1>3, <1>4, <2>1, SocketStays
  <1>6. CASE c.screen = "paired"
    <2>1. /\ b.active = None /\ link[p][b.last].state = "closed"
          /\ b.attempt < RECONNECT_MAX_ATTEMPTS
          /\ b.last + RECONNECT_MAX_ATTEMPTS - b.attempt <= MaxConns
      BY <1>1, <1>3, <1>4, <1>6 DEF ClientOK
    <2>2. \A k \in Links : link[p][k].state \notin {"opening", "open"}
      BY <1>4, <2>1 DEF SocketOK
    <2>3. /\ c.attempt + 1 \in 0..RECONNECT_MAX_ATTEMPTS
          /\ c.last + 1 \in Links
          /\ c.last + 1 + RECONNECT_MAX_ATTEMPTS - (c.attempt + 1) <= MaxConns
      <3>1. b.last + 1 \in Nat /\ 1 <= b.last + 1 /\ b.last + 1 <= MaxConns
        BY <1>2, <2>1, Bounds
      <3>2. b.last + 1 \in Links
        BY <3>1, Bounds
      <3> QED
        BY <1>2, <1>3, <2>1, <3>2, Bounds
    <2>4. attemptReconnect(p, c, c.attempt + 1, link)
      BY <1>1, <1>6
    <2>5. PICK a \in 0..RECONNECT_MAX_ATTEMPTS : a = c.attempt + 1
      BY <2>3
    <2> QED
      BY <1>1, <1>2, <1>3, <1>5, <1>6, <2>1, <2>2, <2>3, <2>4, <2>5, AttemptStep
  <1>7. CASE c.screen # "paired"
    <2>1. /\ client' = [client EXCEPT ![p] = c] /\ link' = link
          /\ handler' = handler /\ slot' = slot /\ session' = session
      BY <1>1, <1>7 DEF relayVars
    <2>2. ClientOK(c, link'[p][c.last])
      BY <1>3, <1>4, <1>7 DEF ClientOK
    <2>3. handler \in [Peers -> [Links -> HandlerStates]]
      BY DEF Inv, TypeOK, HandlerStates
    <2> QED
      BY <1>2, <1>3, <1>5, <2>1, <2>2, <2>3, OwnStep
  <1> QED
    BY <1>6, <1>7

LEMMA CloseEventInv ==
    ASSUME Inv, NEW p \in Peers, NEW n \in Links, CloseEvent(p, n)
    PROVE  Inv'
  <1> DEFINE b == client[p]
             l == link[p][n]
             L == closeSocket(link, p, n)
             c == [b EXCEPT !.active = None]
  <1>1. /\ l.state = "open" /\ UNCHANGED relayVars
        /\ l.broken \/ (l.fin /\ l.down = <<>>)
        /\ \/ /\ b.screen = "paired" /\ l.wired /\ b.active = n
              /\ attemptReconnect(p, c, 1, L)
           \/ /\ b.screen = "paired" /\ ~l.wired
              /\ client' = [client EXCEPT ![p] = retry(b)] /\ link' = L
           \/ /\ b.screen # "paired" \/ (l.wired /\ b.active # n)
              /\ link' = L /\ client' = client
    BY DEF CloseEvent
  <1>2. /\ n = b.last /\ ClientOK(b, l)
        /\ \A k \in Links : k # n =>
              link[p][k].state \notin {"opening", "open"}
        /\ \A k \in Links : SocketOK(b, link[p][k], handler[p][k], slot[p], k)
        /\ link \in LinkFns /\ l \in LinkRecord /\ b \in ClientRecord
        /\ n \in Nat
    BY <1>1, InUse
  <1>3. CASE b.screen = "paired" /\ l.wired /\ b.active = n
             /\ attemptReconnect(p, c, 1, L)
    <2>1. /\ c \in ClientRecord /\ c.last = b.last /\ c.active = None
          /\ c.screen = b.screen /\ c.sleeping = b.sleeping
      BY <1>2 DEF ClientRecord
    <2>2. ~b.sleeping
      BY <1>2, <1>3, Bounds DEF ClientOK
    <2>3. n + RECONNECT_MAX_ATTEMPTS <= MaxConns
      BY <1>1, <1>2, <1>3 DEF SocketOK, HearsWhy
    <2>4. L = put(link, p, n, shut(l))
      BY <1>2, CloseAt
    <2>5. shut(l) \in LinkRecord /\ shut(l).state = "closed"
      BY <1>2, ShutFields
    <2> HIDE DEF L, c
    <2>6. /\ L \in LinkFns /\ L[p][n] = shut(l)
          /\ \A q \in Peers, k \in Links :
                q # p \/ k # n => L[q][k] = link[q][k]
      <3>1. Puts(L, link, p, n, shut(l))
        BY <1>2, <2>4, <2>5, PutPuts
      <3> QED
        BY <3>1 DEF Puts
    <2>7. ASSUME NEW k \in Links
          PROVE  /\ L[p][k].state \notin {"opening", "open"}
                 /\ SocketOK(c, L[p][k], handler[p][k], slot[p], k)
      <3>1. CASE k = n
        <4>1. SocketOK(c, shut(l), handler[p][n], slot[p], n)
          BY <1>2, <2>1, SocketCloses
        <4> QED
          BY <2>5, <2>6, <3>1, <4>1
      <3>2. CASE k # n
        <4>1. /\ L[p][k] = link[p][k] /\ link[p][k].state # "open"
              /\ link[p][k].state # "opening"
          BY <1>2, <2>6, <3>2
        <4> QED
          BY <1>2, <2>1, <4>1, SocketStays
      <3> QED
        BY <3>1, <3>2
    <2>8. /\ 1 \in 0..RECONNECT_MAX_ATTEMPTS /\ c.last + 1 \in Links
          /\ c.last + 1 + RECONNECT_MAX_ATTEMPTS - 1 <= MaxConns
      <3>1. n + 1 \in Nat /\ 1 <= n + 1 /\ n + 1 <= MaxConns
        BY <1>2, <2>3, Bounds
      <3>2. n + 1 \in Links
        BY <3>1, Bounds
      <3> QED
        BY <1>2, <2>1, <2>3, <3>2, Bounds
    <2> QED
      BY <1>1, <1>3, <2>1, <2>2, <2>6, <2>7, <2>8, AttemptStep
  <1>4. CASE b.screen = "paired" /\ ~l.wired
             /\ client' = [client EXCEPT ![p] = retry(b)] /\ link' = L
    <2>1. /\ retry(b) \in ClientRecord /\ retry(b).last = b.last
          /\ \A e : e.state = "closed" => ClientOK(retry(b), e)
      <3>1. PICK e0 : e0 = [state |-> "closed"]
        OBVIOUS
      <3>2. e0.state = "closed"
        BY <3>1
      <3> QED
        BY <1>1, <1>2, <1>4, <3>2, RetryClient
    <2> QED
      BY <1>1, <1>4, <2>1, ClosingStep
  <1>5. CASE /\ b.screen # "paired" \/ (l.wired /\ b.active # n)
             /\ link' = L /\ client' = client
    <2>1. b.screen # "paired"
      BY <1>1, <1>2, <1>5, Bounds DEF ClientOK
    <2>2. client' = [client EXCEPT ![p] = b]
      BY <1>5, SameClient DEF Inv
    <2>3. \A e : ClientOK(b, e)
      BY <1>2, <2>1 DEF ClientOK
    <2> QED
      BY <1>1, <1>2, <1>5, <2>1, <2>2, <2>3, ClosingStep
  <1> QED
    BY <1>1, <1>3, <1>4, <1>5

LEMMA HearReconnectedInv ==
    ASSUME Inv, NEW p \in Peers, NEW n \in Links, HearReconnected(p, n)
    PROVE  Inv'
  <1> DEFINE b == client[p]
             l == link[p][n]
             R == rest(p, n)
             d == [rendered(b) EXCEPT !.active = n, !.epoch = @ + 1]
             e == [heard(l) EXCEPT !.wired = TRUE]
  <1>1. /\ hears(p, n, "reconnected") /\ client' = [client EXCEPT ![p] = d]
        /\ link' = [R EXCEPT ![p][n].wired = TRUE]
    BY DEF HearReconnected
  <1>2. "reconnected" \in Messages /\ "reconnected" \notin Why
    BY DEF Messages, Why
  <1>3. /\ l.down \in Seq(Messages) /\ l.down # <<>>
        /\ Head(l.down) = "reconnected" /\ l.state = "open"
        /\ heard(l) \in LinkRecord /\ R \in LinkFns
        /\ R = put(link, p, n, heard(l))
        /\ Stirred(b, handler[p][n], n, l, heard(l))
        /\ UNCHANGED relayVars
    BY <1>1, <1>2, HearsDoes
  <1>4. /\ n = b.last /\ ClientOK(b, l)
        /\ \A k \in Links : k # n =>
              link[p][k].state \notin {"opening", "open"}
        /\ \A k \in Links : SocketOK(b, link[p][k], handler[p][k], slot[p], k)
        /\ handler \in [Peers -> [Links -> HandlerStates]]
        /\ link \in LinkFns /\ l \in LinkRecord /\ b \in ClientRecord
        /\ n \in Nat
    BY <1>3, InUse
  <1>5. /\ d \in ClientRecord /\ d.last = b.last /\ d.active = n
        /\ d.screen = b.screen /\ d.sleeping = b.sleeping
    <2> DEFINE r == rendered(b)
    <2>1. Stays(b, r)
      BY <1>4, ClientEdits
    <2> HIDE DEF r
    <2>2. r.epoch + 1 \in Nat /\ r \in ClientRecord
      BY <2>1 DEF Stays, ClientRecord
    <2> QED
      BY <2>1, <2>2 DEF Stays, ClientRecord, r
  <1>6. /\ heard(l).state = l.state /\ heard(l).down = Tail(l.down)
        /\ heard(l).up = l.up /\ heard(l).broken = l.broken
        /\ heard(l).fin = l.fin
    BY <1>3, <1>4, TakeFields
  <1>7. /\ e \in LinkRecord /\ e.state = l.state /\ e.down = Tail(l.down)
        /\ e.up = l.up /\ e.broken = l.broken /\ e.fin = l.fin
        /\ e.wired = TRUE
    <2> DEFINE h == heard(l)
    <2> HIDE DEF h
    <2>1. h \in LinkRecord
      BY <1>3 DEF h
    <2>2. /\ [h EXCEPT !.wired = TRUE] \in LinkRecord
          /\ [h EXCEPT !.wired = TRUE].state = h.state
          /\ [h EXCEPT !.wired = TRUE].down = h.down
          /\ [h EXCEPT !.wired = TRUE].up = h.up
          /\ [h EXCEPT !.wired = TRUE].broken = h.broken
          /\ [h EXCEPT !.wired = TRUE].fin = h.fin
          /\ [h EXCEPT !.wired = TRUE].wired = TRUE
      BY <2>1 DEF LinkRecord
    <2> QED
      BY <1>6, <2>2 DEF h
  <1>8. link' = put(link, p, n, e)
    <2>1. R[p][n] = heard(l)
      <3>1. Puts(R, link, p, n, heard(l))
        BY <1>3, <1>4, PutPuts
      <3> QED
        BY <3>1 DEF Puts
    <2> HIDE DEF R
    <2>2. link' = put(R, p, n, [R[p][n] EXCEPT !.wired = TRUE])
      BY <1>1 DEF put
    <2>3. [R[p][n] EXCEPT !.wired = TRUE] = e
      BY <2>1
    <2> HIDE DEF e
    <2>4. put(put(link, p, n, heard(l)), p, n, e) = put(link, p, n, e)
      BY <1>4, PutPut
    <2> QED
      BY <1>3, <2>2, <2>3, <2>4
  <1> HIDE DEF d, e, R
  <1>9. /\ link' \in LinkFns /\ link'[p][n] = e
        /\ \A q \in Peers, k \in Links :
              q # p \/ k # n => link'[q][k] = link[q][k]
    <2>1. Puts(link', link, p, n, e)
      BY <1>4, <1>7, <1>8, PutPuts
    <2> QED
      BY <2>1 DEF Puts
  <1>10. ClientOK(d, e)
    <2>1. b.screen = "paired" => ~b.sleeping
      BY <1>3, <1>4 DEF ClientOK
    <2>2. d.active = n /\ d.last = n /\ n \in Nat
      BY <1>4, <1>5
    <2>3. e.state = "open" /\ e.wired = TRUE
      BY <1>3, <1>7
    <2>4. d.screen = "paired" => ~d.sleeping
      BY <1>5, <2>1
    <2> QED
      BY <2>2, <2>3, <2>4 DEF ClientOK
  <1>11. SocketOK(d, e, handler[p][n], slot[p], n)
    <2>1. SocketOK(b, l, handler[p][n], slot[p], n)
      BY <1>4
    <2> DEFINE t == Tail(l.down)
    <2>2. Head(l.down) # l.down[Len(l.down)] =>
             t # <<>> /\ t[Len(t)] = l.down[Len(l.down)]
      BY <1>3, QueueTake
    <2> HIDE DEF t
    <2>3. HearsWhy(d, e)
      BY <1>3, <1>5, <1>7, <2>1, <2>2 DEF SocketOK, HearsWhy, t
    <2>4. handler[p][n] \notin {"none", "first"}
      BY <1>3, <2>1 DEF SocketOK
    <2>5. carries(e) <=> carries(l)
      BY <1>7 DEF carries
    <2>6. ~(n > d.last)
      BY <1>4, <1>5
    <2> QED
      BY <1>3, <1>4, <1>5, <1>7, <2>1, <2>3, <2>4, <2>5, <2>6 DEF SocketOK
  <1>12. ASSUME NEW k \in Links
         PROVE  SocketOK(d, link'[p][k], handler[p][k], slot[p], k)
    <2>1. CASE k = n
      BY <1>9, <1>11, <2>1
    <2>2. CASE k # n
      <3>1. link'[p][k] = link[p][k] /\ link[p][k].state # "open"
        BY <1>4, <1>9, <2>2
      <3> QED
        BY <1>4, <1>5, <3>1, SocketStays
    <2> QED
      BY <2>1, <2>2
  <1>13. handler' = handler /\ slot' = slot /\ session' = session
    BY <1>3 DEF relayVars
  <1>14. /\ \A q \in Peers, k \in Links : q # p => link'[q][k] = link[q][k]
         /\ ClientOK(d, link'[p][d.last])
    BY <1>4, <1>5, <1>9, <1>10
  <1> QED
    BY <1>1, <1>4, <1>5, <1>9, <1>12, <1>13, <1>14, OwnStep

(* The user or the relay ends the session: the screen is left and the      *)
(* active socket closed.                                                   *)
LEMMA LeaveStep ==
    ASSUME Inv, NEW p \in Peers, NEW n \in Links, NEW e \in LinkRecord,
           n <= client[p].last, e.state = link[p][n].state,
           e.broken = link[p][n].broken, e.fin = link[p][n].fin,
           link[p][n].down = <<>> => e.down = <<>>,
           NEW scr \in {"start", "error"},
           leave(p, scr, put(link, p, n, e)), UNCHANGED relayVars
    PROVE  Inv'
  <1> DEFINE c == client[p]
             L == put(link, p, n, e)
             d == [c EXCEPT !.screen = scr, !.active = None]
             M == closeSocket(L, p, c.active)
  <1>1. /\ client' = [client EXCEPT ![p].screen = scr, ![p].active = None]
        /\ link' = M
    BY DEF leave
  <1>2. /\ c \in ClientRecord /\ c.last \in Links /\ link \in LinkFns
        /\ c.active \in Links \cup {None} /\ c.active <= c.last
        /\ \A k \in Links : link[p][k] \in LinkRecord
        /\ c.last \in Nat /\ n \in Nat /\ None \notin Links
    BY PeerTyped, ActiveUsed, Bounds DEF Inv
  <1>3. /\ d \in ClientRecord /\ d.last = c.last /\ d.screen = scr
        /\ d.active = None /\ client' = [client EXCEPT ![p] = d]
    BY <1>1, <1>2 DEF ClientRecord, Inv, TypeOK
  <1>4. /\ L \in LinkFns /\ L[p][n] = e
        /\ \A q \in Peers, k \in Links : q # p \/ k # n => L[q][k] = link[q][k]
    <2>1. Puts(L, link, p, n, e)
      BY <1>2, PutPuts
    <2> QED
      BY <2>1 DEF Puts
  <1>5. \A k \in Links :
           /\ SocketOK(c, link[p][k], handler[p][k], slot[p], k)
           /\ k \in Nat
    BY Bounds DEF Inv, PeerOK
  <1>6. handler \in [Peers -> [Links -> HandlerStates]]
    BY DEF Inv, TypeOK, HandlerStates
  <1> HIDE DEF L, d
  <1>7. /\ M \in LinkFns
        /\ \A q \in Peers, k \in Links : q # p => M[q][k] = L[q][k]
        /\ \A k \in Links :
              M[p][k] = IF k = c.active THEN shut(L[p][k]) ELSE L[p][k]
    <2>1. CASE c.active = None
      <3>1. M = L
        BY <2>1 DEF closeSocket
      <3> QED
        BY <3>1, <2>1, <1>4, <1>2
    <2>2. CASE c.active \in Links
      <3>1. L[p][c.active] \in LinkRecord
        BY <1>4, <2>2 DEF LinkFns
      <3>2. shut(L[p][c.active]) \in LinkRecord
        BY <3>1, ShutFields
      <3>3. M = put(L, p, c.active, shut(L[p][c.active]))
        BY <1>4, <2>2, CloseAt
      <3> QED
        <4>1. Puts(M, L, p, c.active, shut(L[p][c.active]))
          BY <3>2, <3>3, <1>4, <2>2, PutPuts
        <4> QED
          BY <4>1, <2>2, <1>2 DEF Puts
    <2> QED
      BY <2>1, <2>2, <1>2
  <1>8. ASSUME NEW k \in Links
        PROVE  SocketOK(d, M[p][k], handler[p][k], slot[p], k)
    <2> DEFINE l == link[p][k]
               g == L[p][k]
               f == M[p][k]
               h == handler[p][k]
    <2>1. /\ g \in LinkRecord /\ g.state = l.state /\ g.broken = l.broken
          /\ g.fin = l.fin /\ (l.down = <<>> => g.down = <<>>)
          /\ k > c.last => g = l
      <3>1. CASE k = n
        BY <3>1, <1>4, <1>2
      <3>2. CASE k # n
        BY <3>2, <1>4, <1>2
      <3> QED
        BY <3>1, <3>2
    <2>2. /\ SocketOK(c, l, h, slot[p], k) /\ k \in Nat
          /\ d.screen # "paired" /\ d.last = c.last
      BY <1>5, <1>3
    <2>3. CASE k = c.active
      <3>1. f = shut(g) /\ k <= c.last
        BY <1>7, <1>2, <2>3
      <3> SUFFICES SocketOK(d, f, h, slot[p], k)
        OBVIOUS
      <3> HIDE DEF l, g, f, h
      <3>2. /\ f.state = "closed" /\ f.down = <<>> /\ f.broken = g.broken
        BY <3>1, <2>1, ShutFields
      <3> QED
        BY <3>1, <3>2, <2>1, <2>2, <1>2 DEF SocketOK, HearsWhy, carries
    <2>4. CASE k # c.active
      <3>1. f = g
        BY <1>7, <2>4
      <3> SUFFICES SocketOK(d, f, h, slot[p], k)
        OBVIOUS
      <3> HIDE DEF l, g, f, h
      <3>2. k = 1 => f.state # "open"
        BY <3>1, <2>1, <2>2, <2>4 DEF SocketOK
      <3> QED
        BY <3>1, <3>2, <2>1, <2>2 DEF SocketOK, HearsWhy, carries
    <2> QED
      BY <2>3, <2>4
  <1>9. ClientOK(d, M[p][d.last])
    BY <1>2, <1>3 DEF ClientOK, None
  <1> HIDE DEF M
  <1>10. /\ link' \in LinkFns /\ ClientOK(d, link'[p][d.last])
         /\ \A q \in Peers, k \in Links : q # p => link'[q][k] = link[q][k]
         /\ \A k \in Links :
               SocketOK(d, link'[p][k], handler[p][k], slot[p], k)
    BY <1>1, <1>4, <1>7, <1>8, <1>9
  <1>11. handler' = handler /\ slot' = slot /\ session' = session
    BY DEF relayVars
  <1> QED
    BY <1>3, <1>6, <1>10, <1>11, OwnStep

LEMMA LeavesInv ==
    ASSUME Inv, NEW p \in Peers,
           \/ DisconnectSession(p)
           \/ \E n \in Links : HearError(p, n) \/ HearSessionEnded(p, n)
    PROVE  Inv'
  <1> DEFINE c == client[p]
  <1>1. CASE DisconnectSession(p)
    <2>1. /\ leave(p, "start", sendUp(link, p, c.active, "end_session"))
          /\ UNCHANGED relayVars
      BY <1>1 DEF DisconnectSession
    <2>2. /\ link \in LinkFns /\ c.active \in Links \cup {None}
          /\ c.active <= c.last /\ 1 <= c.last /\ 1 \in Links
          /\ \A k \in Links : link[p][k] \in LinkRecord
      BY PeerTyped, ActiveUsed, Bounds DEF Inv
    <2>3. CASE c.active = None
      <3>1. sendUp(link, p, c.active, "end_session") = put(link, p, 1, link[p][1])
        BY <2>2, <2>3, PutSame DEF sendUp
      <3> QED
        BY <2>1, <2>2, <3>1, LeaveStep
    <2>4. CASE c.active \in Links
      <3> DEFINE n == c.active
                 e == upTo(link[p][n], "end_session")
      <3>1. sendUp(link, p, n, "end_session") = put(link, p, n, e)
        BY <2>2, <2>4, SendUpAt
      <3>2. "end_session" \in Messages
        BY DEF Messages
      <3>3. /\ e \in LinkRecord /\ e.state = link[p][n].state
            /\ e.broken = link[p][n].broken /\ e.fin = link[p][n].fin
            /\ e.down = link[p][n].down
        BY <2>2, <2>4, <3>2, EditFields
      <3> HIDE DEF e
      <3> QED
        BY <2>1, <2>2, <2>4, <3>1, <3>3, LeaveStep
    <2> QED
      BY <2>2, <2>3, <2>4
  <1>2. ASSUME NEW n \in Links, HearError(p, n) \/ HearSessionEnded(p, n)
        PROVE  Inv'
    <2> DEFINE e == heard(link[p][n])
    <2>1. /\ leave(p, "error", rest(p, n)) /\ UNCHANGED relayVars
          /\ link[p][n].state = "open" /\ link[p][n].down # <<>>
      BY <1>2 DEF HearError, HearSessionEnded, wiredHears, hears
    <2>2. link \in LinkFns /\ link[p][n] \in LinkRecord /\ n = c.last /\ n \in Nat
      BY <2>1, InUse
    <2>3. rest(p, n) = put(link, p, n, e)
      BY <2>2, RestAt
    <2>4. /\ e \in LinkRecord /\ e.state = link[p][n].state
          /\ e.broken = link[p][n].broken /\ e.fin = link[p][n].fin
      BY <2>1, <2>2, TakeFields
    <2>5. n <= c.last
      BY <2>2
    <2> HIDE DEF e
    <2> QED
      BY <2>1, <2>3, <2>4, <2>5, LeaveStep
  <1> QED
    BY <1>1, <1>2

-----------------------------------------------------------------------------
(* The invariant, and what it shows *)

LEMMA InitInv ==
    Init => Inv
  <1> SUFFICES ASSUME Init PROVE Inv
    OBVIOUS
  <1> DEFINE first == [Unused EXCEPT !.state = "open", !.wired = TRUE]
  <1>1. /\ 1 \in Links /\ Links \subseteq Nat \ {0} /\ None \notin Links
        /\ RECONNECT_MAX_ATTEMPTS \in Nat \ {0} /\ MaxConns \in Nat
        /\ MaxSwaps \in Nat
    BY Bounds, ClientsAssumption DEF ClientsAssumption
  <1>2. <<>> \in Seq(Messages)
    OBVIOUS
  <1>3. /\ Unused \in LinkRecord /\ first \in LinkRecord
        /\ first.state = "open" /\ first.wired /\ ~first.broken
        /\ ~first.fin /\ first.up = <<>> /\ first.down = <<>>
        /\ Unused.state = "none" /\ ~Unused.broken /\ ~Unused.fin
        /\ Unused.up = <<>> /\ Unused.down = <<>>
    BY <1>2 DEF Unused, LinkRecord
  <1>4. \A p \in Peers :
          /\ client[p] \in ClientRecord
          /\ client[p].screen = "paired" /\ client[p].active = 1
          /\ client[p].last = 1 /\ ~client[p].sleeping
    BY <1>1 DEF Init, ClientRecord
  <1>5. \A p \in Peers, n \in Links :
          link[p][n] = IF n = 1 THEN first ELSE Unused
    BY DEF Init
  <1>6. \A p \in Peers, n \in Links :
          handler[p][n] = IF n = 1 THEN "serving" ELSE "none"
    BY DEF Init
  <1>7. \A p \in Peers :
          /\ slot[p] \in [conn : Links, connected : BOOLEAN, token : BOOLEAN]
          /\ slot[p].conn = 1 /\ slot[p].connected
    BY <1>1 DEF Init
  <1>8. TypeOK
    <2>1. client \in [Peers -> ClientRecord]
      BY <1>4 DEF Init
    <2>2. link \in [Peers -> [Links -> LinkRecord]]
      BY <1>3 DEF Init
    <2>3. handler \in [Peers -> [Links -> {"none", "first", "announce",
                                        "confirm", "serving", "gone"}]]
      BY DEF Init
    <2>4. slot \in [Peers -> [conn : Links, connected : BOOLEAN, token : BOOLEAN]]
      BY <1>7 DEF Init
    <2> QED
      BY <2>1, <2>2, <2>3, <2>4 DEF TypeOK, Init
  <1> HIDE DEF first
  <1>9. ASSUME NEW p \in Peers PROVE PeerOK(p)
    <2>1. ClientOK(client[p], link[p][client[p].last])
      BY <1>1, <1>3, <1>4, <1>5 DEF ClientOK
    <2>2. ASSUME NEW n \in Links
          PROVE  SocketOK(client[p], link[p][n], handler[p][n], slot[p], n)
      <3>1. CASE n = 1
        BY <3>1, <1>1, <1>3, <1>4, <1>5, <1>6, <1>7, EmptyQueue
           DEF SocketOK, HearsWhy, carries
      <3>2. CASE n # 1
        BY <3>2, <1>1, <1>3, <1>4, <1>5, <1>6, <1>7, EmptyQueue
           DEF SocketOK, HearsWhy, carries
      <3> QED
        BY <3>1, <3>2
    <2> QED
      BY <2>1, <2>2 DEF PeerOK
  <1> QED
    BY <1>8, <1>9 DEF Inv

LEMMA NextInv ==
    Inv /\ [Next]_vars => Inv'
  <1> SUFFICES ASSUME Inv, [Next]_vars PROVE Inv'
    OBVIOUS
  <1>1. CASE UNCHANGED vars
    BY <1>1 DEF vars, Inv, TypeOK, PeerOK
  <1>2. ASSUME NEW p \in Peers, Client(p) PROVE Inv'
    <2>1. CASE DeriveToken(p)
      BY <2>1, MildInv
    <2>2. CASE RetryTimer(p)
      BY <2>2, RetryTimerInv
    <2>3. ASSUME NEW n \in Links,
                 \/ Opens(p, n) \/ ConnectFails(p, n) \/ CloseEvent(p, n)
                 \/ HearReconnected(p, n)
          PROVE  Inv'
      BY <2>3, OpensInv, ConnectFailsInv, CloseEventInv, HearReconnectedInv
    <2>4. ASSUME NEW n \in Links, HearError(p, n) \/ HearSessionEnded(p, n)
          PROVE  Inv'
      BY <2>4, LeavesInv
    <2>5. ASSUME NEW n \in Links,
                 \/ HearUnwired(p, n) \/ HearPeerDisconnected(p, n)
                 \/ HearPeerReconnected(p, n) \/ HearSwapRequest(p, n)
                 \/ HearSwapResponse(p, n)
          PROVE  Inv'
      BY <2>5, HearInv
    <2> QED
      BY <1>2, <2>1, <2>2, <2>3, <2>4, <2>5 DEF Client
  <1>3. ASSUME NEW p \in Peers, Disturb(p) PROVE Inv'
    BY <1>3, MildInv, LeavesInv DEF Disturb
  <1>4. ASSUME NEW p \in Peers, Relay(p) PROVE Inv'
    BY <1>4, ReadReconnectInv, AnnounceInv, ConfirmInv, ReadTokenInv,
       ReadRelayedInv, ReadEndInv, HandleDisconnectInv DEF Relay
  <1> QED
    BY <1>1, <1>2, <1>3, <1>4, ReapInv DEF Next

(* TypeOK is an invariant, for any number of sockets, attempts and swap    *)
(* requests: in particular attemptReconnect never makes more than          *)
(* RECONNECT_MAX_ATTEMPTS attempts in a row, and never runs out of sockets.*)
THEOREM TypesHold == Spec => []TypeOK
  <1>1. Inv => TypeOK
    BY DEF Inv
  <1> QED
    BY <1>1, InitInv, NextInv, PTL DEF Spec

(* A paired client without a connection has a retry, or an attempt, ahead  *)
(* of it.                                                                  *)
StillTrying ==
    \A p \in Peers :
       client[p].screen = "paired" /\ client[p].active = None =>
          \/ client[p].sleeping
          \/ \E n \in Links :
                link[p][n].state \in {"opening", "open"} /\ ~link[p][n].wired

(* No order of drops, refusals and failed attempts strands a client on the *)
(* "reconnecting" line: the timer or the close listener of attemptReconnect*)
(* is always still to come.                                                *)
THEOREM NeverStranded == Spec => []StillTrying
  <1>1. Inv => StillTrying
    <2> SUFFICES ASSUME Inv, NEW p \in Peers, client[p].screen = "paired",
                        client[p].active = None
                 PROVE  \/ client[p].sleeping
                        \/ \E n \in Links :
                              /\ link[p][n].state \in {"opening", "open"}
                              /\ ~link[p][n].wired
      BY DEF StillTrying
    <2>1. /\ client[p].last \in Links /\ None \notin Links
          /\ ClientOK(client[p], link[p][client[p].last])
      BY PeerTyped, Bounds DEF Inv, PeerOK
    <2> QED
      BY <2>1 DEF ClientOK
  <1> QED
    BY <1>1, InitInv, NextInv, PTL DEF Spec

-----------------------------------------------------------------------------
(* A first connection that is lost stays lost *)

Fades(L, M) == \A q \in Peers : carries(M[q][1]) => carries(L[q][1])

LEMMA FadeChain ==
    ASSUME NEW L, NEW M, NEW N, Fades(L, M), Fades(M, N)
    PROVE  Fades(L, N)
  BY DEF Fades

LEMMA FadePut ==
    ASSUME NEW L \in LinkFns, NEW p \in Peers, NEW n \in Links,
           NEW e \in LinkRecord, carries(e) => carries(L[p][n])
    PROVE  put(L, p, n, e) \in LinkFns /\ Fades(L, put(L, p, n, e))
  <1>1. put(L, p, n, e) \in LinkFns /\ 1 \in Links
    BY PutAt, Bounds
  <1>2. ASSUME NEW q \in Peers, carries(put(L, p, n, e)[q][1])
        PROVE  carries(L[q][1])
    <2>1. CASE q = p /\ n = 1
      BY <1>2, <2>1, PutAt
    <2>2. CASE ~(q = p /\ n = 1)
      BY <1>1, <1>2, <2>2, PutAt
    <2> QED
      BY <2>1, <2>2
  <1> QED
    BY <1>1, <1>2 DEF Fades

LEMMA FadeSend ==
    ASSUME NEW L \in LinkFns, NEW p \in Peers, NEW n \in Links,
           NEW m \in Messages
    PROVE  /\ sendDown(L, p, n, m) \in LinkFns /\ Fades(L, sendDown(L, p, n, m))
           /\ sendUp(L, p, n, m) \in LinkFns /\ Fades(L, sendUp(L, p, n, m))
           /\ closeSocket(L, p, n) \in LinkFns /\ Fades(L, closeSocket(L, p, n))
           /\ ended(L, p, n) \in LinkFns /\ Fades(L, ended(L, p, n))
  <1> DEFINE l == L[p][n]
  <1>1. l \in LinkRecord
    BY DEF LinkFns
  <1>2. /\ downTo(l, m) \in LinkRecord /\ upTo(l, m) \in LinkRecord
        /\ shut(l) \in LinkRecord /\ finished(l) \in LinkRecord
    BY <1>1, EditFields, ShutFields
  <1>3. /\ carries(downTo(l, m)) => carries(l)
        /\ carries(upTo(l, m)) => carries(l)
        /\ carries(shut(l)) => carries(l)
        /\ carries(finished(l)) => carries(l)
    <2> HIDE DEF l
    <2>1. /\ downTo(l, m).state = l.state /\ downTo(l, m).broken = l.broken
          /\ downTo(l, m).fin = l.fin
          /\ upTo(l, m).state = l.state /\ upTo(l, m).broken = l.broken
          /\ upTo(l, m).fin = l.fin
      BY <1>1, EditFields
    <2>2. shut(l).state = "closed" /\ finished(l).fin
      BY <1>1, ShutFields
    <2> QED
      BY <2>1, <2>2 DEF carries
  <1>4. /\ sendDown(L, p, n, m) = put(L, p, n, downTo(l, m))
        /\ sendUp(L, p, n, m) = put(L, p, n, upTo(l, m))
        /\ closeSocket(L, p, n) = put(L, p, n, shut(l))
        /\ ended(L, p, n) = put(L, p, n, finished(l))
    BY SendDownAt, SendUpAt, CloseAt, EndedAt
  <1>5. ASSUME NEW e \in LinkRecord, carries(e) => carries(l)
        PROVE  put(L, p, n, e) \in LinkFns /\ Fades(L, put(L, p, n, e))
    BY <1>5, FadePut
  <1> QED
    BY <1>2, <1>3, <1>4, <1>5

LEMMA FadeTake ==
    ASSUME TypeOK, NEW p \in Peers, NEW n \in Links
    PROVE  /\ link[p][n].down # <<>> =>
                 rest(p, n) \in LinkFns /\ Fades(link, rest(p, n))
           /\ link[p][n].up # <<>> =>
                 unread(p, n) \in LinkFns /\ Fades(link, unread(p, n))
  <1> DEFINE l == link[p][n]
  <1>1. link \in LinkFns /\ l \in LinkRecord
    BY PeerTyped
  <1>2. /\ rest(p, n) = put(link, p, n, heard(l))
        /\ unread(p, n) = put(link, p, n, taken(l))
    BY <1>1, RestAt, UnreadAt
  <1>3. ASSUME l.down # <<>>
        PROVE  heard(l) \in LinkRecord /\ (carries(heard(l)) => carries(l))
    BY <1>1, <1>3, TakeFields DEF carries
  <1>4. ASSUME l.up # <<>>
        PROVE  taken(l) \in LinkRecord /\ (carries(taken(l)) => carries(l))
    BY <1>1, <1>4, TakeFields DEF carries
  <1> QED
    BY <1>1, <1>2, <1>3, <1>4, FadePut

LEMMA FadePeer ==
    ASSUME TypeOK, NEW L \in LinkFns, NEW q \in Peers, NEW m \in Messages
    PROVE  /\ sendPeer(L, q, m) \in LinkFns /\ Fades(L, sendPeer(L, q, m))
           /\ dismissed(L, q) \in LinkFns /\ Fades(L, dismissed(L, q))
  <1>1. slot[q].conn \in Links /\ "session_ended" \in Messages
    BY PeerTyped, RelayMessages
  <1>2. ASSUME NEW a \in Messages
        PROVE  sendPeer(L, q, a) \in LinkFns /\ Fades(L, sendPeer(L, q, a))
    <2>1. /\ sendDown(L, q, slot[q].conn, a) \in LinkFns
          /\ Fades(L, sendDown(L, q, slot[q].conn, a)) /\ Fades(L, L)
      BY <1>1, FadeSend DEF Fades
    <2> QED
      BY <2>1 DEF sendPeer
  <1> DEFINE M == sendPeer(L, q, "session_ended")
             E == ended(M, q, slot[q].conn)
  <1>3. M \in LinkFns /\ Fades(L, M) /\ Fades(L, L)
    BY <1>1, <1>2 DEF Fades
  <1> HIDE DEF M
  <1>4. E \in LinkFns /\ Fades(M, E)
    BY <1>1, <1>3, FadeSend
  <1>5. Fades(L, E)
    BY <1>3, <1>4, FadeChain
  <1>6. dismissed(L, q) = IF slot[q].connected THEN E ELSE L
    BY DEF dismissed, ended, M
  <1> QED
    BY <1>2, <1>3, <1>4, <1>5, <1>6

LEMMA AttemptFades ==
    ASSUME NEW L \in LinkFns, NEW p \in Peers, NEW c, NEW k,
           attemptReconnect(p, c, k, L)
    PROVE  Fades(L, link')
  <1>1. Fades(L, L)
    BY DEF Fades
  <1>2. ASSUME NEW n PROVE Fades(L, [L EXCEPT ![p][n].state = "opening"])
    <2> DEFINE M == [L EXCEPT ![p][n].state = "opening"]
    <2>1. ASSUME NEW q \in Peers, carries(M[q][1])
          PROVE  carries(L[q][1])
      <3>0. 1 \in Links /\ L[q][1] \in LinkRecord
        BY Bounds DEF LinkFns
      <3>1. CASE q = p /\ n = 1
        <4>1. M[q][1] = [L[q][1] EXCEPT !.state = "opening"]
          BY <3>0, <3>1 DEF LinkFns
        <4>2. M[q][1].state = "opening"
          BY <3>0, <4>1 DEF LinkRecord
        <4> QED
          BY <2>1, <4>2 DEF carries
      <3>2. CASE ~(q = p /\ n = 1)
        <4>1. M[q][1] = L[q][1]
          BY <3>0, <3>2 DEF LinkFns
        <4> QED
          BY <2>1, <4>1
      <3> QED
        BY <3>1, <3>2
    <2> QED
      BY <2>1 DEF Fades
  <1> QED
    BY <1>1, <1>2 DEF attemptReconnect

LEMMA ClientFades ==
    ASSUME Inv, NEW p \in Peers, Client(p)
    PROVE  Fades(link, link')
  <1>1. /\ TypeOK /\ link \in LinkFns /\ 1 \in Links
        /\ client[p].active \in Links \cup {None}
        /\ Fades(link, link)
    BY PeerTyped, Bounds DEF Inv, Fades
  <1>2. ASSUME NEW L \in LinkFns, NEW n \in Links \cup {None}
        PROVE  closeSocket(L, p, n) \in LinkFns /\ Fades(L, closeSocket(L, p, n))
    <2>1. CASE n = None
      BY <2>1 DEF closeSocket, Fades
    <2>2. CASE n \in Links
      BY <2>2, FadeSend, RelayMessages
    <2> QED
      BY <2>1, <2>2
  <1>3. CASE DeriveToken(p)
    <2>1. "reconnect_token" \in Messages
      BY DEF Messages
    <2> QED
      BY <1>1, <1>3, <2>1, FadeSend DEF DeriveToken
  <1>4. CASE RetryTimer(p)
    BY <1>1, <1>4, AttemptFades DEF RetryTimer
  <1>5. ASSUME NEW n \in Links, Opens(p, n) PROVE Fades(link, link')
    <2>1. n # 1
      <3>1. SocketOK(client[p], link[p][n], handler[p][n], slot[p], n)
        BY DEF Inv, PeerOK
      <3> QED
        BY <1>5, <3>1 DEF SocketOK, Opens
    <2>2. \A q \in Peers : link'[q][1] = link[q][1]
      BY <1>1, <1>5, <2>1 DEF Opens, LinkFns
    <2> QED
      BY <2>2 DEF Fades
  <1>6. ASSUME NEW n \in Links, ConnectFails(p, n) PROVE Fades(link, link')
    BY <1>1, <1>2, <1>6 DEF ConnectFails
  <1>7. ASSUME NEW n \in Links, CloseEvent(p, n) PROVE Fades(link, link')
    <2> DEFINE L == closeSocket(link, p, n)
    <2>1. L \in LinkFns /\ Fades(link, L)
      BY <1>1, <1>2
    <2>2. \/ link' = L
          \/ attemptReconnect(p, [client[p] EXCEPT !.active = None], 1, L)
      BY <1>7 DEF CloseEvent
    <2> HIDE DEF L
    <2> QED
      BY <2>1, <2>2, AttemptFades, FadeChain
  <1>8. ASSUME NEW n \in Links,
               \/ HearReconnected(p, n) \/ HearError(p, n)
               \/ HearUnwired(p, n) \/ HearSessionEnded(p, n)
               \/ HearPeerDisconnected(p, n) \/ HearPeerReconnected(p, n)
               \/ HearSwapRequest(p, n) \/ HearSwapResponse(p, n)
        PROVE  Fades(link, link')
    <2> DEFINE R == rest(p, n)
    <2>1. link[p][n].down # <<>>
      BY <1>8 DEF HearReconnected, HearError, HearUnwired, HearSessionEnded,
         HearPeerDisconnected, HearPeerReconnected, HearSwapRequest,
         HearSwapResponse, wiredHears, hears
    <2>2. R \in LinkFns /\ Fades(link, R)
      BY <1>1, <2>1, FadeTake
    <2>3. {"accepted", "rejected"} \subseteq Messages
      BY DEF Messages
    <2>4. \/ link' = R
          \/ link' = closeSocket(R, p, client[p].active)
          \/ \E m \in {"accepted", "rejected"} : link' = sendUp(R, p, n, m)
          \/ link' = [R EXCEPT ![p][n].wired = TRUE]
      BY <1>8 DEF HearReconnected, HearError, HearUnwired, HearSessionEnded,
         HearPeerDisconnected, HearPeerReconnected, HearSwapRequest,
         HearSwapResponse, leave
    <2> HIDE DEF R
    <2>5. Fades(R, R)
      BY DEF Fades
    <2>6. Fades(R, [R EXCEPT ![p][n].wired = TRUE])
      <3> DEFINE l == R[p][n]
                 e == [l EXCEPT !.wired = TRUE]
      <3>1. l \in LinkRecord
        BY <2>2 DEF LinkFns
      <3> HIDE DEF l
      <3>2. e \in LinkRecord /\ (carries(e) => carries(l))
        BY <3>1 DEF LinkRecord, carries
      <3>3. [R EXCEPT ![p][n].wired = TRUE] = put(R, p, n, e)
        BY DEF put, l
      <3> HIDE DEF e
      <3>4. carries(e) => carries(R[p][n])
        BY <3>2 DEF l
      <3>5. Fades(R, put(R, p, n, e))
        BY <2>2, <3>2, <3>4, FadePut
      <3> QED
        BY <3>3, <3>5
    <2>7. Fades(R, closeSocket(R, p, client[p].active))
      BY <1>1, <1>2, <2>2
    <2>8. \A m \in {"accepted", "rejected"} : Fades(R, sendUp(R, p, n, m))
      BY <2>2, <2>3, FadeSend
    <2>9. Fades(R, link')
      BY <2>4, <2>5, <2>6, <2>7, <2>8
    <2> QED
      BY <2>2, <2>9, FadeChain
  <1> QED
    BY <1>3, <1>4, <1>5, <1>6, <1>7, <1>8 DEF Client

LEMMA RelayFades ==
    ASSUME Inv, NEW p \in Peers, Relay(p)
    PROVE  Fades(link, link')
  <1>1. /\ TypeOK /\ link \in LinkFns /\ other(p) \in Peers
        /\ Fades(link, link)
    BY PeerTyped, TwoPeers DEF Inv, Fades
  <1>2. ASSUME NEW n \in Links, ReadReconnect(p, n) PROVE Fades(link, link')
    <2> DEFINE U == unread(p, n)
               S == sendDown(U, p, n, "error")
    <2>1. U \in LinkFns /\ Fades(link, U) /\ "error" \in Messages
      BY <1>1, <1>2, FadeTake, RelayMessages DEF ReadReconnect, reads
    <2>2. link' = U \/ link' = ended(S, p, n)
      BY <1>2 DEF ReadReconnect, ended
    <2> HIDE DEF U
    <2>3. S \in LinkFns /\ Fades(U, S)
      BY <2>1, FadeSend
    <2> HIDE DEF S
    <2>4. Fades(S, ended(S, p, n))
      BY <2>1, <2>3, FadeSend
    <2> QED
      BY <2>1, <2>2, <2>3, <2>4, FadeChain
  <1>3. ASSUME NEW n \in Links,
               Announce(p, n) \/ Confirm(p, n) \/ HandleDisconnect(p, n)
        PROVE  Fades(link, link')
    <2>1. \/ link' = sendPeer(link, other(p), "peer_reconnected")
          \/ link' = sendDown(link, p, n, "reconnected")
          \/ link' = sendPeer(link, other(p), "peer_disconnected")
          \/ link' = link
      BY <1>3 DEF Announce, Confirm, HandleDisconnect
    <2> QED
      BY <1>1, <2>1, FadeSend, FadePeer, RelayMessages
  <1>4. ASSUME NEW n \in Links,
               ReadToken(p, n) \/ ReadRelayed(p, n) \/ ReadEnd(p, n)
        PROVE  Fades(link, link')
    <2> DEFINE U == unread(p, n)
               D == dismissed(U, other(p))
    <2>1. U \in LinkFns /\ Fades(link, U)
      BY <1>1, <1>4, FadeTake DEF ReadToken, ReadRelayed, ReadEnd, reads
    <2>2. \/ link' = U
          \/ \E m \in {"role_swap_request", "accepted", "rejected"} :
                link' = sendPeer(U, other(p), m)
          \/ link' = ended(D, p, n)
      BY <1>4 DEF ReadToken, ReadRelayed, ReadEnd, ended
    <2> HIDE DEF U
    <2>3. D \in LinkFns /\ Fades(U, D)
      BY <1>1, <2>1, FadePeer, RelayMessages
    <2> HIDE DEF D
    <2>4. Fades(D, ended(D, p, n))
      BY <2>3, FadeSend, RelayMessages
    <2>5. \A m \in {"role_swap_request", "accepted", "rejected"} :
             Fades(U, sendPeer(U, other(p), m))
      BY <1>1, <2>1, FadePeer, RelayMessages
    <2> QED
      BY <2>1, <2>2, <2>3, <2>4, <2>5, FadeChain
  <1> QED
    BY <1>2, <1>3, <1>4 DEF Relay

LEMMA LinksFade ==
    ASSUME Inv, [Next]_vars
    PROVE  Fades(link, link')
  <1>1. TypeOK /\ link \in LinkFns /\ Fades(link, link)
    <2>1. "host" \in Peers
      BY DEF Peers
    <2> QED
      BY <2>1, PeerTyped DEF Inv, Fades
  <1>2. CASE UNCHANGED vars
    BY <1>2, <1>1 DEF vars
  <1>3. ASSUME NEW p \in Peers, Disturb(p) PROVE Fades(link, link')
    <2> DEFINE a == client[p].active
    <2>1. a \in Links \cup {None}
      BY <1>1, PeerTyped
    <2>2. ASSUME NEW m \in Messages
          PROVE  sendUp(link, p, a, m) \in LinkFns /\ Fades(link, sendUp(link, p, a, m))
      <3>1. CASE a = None
        BY <1>1, <3>1 DEF sendUp
      <3>2. CASE a \in Links
        BY <1>1, <3>2, FadeSend
      <3> QED
        BY <2>1, <3>1, <3>2
    <2>3. CASE RequestSwap(p) \/ SwapTimeout(p)
      <3>1. link' = link \/ link' = sendUp(link, p, a, "role_swap_request")
        BY <2>3 DEF RequestSwap, SwapTimeout
      <3> QED
        BY <1>1, <2>2, <3>1, RelayMessages
    <2>4. CASE DisconnectSession(p)
      <3> DEFINE L == sendUp(link, p, a, "end_session")
      <3>1. link' = closeSocket(L, p, a) /\ "end_session" \in Messages
        BY <2>4 DEF DisconnectSession, leave, Messages
      <3>2. L \in LinkFns /\ Fades(link, L) /\ Fades(L, L)
        BY <2>2, <3>1 DEF Fades
      <3> HIDE DEF L
      <3>3. Fades(L, closeSocket(L, p, a))
        <4>1. CASE a = None
          BY <3>2, <4>1 DEF closeSocket
        <4>2. CASE a \in Links
          BY <3>1, <3>2, <4>2, FadeSend
        <4> QED
          BY <2>1, <4>1, <4>2
      <3> QED
        BY <3>1, <3>2, <3>3, FadeChain
    <2>5. ASSUME NEW n \in Links, Break(p, n) PROVE Fades(link, link')
      <3>1. carries(link[p][n]) /\ link' = [link EXCEPT ![p][n].broken = TRUE]
        BY <2>5 DEF Break
      <3>2. \A q \in Peers : carries(link[q][1]) \/ link'[q][1] = link[q][1]
        BY <3>1, <1>1, Bounds DEF LinkFns
      <3> QED
        BY <3>2 DEF Fades
    <2> QED
      BY <1>3, <2>3, <2>4, <2>5 DEF Disturb
  <1>4. CASE Reap
    <2> DEFINE H == dismissed(link, "host")
    <2>1. "host" \in Peers /\ "guest" \in Peers
      BY DEF Peers
    <2>2. H \in LinkFns /\ Fades(link, H)
      BY <1>1, <2>1, FadePeer, RelayMessages
    <2>3. link' = dismissed(H, "guest")
      BY <1>4 DEF Reap
    <2> HIDE DEF H
    <2>4. Fades(H, dismissed(H, "guest"))
      BY <1>1, <2>1, <2>2, FadePeer, RelayMessages
    <2> QED
      BY <2>2, <2>3, <2>4, FadeChain
  <1> QED
    BY <1>2, <1>3, <1>4, ClientFades, RelayFades DEF Next

LEMMA CutStays ==
    ASSUME Inv, [Next]_vars, NEW p \in Peers, client[p].cut
    PROVE  client'[p].cut
  <1>1. client \in [Peers -> ClientRecord] /\ client[p] \in ClientRecord
    BY DEF Inv, TypeOK
  <1>2. ASSUME NEW q \in Peers, NEW d, client' = [client EXCEPT ![q] = d],
               d.cut \/ ~client[q].cut
        PROVE  client'[p].cut
    BY <1>1, <1>2
  <1>3. ASSUME NEW c \in ClientRecord
        PROVE  rendered(c) \in ClientRecord /\ rendered(c).cut = c.cut
    BY DEF rendered, ClientRecord
  <1>4. ASSUME NEW q \in Peers, NEW c \in ClientRecord, c.cut = client[q].cut,
               NEW k, NEW L, attemptReconnect(q, c, k, L)
        PROVE  client'[p].cut
    <2> DEFINE a == [c EXCEPT !.screen = "error"]
               b == [c EXCEPT !.last = @ + 1, !.attempt = k]
    <2>1. \E d : client' = [client EXCEPT ![q] = d] /\ d.cut = c.cut
      <3>1. a.cut = c.cut /\ b.cut = c.cut
        BY <1>4 DEF ClientRecord
      <3>2. client' = [client EXCEPT ![q] = a] \/ client' = [client EXCEPT ![q] = b]
        BY <1>4 DEF attemptReconnect
      <3> HIDE DEF a, b
      <3> QED
        BY <3>1, <3>2
    <2> QED
      BY <1>4, <2>1, <1>2
  <1>5. ASSUME NEW q \in Peers
        PROVE  /\ client[q] \in ClientRecord
               /\ retry(client[q]).cut = client[q].cut
    BY <1>1 DEF retry, ClientRecord
  <1>6. ASSUME NEW q \in Peers, Client(q) PROVE client'[p].cut
    <2> DEFINE c == client[q]
               r == rendered(c)
    <2>1. c \in ClientRecord /\ r \in ClientRecord /\ r.cut = c.cut
      BY <1>3, <1>5
    <2> HIDE DEF r
    <2>2. CASE DeriveToken(q)
      BY <1>1, <2>2 DEF DeriveToken, ClientRecord
    <2>3. CASE RetryTimer(q)
      <3> DEFINE d == [c EXCEPT !.sleeping = FALSE]
      <3>1. d \in ClientRecord /\ d.cut = c.cut
        BY <2>1 DEF ClientRecord
      <3>2. \/ attemptReconnect(q, d, d.attempt + 1, link)
            \/ client' = [client EXCEPT ![q] = d]
        BY <2>3 DEF RetryTimer
      <3> HIDE DEF d
      <3> QED
        BY <3>1, <3>2, <1>2, <1>4
    <2>4. ASSUME NEW n \in Links,
                 \/ Opens(q, n) \/ HearUnwired(q, n)
                 \/ HearPeerDisconnected(q, n)
          PROVE  client'[p].cut
      BY <2>4 DEF Opens, HearUnwired, HearPeerDisconnected
    <2>5. ASSUME NEW n \in Links, ConnectFails(q, n) PROVE client'[p].cut
      BY <2>5, <1>2, <1>5 DEF ConnectFails
    <2>6. ASSUME NEW n \in Links, CloseEvent(q, n) PROVE client'[p].cut
      <3> DEFINE d == [c EXCEPT !.active = None]
                 L == closeSocket(link, q, n)
      <3>1. d \in ClientRecord /\ d.cut = c.cut
        BY <2>1 DEF ClientRecord
      <3>2. \/ attemptReconnect(q, d, 1, L)
            \/ client' = [client EXCEPT ![q] = retry(c)]
            \/ client' = client
        BY <2>6 DEF CloseEvent
      <3> HIDE DEF d, L
      <3> QED
        BY <3>1, <3>2, <1>2, <1>4, <1>5
    <2>7. ASSUME NEW n \in Links, HearError(q, n) \/ HearSessionEnded(q, n)
          PROVE  client'[p].cut
      <3>1. client' = [client EXCEPT ![q].screen = "error", ![q].active = None]
        BY <2>7 DEF HearError, HearSessionEnded, leave
      <3> QED
        BY <1>1, <3>1 DEF ClientRecord
    <2>8. ASSUME NEW n \in Links,
                 HearReconnected(q, n) \/ HearPeerReconnected(q, n)
          PROVE  client'[p].cut
      <3>1. \/ client' = [client EXCEPT ![q] =
                            [r EXCEPT !.active = n, !.epoch = @ + 1]]
            \/ client' = [client EXCEPT ![q] = [r EXCEPT !.epoch = @ + 1]]
        BY <2>8 DEF HearReconnected, HearPeerReconnected, r
      <3>2. /\ [r EXCEPT !.active = n, !.epoch = @ + 1].cut = r.cut
            /\ [r EXCEPT !.epoch = @ + 1].cut = r.cut
        BY <2>1 DEF ClientRecord
      <3> QED
        BY <2>1, <3>1, <3>2, <1>2
    <2>9. ASSUME NEW n \in Links,
                 HearSwapRequest(q, n) \/ HearSwapResponse(q, n)
          PROVE  client'[p].cut
      <3>1. \/ client' = client
            \/ client' = [client EXCEPT ![q] = [r EXCEPT !.role = flipped(@)]]
            \/ client' = [client EXCEPT ![q].awaiting = FALSE]
        BY <2>9 DEF HearSwapRequest, HearSwapResponse, r
      <3>2. [r EXCEPT !.role = flipped(@)].cut = r.cut
        BY <2>1 DEF ClientRecord
      <3>3. CASE client' = [client EXCEPT ![q].awaiting = FALSE]
        BY <1>1, <3>3 DEF ClientRecord
      <3> QED
        BY <2>1, <3>1, <3>2, <3>3, <1>2
    <2> QED
      BY <1>6, <2>2, <2>3, <2>4, <2>5, <2>6, <2>7, <2>8, <2>9 DEF Client
  <1>7. ASSUME NEW q \in Peers, Disturb(q) PROVE client'[p].cut
    <2> DEFINE b == client[q]
               c == [b EXCEPT !.awaiting = TRUE, !.asked = @ + 1]
    <2>1. CASE RequestSwap(q)
      <3>1. /\ c.cut = b.cut /\ [c EXCEPT !.timers = @ + 1].cut = b.cut
        BY <1>5 DEF ClientRecord
      <3>2. \E d : client' = [client EXCEPT ![q] = d] /\ d.cut = b.cut
        <4>1. \/ client' = [client EXCEPT ![q] = c]
              \/ client' = [client EXCEPT ![q] = [c EXCEPT !.timers = @ + 1]]
          BY <2>1 DEF RequestSwap
        <4> HIDE DEF c
        <4> QED
          BY <3>1, <4>1
      <3> QED
        BY <3>2, <1>2
    <2>2. CASE SwapTimeout(q)
      BY <2>2, <1>1 DEF SwapTimeout, ClientRecord
    <2>3. CASE DisconnectSession(q)
      <3>1. client' = [client EXCEPT ![q].screen = "start", ![q].active = None]
        BY <2>3 DEF DisconnectSession, leave
      <3> QED
        BY <1>1, <3>1 DEF ClientRecord
    <2> QED
      BY <1>7, <2>1, <2>2, <2>3 DEF Disturb, Break
  <1>8. ASSUME NEW q \in Peers, Relay(q) PROVE client' = client
    BY <1>8 DEF Relay, ReadReconnect, Announce, Confirm, ReadToken,
       ReadRelayed, ReadEnd, HandleDisconnect
  <1>9. CASE Reap \/ UNCHANGED vars
    BY <1>9 DEF Reap, vars
  <1> QED
    BY <1>6, <1>7, <1>8, <1>9 DEF Next

(* The clients were on their first connections if they still are.          *)
LEMMA OnBefore ==
    ASSUME Inv, [Next]_vars, On'
    PROVE  On
  <1>1. \A p \in Peers : carries(link'[p][1]) /\ ~client'[p].cut
    BY DEF On, Undisturbed, carries
  <1> QED
    BY <1>1, LinksFade, CutStays DEF On, Undisturbed, Fades

(* While they are, no other socket exists.                                 *)
LEMMA OnFacts ==
    ASSUME Inv, On, NEW p \in Peers
    PROVE  /\ client[p].screen = "paired" /\ client[p].active = 1
           /\ client[p].last = 1 /\ ~client[p].sleeping
           /\ carries(link[p][1]) /\ link[p][1].wired
           /\ handler[p][1] = "serving"
           /\ slot[p].conn = 1 /\ slot[p].connected
           /\ \A n \in Links : n # 1 =>
                 link[p][n] = Unused /\ handler[p][n] = "none"
           /\ ups(p) \in Seq(Messages) /\ downs(p) \in Seq(Messages)
           /\ client[p] \in ClientRecord /\ link[p][1] \in LinkRecord
           /\ 1 \in Links
  <1>1. /\ carries(link[p][1]) /\ 1 \in Links /\ link[p][1] \in LinkRecord
        /\ client[p] \in ClientRecord /\ Links \subseteq Nat \ {0}
        /\ None \notin Links
    BY Bounds, PeerTyped DEF On, Undisturbed, Inv
  <1>2. /\ SocketOK(client[p], link[p][1], handler[p][1], slot[p], 1)
        /\ \A n \in Links :
              SocketOK(client[p], link[p][n], handler[p][n], slot[p], n)
        /\ ClientOK(client[p], link[p][client[p].last])
    BY <1>1 DEF Inv, PeerOK
  <1>3. /\ client[p].screen = "paired" /\ client[p].active = 1
        /\ client[p].last = 1 /\ link[p][1].wired /\ handler[p][1] = "serving"
        /\ slot[p].conn = 1 /\ slot[p].connected
    BY <1>1, <1>2 DEF SocketOK, carries
  <1>4. ~client[p].sleeping
    BY <1>2, <1>3 DEF ClientOK, None
  <1>5. ASSUME NEW n \in Links, n # 1
        PROVE  link[p][n] = Unused /\ handler[p][n] = "none"
    <2>1. n > client[p].last
      BY <1>1, <1>3, <1>5
    <2> QED
      BY <1>2, <2>1 DEF SocketOK
  <1>6. ups(p) \in Seq(Messages) /\ downs(p) \in Seq(Messages)
    BY <1>1 DEF LinkRecord, ups, downs
  <1> QED
    BY <1>1, <1>3, <1>4, <1>5, <1>6

-----------------------------------------------------------------------------
(* A step of a swap *)

Reco == {"peer_reconnected", "reconnected"}

(* Swapping, seen from a peer p and its peer o.                            *)
Pair(p, o) ==
    /\ Negotiating(p) /\ Negotiating(o)
    /\ ~Has(downs(p), Reco) /\ ~Has(downs(o), Reco)
    /\ ~(HalfDone(p) /\ HalfDone(o))
    /\ client[p].role # client[o].role <=> ~(HalfDone(p) \/ HalfDone(o))

LEMMA SwappingPair ==
    ASSUME NEW p \in Peers
    PROVE  /\ Swapping <=> (On => Pair(p, other(p)))
           /\ Swapping' <=> (On' => Pair(p, other(p))')
  <1>1. CASE p = "host"
    BY <1>1 DEF Swapping, Pair, Reco, Peers, other
  <1>2. CASE p = "guest"
    BY <1>2 DEF Swapping, Pair, Reco, Peers, other
  <1> QED
    BY <1>1, <1>2 DEF Peers

Kinds == {Request, Response, {"accepted"}, Reco}

(* The queue r is the queue q, but for messages that swap nothing.         *)
Quiet(q, r) ==
    \A S \in Kinds : (Has(r, S) <=> Has(q, S)) /\ (Once(q, S) => Once(r, S))

LEMMA QuietMoves ==
    ASSUME NEW q \in Seq(Messages)
    PROVE  /\ Quiet(q, q)
           /\ \A m \in Messages :
                 (\A S \in Kinds : m \notin S) => Quiet(q, Append(q, m))
           /\ q # <<>> /\ (\A S \in Kinds : Head(q) \notin S) =>
                 Quiet(q, Tail(q))
  <1>1. Quiet(q, q)
    BY DEF Quiet
  <1>2. ASSUME NEW m \in Messages, \A S \in Kinds : m \notin S
        PROVE  Quiet(q, Append(q, m))
    BY <1>2, QueuePut DEF Quiet
  <1>3. ASSUME q # <<>>, \A S \in Kinds : Head(q) \notin S
        PROVE  Quiet(q, Tail(q))
    BY <1>3, QueueTake DEF Quiet
  <1> QED
    BY <1>1, <1>2, <1>3

(* A step that swaps nothing.                                              *)
LEMMA QuietStep ==
    ASSUME Swapping, On, NEW p \in Peers,
           \A q \in Peers : /\ Quiet(ups(q), ups(q)')
                            /\ Quiet(downs(q), downs(q)')
                            /\ client'[q].role = client[q].role
                            /\ client'[q].awaiting = client[q].awaiting
    PROVE  Swapping'
  <1> DEFINE o == other(p)
  <1>1. o \in Peers /\ other(o) = p
    BY TwoPeers
  <1>2. Pair(p, o)
    BY SwappingPair
  <1>3. ASSUME NEW q \in Peers, NEW S \in Kinds
        PROVE  /\ Has(ups(q)', S) <=> Has(ups(q), S)
               /\ Has(downs(q)', S) <=> Has(downs(q), S)
               /\ Once(ups(q), S) => Once(ups(q)', S)
               /\ Once(downs(q), S) => Once(downs(q)', S)
    BY DEF Quiet
  <1>4. Request \in Kinds /\ Response \in Kinds /\ Reco \in Kinds
        /\ {"accepted"} \in Kinds
    BY DEF Kinds
  <1> HIDE DEF o
  <1>5. ASSUME NEW q \in {p, o} PROVE Negotiating(q)'
    <2>1. Negotiating(q) /\ q \in Peers /\ other(q) \in Peers
      BY <1>1, <1>2 DEF Pair, o
    <2> QED
      BY <2>1, <1>3, <1>4 DEF Negotiating
  <1>6. \A q \in {p, o} : HalfDone(q)' <=> HalfDone(q)
    BY <1>1, <1>3, <1>4 DEF HalfDone, o
  <1>7. Pair(p, o)'
    BY <1>1, <1>2, <1>3, <1>4, <1>5, <1>6 DEF Pair
  <1> QED
    BY <1>7, SwappingPair DEF o

LEMMA QuietQueues ==
    ASSUME NEW p \in Peers, Quiet(ups(p), ups(p)'), Quiet(downs(p), downs(p)'),
           Quiet(ups(other(p)), ups(other(p))'),
           Quiet(downs(other(p)), downs(other(p))')
    PROVE  \A q \in Peers : Quiet(ups(q), ups(q)') /\ Quiet(downs(q), downs(q)')
  BY TwoPeers DEF ups, downs

(* A step on the first socket of p.                                        *)
LEMMA FirstSocket ==
    ASSUME Inv, NEW p \in Peers, NEW e \in LinkRecord,
           link' = put(link, p, 1, e)
    PROVE  /\ ups(p)' = e.up /\ downs(p)' = e.down
           /\ ups(other(p))' = ups(other(p))
           /\ downs(other(p))' = downs(other(p))
  <1>1. link \in LinkFns /\ 1 \in Links /\ other(p) \in Peers /\ other(p) # p
    BY PeerTyped, Bounds, TwoPeers DEF Inv
  <1>2. link'[p][1] = e /\ link'[other(p)][1] = link[other(p)][1]
    <2>1. Puts(link', link, p, 1, e)
      BY <1>1, PutPuts
    <2> QED
      BY <1>1, <2>1 DEF Puts
  <1> QED
    BY <1>2 DEF ups, downs

LEMMA DeriveTokenSwap ==
    ASSUME Inv, Swapping, On, NEW p \in Peers, DeriveToken(p)
    PROVE  Swapping'
  <1> DEFINE m == "reconnect_token"
             e == upTo(link[p][1], m)
  <1>1. /\ link \in LinkFns /\ 1 \in Links /\ link[p][1] \in LinkRecord
        /\ carries(link[p][1])
        /\ \A q \in Peers : ups(q) \in Seq(Messages) /\ downs(q) \in Seq(Messages)
    BY OnFacts, PeerTyped DEF Inv
  <1>2. m \in Messages /\ \A S \in Kinds : m \notin S
    BY DEF Messages, Kinds, Request, Response, Reco
  <1>3. link' = put(link, p, 1, e)
    BY <1>1, SendUpAt DEF DeriveToken
  <1>4. e \in LinkRecord /\ e.up = Append(ups(p), m) /\ e.down = downs(p)
    BY <1>1, <1>2, EditFields DEF ups, downs
  <1> HIDE DEF e
  <1>5. /\ ups(p)' = Append(ups(p), m) /\ downs(p)' = downs(p)
        /\ ups(other(p))' = ups(other(p)) /\ downs(other(p))' = downs(other(p))
    BY <1>3, <1>4, FirstSocket
  <1>6. \A q \in Peers : /\ client'[q].role = client[q].role
                         /\ client'[q].awaiting = client[q].awaiting
    BY DEF DeriveToken, Inv, TypeOK, ClientRecord
  <1>7. \A q \in Peers : Quiet(ups(q), ups(q)') /\ Quiet(downs(q), downs(q)')
    <2>1. /\ Quiet(ups(p), ups(p)') /\ Quiet(downs(p), downs(p)')
          /\ Quiet(ups(other(p)), ups(other(p))')
          /\ Quiet(downs(other(p)), downs(other(p))')
      BY <1>1, <1>2, <1>5, TwoPeers, QuietMoves
    <2> QED
      BY <2>1, QuietQueues
  <1> QED
    BY <1>6, <1>7, QuietStep

LEMMA HearPeerDisconnectedSwap ==
    ASSUME Inv, Swapping, On, NEW p \in Peers, HearPeerDisconnected(p, 1)
    PROVE  Swapping'
  <1> DEFINE e == heard(link[p][1])
  <1>1. /\ link \in LinkFns /\ 1 \in Links /\ link[p][1] \in LinkRecord
        /\ \A q \in Peers : ups(q) \in Seq(Messages) /\ downs(q) \in Seq(Messages)
    BY OnFacts, PeerTyped DEF Inv
  <1>2. /\ link[p][1].down # <<>> /\ Head(link[p][1].down) = "peer_disconnected"
        /\ link' = rest(p, 1) /\ client' = client
    BY DEF HearPeerDisconnected, wiredHears, hears
  <1>3. \A S \in Kinds : "peer_disconnected" \notin S
    BY DEF Kinds, Request, Response, Reco
  <1>4. link' = put(link, p, 1, e)
    BY <1>1, <1>2, RestAt
  <1>5. e \in LinkRecord /\ e.down = Tail(downs(p)) /\ e.up = ups(p)
    BY <1>1, <1>2, TakeFields DEF ups, downs
  <1> HIDE DEF e
  <1>6. /\ ups(p)' = ups(p) /\ downs(p)' = Tail(downs(p))
        /\ ups(other(p))' = ups(other(p)) /\ downs(other(p))' = downs(other(p))
    BY <1>4, <1>5, FirstSocket
  <1>7. downs(p) # <<>> /\ Head(downs(p)) = "peer_disconnected"
    BY <1>2 DEF downs
  <1>8. \A q \in Peers : Quiet(ups(q), ups(q)') /\ Quiet(downs(q), downs(q)')
    <2>1. /\ Quiet(ups(p), ups(p)') /\ Quiet(downs(p), downs(p)')
          /\ Quiet(ups(other(p)), ups(other(p))')
          /\ Quiet(downs(other(p)), downs(other(p))')
      BY <1>1, <1>3, <1>6, <1>7, TwoPeers, QuietMoves
    <2> QED
      BY <2>1, QuietQueues
  <1> QED
    BY <1>2, <1>8, QuietStep

LEMMA ReadTokenSwap ==
    ASSUME Inv, Swapping, On, NEW p \in Peers, ReadToken(p, 1)
    PROVE  Swapping'
  <1> DEFINE e == taken(link[p][1])
             m == "reconnect_token"
  <1>1. /\ link \in LinkFns /\ 1 \in Links /\ link[p][1] \in LinkRecord
        /\ \A q \in Peers : ups(q) \in Seq(Messages) /\ downs(q) \in Seq(Messages)
    BY OnFacts, PeerTyped DEF Inv
  <1>2. /\ link[p][1].up # <<>> /\ Head(link[p][1].up) = m
        /\ link' = unread(p, 1) /\ client' = client
    BY DEF ReadToken, reads
  <1>3. \A S \in Kinds : m \notin S
    BY DEF Kinds, Request, Response, Reco
  <1>4. link' = put(link, p, 1, e)
    BY <1>1, <1>2, UnreadAt
  <1>5. e \in LinkRecord /\ e.up = Tail(ups(p)) /\ e.down = downs(p)
    BY <1>1, <1>2, TakeFields DEF ups, downs
  <1> HIDE DEF e
  <1>6. /\ ups(p)' = Tail(ups(p)) /\ downs(p)' = downs(p)
        /\ ups(other(p))' = ups(other(p)) /\ downs(other(p))' = downs(other(p))
    BY <1>4, <1>5, FirstSocket
  <1>7. ups(p) # <<>> /\ Head(ups(p)) = m
    BY <1>2 DEF ups
  <1>8. \A q \in Peers : Quiet(ups(q), ups(q)') /\ Quiet(downs(q), downs(q)')
    <2>1. /\ Quiet(ups(p), ups(p)') /\ Quiet(downs(p), downs(p)')
          /\ Quiet(ups(other(p)), ups(other(p))')
          /\ Quiet(downs(other(p)), downs(other(p))')
      BY <1>1, <1>3, <1>6, <1>7, TwoPeers, QuietMoves
    <2> QED
      BY <2>1, QuietQueues
  <1> QED
    BY <1>2, <1>8, QuietStep

LEMMA KindsOfMessages ==
    /\ "role_swap_request" \in Request /\ "role_swap_request" \notin Response
    /\ "accepted" \in Response /\ "rejected" \in Response
    /\ "accepted" \notin Request /\ "rejected" \notin Request
    /\ \A m \in {"role_swap_request", "accepted", "rejected"} : m \notin Reco
    /\ {"role_swap_request", "accepted", "rejected"} \subseteq Messages
    /\ \A q : Has(q, {"accepted"}) => Has(q, Response)
    /\ "role_swap_request" \notin {"accepted"} /\ "rejected" \notin {"accepted"}
  BY DEF Request, Response, Reco, Messages, Has

(* p asks.                                                                 *)
LEMMA RequestSwapSwap ==
    ASSUME Inv, Swapping, On, NEW p \in Peers, RequestSwap(p)
    PROVE  Swapping'
  <1> DEFINE o == other(p)
             m == "role_swap_request"
             e == upTo(link[p][1], m)
             q == ups(p)
             r == Append(q, m)
  <1>1. /\ link \in LinkFns /\ 1 \in Links /\ link[p][1] \in LinkRecord
        /\ carries(link[p][1]) /\ client[p].active = 1 /\ 1 # None
        /\ q \in Seq(Messages) /\ client[p] \in ClientRecord
        /\ client \in [Peers -> ClientRecord]
    BY OnFacts, PeerTyped DEF Inv, None, TypeOK
  <1>2. o \in Peers /\ other(o) = p /\ o # p /\ m \in Messages
    BY TwoPeers, KindsOfMessages
  <1>3. /\ link' = put(link, p, 1, e)
        /\ client'[p].role = client[p].role /\ client'[p].awaiting
        /\ client'[o] = client[o] /\ ~client[p].awaiting
    <2> DEFINE c == [client[p] EXCEPT !.awaiting = TRUE, !.asked = @ + 1]
               d == IF c.active = None THEN c ELSE [c EXCEPT !.timers = @ + 1]
    <2>1. /\ ~client[p].awaiting /\ client' = [client EXCEPT ![p] = d]
          /\ link' = sendUp(link, p, c.active, m)
      BY DEF RequestSwap
    <2>2. /\ c.active = client[p].active /\ d.role = client[p].role
          /\ d.awaiting
      BY <1>1 DEF ClientRecord
    <2> HIDE DEF d
    <2>3. client'[p] = d /\ client'[o] = client[o]
      BY <1>1, <1>2, <2>1
    <2>4. sendUp(link, p, 1, m) = put(link, p, 1, e)
      BY <1>1, SendUpAt
    <2> QED
      BY <1>1, <2>1, <2>2, <2>3, <2>4
  <1>4. e \in LinkRecord /\ e.up = r /\ e.down = downs(p)
    BY <1>1, <1>2, EditFields DEF ups, downs
  <1> HIDE DEF e
  <1>5. /\ ups(p)' = r /\ downs(p)' = downs(p)
        /\ ups(o)' = ups(o) /\ downs(o)' = downs(o)
    BY <1>3, <1>4, FirstSocket
  <1>6. Pair(p, o)
    BY SwappingPair
  <1>7. /\ \A S : Has(r, S) <=> Has(q, S) \/ m \in S
        /\ \A S : Once(q, S) /\ (m \in S => ~Has(q, S)) => Once(r, S)
    BY <1>1, <1>2, QueuePut
  <1> HIDE DEF o, r, q, m
  <1>8. /\ ups(p) = q
        /\ m \in Request /\ m \notin Response /\ m \notin {"accepted"}
    BY KindsOfMessages DEF m, q
  <1>9. Negotiating(p)'
    <2>1. Negotiating(p) /\ other(p) = o
      BY <1>6 DEF Pair, o
    <2> QED
      BY <2>1, <1>3, <1>5, <1>7, <1>8 DEF Negotiating
  <1>10. Negotiating(o)'
    <2>1. Negotiating(o) /\ other(o) = p
      BY <1>2, <1>6 DEF Pair
    <2> QED
      BY <2>1, <1>3, <1>5, <1>7, <1>8 DEF Negotiating
  <1>11. (HalfDone(p)' <=> HalfDone(p)) /\ (HalfDone(o)' <=> HalfDone(o))
    <2>1. other(p) = o /\ other(o) = p
      BY <1>2 DEF o
    <2> QED
      BY <2>1, <1>5, <1>7, <1>8 DEF HalfDone
  <1>12. Pair(p, o)'
    BY <1>3, <1>5, <1>6, <1>9, <1>10, <1>11 DEF Pair
  <1> QED
    BY <1>12, SwappingPair DEF o

(* The relay passes m on.                                                  *)
LEMMA ReadRelayedSwap ==
    ASSUME Inv, Swapping, On, NEW p \in Peers, ReadRelayed(p, 1)
    PROVE  Swapping'
  <1> DEFINE o == other(p)
             e == taken(link[p][1])
             u == ups(p)
             t == Tail(u)
             d == downs(o)
  <1>1. PICK m \in {"role_swap_request", "accepted", "rejected"} :
           /\ link[p][1].up # <<>> /\ Head(link[p][1].up) = m
           /\ link' = sendPeer(unread(p, 1), other(p), m)
           /\ client' = client
    BY DEF ReadRelayed, reads
  <1> DEFINE r == Append(d, m)
             f == downTo(link[o][1], m)
  <1>2. /\ o \in Peers /\ other(o) = p /\ o # p /\ m \in Messages
    BY TwoPeers, KindsOfMessages
  <1>3. /\ link \in LinkFns /\ 1 \in Links /\ link[p][1] \in LinkRecord
        /\ link[o][1] \in LinkRecord /\ carries(link[o][1])
        /\ u \in Seq(Messages) /\ d \in Seq(Messages)
        /\ slot[o].connected /\ slot[o].conn = 1
    BY <1>2, OnFacts, PeerTyped DEF Inv
  <1>4. /\ e \in LinkRecord /\ e.up = t /\ e.down = downs(p)
        /\ f \in LinkRecord /\ f.up = ups(o) /\ f.down = r
    <2>1. e \in LinkRecord /\ e.up = t /\ e.down = downs(p)
      BY <1>1, <1>3, TakeFields DEF ups, downs
    <2>2. f \in LinkRecord /\ f.up = ups(o) /\ f.down = r
      <3> DEFINE g == link[o][1]
      <3>1. g \in LinkRecord /\ carries(g) /\ g.up = ups(o) /\ g.down = d
        BY <1>3 DEF ups, downs
      <3> HIDE DEF g, d
      <3>2. /\ downTo(g, m) \in LinkRecord /\ downTo(g, m).up = g.up
            /\ downTo(g, m).down = Append(g.down, m)
        BY <1>2, <3>1, EditFields
      <3> QED
        BY <3>1, <3>2 DEF g
    <2> QED
      BY <2>1, <2>2
  <1>5. /\ ups(p)' = t /\ downs(p)' = downs(p)
        /\ ups(o)' = ups(o) /\ downs(o)' = r
    <2> DEFINE U == unread(p, 1)
    <2>1. U = put(link, p, 1, e)
      BY <1>3, UnreadAt
    <2> HIDE DEF e
    <2>2. /\ U \in LinkFns /\ U[p][1] = e /\ U[o][1] = link[o][1]
      <3>1. Puts(U, link, p, 1, e)
        BY <1>2, <1>3, <1>4, <2>1, PutPuts
      <3> QED
        BY <1>2, <1>3, <3>1 DEF Puts
    <2> HIDE DEF U
    <2>3. link' = put(U, o, 1, f)
      <3>1. link' = sendDown(U, o, 1, m)
        BY <1>1, <1>3 DEF sendPeer, U
      <3> QED
        BY <1>2, <1>3, <2>2, <3>1, SendDownAt
    <2> HIDE DEF f
    <2>4. link'[o][1] = f /\ link'[p][1] = e
      <3>1. Puts(link', U, o, 1, f)
        BY <1>2, <1>3, <1>4, <2>2, <2>3, PutPuts
      <3> QED
        BY <1>2, <1>3, <2>2, <3>1 DEF Puts
    <2> QED
      BY <1>4, <2>4 DEF ups, downs
  <1>6. Pair(p, o)
    BY SwappingPair
  <1>7. u # <<>> /\ Head(u) = m
    BY <1>1 DEF ups
  <1>8. /\ \A S : Has(r, S) <=> Has(d, S) \/ m \in S
        /\ \A S : Once(d, S) /\ (m \in S => ~Has(d, S)) => Once(r, S)
    BY <1>2, <1>3, QueuePut
  <1>9. /\ \A S : Has(u, S) <=> m \in S \/ Has(t, S)
        /\ \A S : Once(u, S) => Once(t, S)
        /\ \A S : Once(u, S) /\ m \in S => ~Has(t, S)
    BY <1>3, <1>7, QueueTake
  <1>10. /\ ups(p) = u /\ downs(o) = d /\ other(p) = o /\ other(o) = p
    BY <1>2
  <1> HIDE DEF o, u, t, d, r, e, f
  <1>11. /\ m \in Request <=> m \notin Response
         /\ m \in {"accepted"} => m \in Response
         /\ m \notin Reco
    BY <1>1, KindsOfMessages
  <1>12. Negotiating(p)'
    <2>1. Negotiating(p)
      BY <1>6 DEF Pair
    <2>2. client'[p].awaiting = client[p].awaiting
      BY <1>1
    <2> QED
      BY <2>1, <2>2, <1>5, <1>8, <1>9, <1>10, <1>11 DEF Negotiating
  <1>13. Negotiating(o)'
    <2>1. Negotiating(o)
      BY <1>6 DEF Pair
    <2>2. client'[o].awaiting = client[o].awaiting
      BY <1>1
    <2> QED
      BY <2>1, <2>2, <1>5, <1>8, <1>9, <1>10, <1>11 DEF Negotiating
  <1>14. (HalfDone(p)' <=> HalfDone(p)) /\ (HalfDone(o)' <=> HalfDone(o))
    BY <1>5, <1>8, <1>9, <1>10 DEF HalfDone
  <1>15. ~Has(downs(o)', Reco) /\ ~Has(downs(p)', Reco)
    BY <1>5, <1>6, <1>8, <1>10, <1>11 DEF Pair
  <1>16. Pair(p, o)'
    BY <1>1, <1>6, <1>12, <1>13, <1>14, <1>15 DEF Pair
  <1> QED
    BY <1>16, SwappingPair DEF o

LEMMA Flips ==
    ASSUME NEW a \in {"sender", "receiver"}, NEW b \in {"sender", "receiver"}
    PROVE  flipped(a) # b <=> a = b
  BY DEF flipped

(* p hears of the request of o, and answers m.                             *)
LEMMA HearSwapRequestSwap ==
    ASSUME Inv, Swapping, On, NEW p \in Peers, HearSwapRequest(p, 1)
    PROVE  Swapping'
  <1> DEFINE o == other(p)
             a == "role_swap_request"
             h == heard(link[p][1])
             d == downs(p)
             t == Tail(d)
             u == ups(p)
  <1>1. /\ link[p][1].down # <<>> /\ Head(link[p][1].down) = a
    BY DEF HearSwapRequest, wiredHears, hears
  <1>2. /\ o \in Peers /\ other(o) = p /\ o # p
    BY TwoPeers
  <1>3. /\ link \in LinkFns /\ 1 \in Links /\ link[p][1] \in LinkRecord
        /\ carries(link[p][1]) /\ client[p].screen = "paired"
        /\ u \in Seq(Messages) /\ d \in Seq(Messages)
        /\ client[p] \in ClientRecord /\ client[o] \in ClientRecord
        /\ client \in [Peers -> ClientRecord]
    BY <1>2, OnFacts, PeerTyped DEF Inv, TypeOK
  <1>4. PICK m \in {"accepted", "rejected"} :
          /\ link' = sendUp(rest(p, 1), p, 1, m)
          /\ m = "accepted" => /\ ~client[p].awaiting
                               /\ client'[p].role = flipped(client[p].role)
          /\ m = "rejected" => client'[p].role = client[p].role
          /\ client'[p].awaiting = client[p].awaiting
          /\ client'[o] = client[o]
    <2>1. CASE /\ ~client[p].awaiting
               /\ client' = [client EXCEPT ![p] =
                               [rendered(client[p]) EXCEPT !.role = flipped(@)]]
               /\ link' = sendUp(rest(p, 1), p, 1, "accepted")
      <3> DEFINE c == [rendered(client[p]) EXCEPT !.role = flipped(@)]
      <3>1. c.role = flipped(client[p].role) /\ c.awaiting = FALSE
        BY <1>3 DEF rendered, ClientRecord
      <3> HIDE DEF c
      <3>2. client'[p] = c /\ client'[o] = client[o]
        BY <1>2, <1>3, <2>1 DEF c
      <3>3. client[p].awaiting = FALSE
        BY <1>3, <2>1 DEF ClientRecord
      <3> QED
        BY <2>1, <3>1, <3>2, <3>3
    <2>2. CASE link' = sendUp(rest(p, 1), p, 1, "rejected") /\ client' = client
      BY <2>2
    <2> QED
      BY <2>1, <2>2 DEF HearSwapRequest
  <1> DEFINE r == Append(u, m)
             e == upTo(h, m)
  <1>5. m \in Messages /\ a \in Messages
    BY KindsOfMessages
  <1>6. /\ h \in LinkRecord /\ h.down = t /\ h.up = u /\ carries(h)
    BY <1>1, <1>3, TakeFields DEF ups, downs, carries
  <1>7. /\ e \in LinkRecord /\ e.up = r /\ e.down = t
    <2> HIDE DEF h, u, t
    <2> QED
      BY <1>5, <1>6, EditFields
  <1>8. link' = put(link, p, 1, e)
    <2>1. rest(p, 1) = put(link, p, 1, h)
      BY <1>3, RestAt
    <2> HIDE DEF h
    <2>2. rest(p, 1) \in LinkFns /\ rest(p, 1)[p][1] = h
      <3>1. Puts(rest(p, 1), link, p, 1, h)
        BY <1>3, <1>6, <2>1, PutPuts
      <3> QED
        BY <3>1 DEF Puts
    <2>3. link' = put(rest(p, 1), p, 1, e)
      BY <1>3, <1>4, <2>2, SendUpAt
    <2> QED
      BY <1>3, <2>1, <2>3, PutPut
  <1> HIDE DEF e
  <1>9. /\ ups(p)' = r /\ downs(p)' = t
        /\ ups(o)' = ups(o) /\ downs(o)' = downs(o)
    BY <1>7, <1>8, FirstSocket
  <1>10. Pair(p, o)
    BY SwappingPair
  <1>11. d # <<>> /\ Head(d) = a
    BY <1>1 DEF downs
  <1>12. /\ \A S : Has(r, S) <=> Has(u, S) \/ m \in S
         /\ \A S : Once(u, S) /\ (m \in S => ~Has(u, S)) => Once(r, S)
    BY <1>3, <1>5, QueuePut
  <1>13. /\ \A S : Has(d, S) <=> a \in S \/ Has(t, S)
         /\ \A S : Once(d, S) => Once(t, S)
         /\ \A S : Once(d, S) /\ a \in S => ~Has(t, S)
    BY <1>3, <1>11, QueueTake
  <1>14. /\ ups(p) = u /\ downs(p) = d /\ other(p) = o /\ other(o) = p
    BY <1>2
  <1> HIDE DEF o, u, t, d, r, h
  <1>15. /\ a \in Request /\ a \notin Response /\ a \notin {"accepted"}
         /\ m \in Response /\ m \notin Request
    BY KindsOfMessages
  <1> HIDE DEF a
  <1>16. Negotiating(p)'
    <2>1. Negotiating(p)
      BY <1>10 DEF Pair
    <2> QED
      BY <2>1, <1>4, <1>9, <1>12, <1>13, <1>14, <1>15 DEF Negotiating
  <1>17. Negotiating(o)'
    <2>1. Negotiating(o)
      BY <1>10 DEF Pair
    <2> QED
      BY <2>1, <1>4, <1>9, <1>12, <1>13, <1>14, <1>15 DEF Negotiating
  <1>18. ~HalfDone(o)
    BY <1>10, <1>13, <1>14, <1>15, KindsOfMessages
       DEF Pair, Negotiating, HalfDone
  <1>19. /\ HalfDone(p)' <=> HalfDone(p)
         /\ HalfDone(o)' <=> HalfDone(o) \/ m = "accepted"
    BY <1>9, <1>12, <1>13, <1>14, <1>15 DEF HalfDone
  <1>20. m = "accepted" => ~HalfDone(p)
    BY <1>4, <1>10, <1>14, KindsOfMessages DEF Pair, Negotiating, HalfDone
  <1>21. /\ client[p].role \in {"sender", "receiver"}
         /\ client[o].role \in {"sender", "receiver"}
    BY <1>3 DEF ClientRecord
  <1>22. client'[p].role # client'[o].role <=>
            ~(HalfDone(p)' \/ HalfDone(o)')
    <2>1. client[p].role # client[o].role <=> ~(HalfDone(p) \/ HalfDone(o))
      BY <1>10 DEF Pair
    <2>2. CASE m = "accepted"
      BY <2>1, <2>2, <1>4, <1>18, <1>19, <1>20, <1>21, Flips
    <2>3. CASE m = "rejected"
      <3>1. m # "accepted"
        BY <2>3
      <3> QED
        BY <2>1, <2>3, <3>1, <1>4, <1>19
    <2> QED
      BY <2>2, <2>3
  <1>23. ~Has(downs(o)', Reco) /\ ~Has(downs(p)', Reco)
    BY <1>9, <1>10, <1>13, <1>14 DEF Pair
  <1>24. Pair(p, o)'
    BY <1>16, <1>17, <1>18, <1>19, <1>20, <1>22, <1>23 DEF Pair
  <1> QED
    BY <1>24, SwappingPair DEF o

(* p hears the answer to its request.                                      *)
LEMMA HearSwapResponseSwap ==
    ASSUME Inv, Swapping, On, NEW p \in Peers, HearSwapResponse(p, 1)
    PROVE  Swapping'
  <1> DEFINE o == other(p)
             e == heard(link[p][1])
             d == downs(p)
             t == Tail(d)
  <1>1. /\ link[p][1].down # <<>> /\ link' = rest(p, 1)
    BY DEF HearSwapResponse, wiredHears, hears
  <1>2. /\ o \in Peers /\ other(o) = p /\ o # p
    BY TwoPeers
  <1>3. /\ link \in LinkFns /\ 1 \in Links /\ link[p][1] \in LinkRecord
        /\ client[p].screen = "paired" /\ d \in Seq(Messages)
        /\ client[p] \in ClientRecord /\ client[o] \in ClientRecord
        /\ client \in [Peers -> ClientRecord]
    BY <1>2, OnFacts, PeerTyped DEF Inv, TypeOK
  <1>4. e \in LinkRecord /\ e.down = t /\ e.up = ups(p)
    BY <1>1, <1>3, TakeFields DEF ups, downs
  <1>5. link' = put(link, p, 1, e)
    BY <1>1, <1>3, RestAt
  <1> HIDE DEF e
  <1>6. /\ ups(p)' = ups(p) /\ downs(p)' = t
        /\ ups(o)' = ups(o) /\ downs(o)' = downs(o)
    BY <1>4, <1>5, FirstSocket
  <1>7. Pair(p, o)
    BY SwappingPair
  <1>8. PICK m \in {"accepted", "rejected"} : Head(link[p][1].down) = m
    BY DEF HearSwapResponse, wiredHears, hears
  <1>9. d # <<>> /\ Head(d) = m
    BY <1>1, <1>8 DEF downs
  <1>10. /\ \A S : Has(d, S) <=> m \in S \/ Has(t, S)
         /\ \A S : Once(d, S) => Once(t, S)
         /\ \A S : Once(d, S) /\ m \in S => ~Has(t, S)
    BY <1>3, <1>9, QueueTake
  <1>11. /\ downs(p) = d /\ other(p) = o /\ other(o) = p
    BY <1>2
  <1>12. m \in Response /\ m \notin Request
    BY KindsOfMessages
  <1>13. client[p].awaiting
    <2> HIDE DEF o, d, t
    <2> QED
      BY <1>7, <1>10, <1>11, <1>12 DEF Pair, Negotiating
  <1>14. /\ m = "accepted" => client'[p].role = flipped(client[p].role)
         /\ m = "rejected" => client'[p].role = client[p].role
         /\ ~client'[p].awaiting /\ client'[o] = client[o]
    <2>1. CASE client' = [client EXCEPT ![p] =
                            [rendered(client[p]) EXCEPT !.role = flipped(@)]]
               /\ m = "accepted"
      <3> DEFINE c == [rendered(client[p]) EXCEPT !.role = flipped(@)]
      <3>1. c.role = flipped(client[p].role) /\ c.awaiting = FALSE
        BY <1>3 DEF rendered, ClientRecord
      <3> HIDE DEF c
      <3>2. client'[p] = c /\ client'[o] = client[o]
        BY <1>2, <1>3, <2>1 DEF c
      <3> QED
        BY <2>1, <3>1, <3>2
    <2>2. CASE client' = [client EXCEPT ![p].awaiting = FALSE] /\ m = "rejected"
      <3>1. /\ client'[p] = [client[p] EXCEPT !.awaiting = FALSE]
            /\ client'[o] = client[o]
        BY <1>2, <1>3, <2>2
      <3> QED
        BY <1>3, <2>2, <3>1 DEF ClientRecord
    <2> QED
      BY <1>8, <1>13, <2>1, <2>2 DEF HearSwapResponse, wiredHears, hears
  <1> HIDE DEF o, d, t
  <1>15. Negotiating(p)'
    <2>1. Negotiating(p)
      BY <1>7 DEF Pair
    <2> QED
      BY <2>1, <1>6, <1>10, <1>11, <1>12, <1>14 DEF Negotiating
  <1>16. Negotiating(o)'
    <2>1. Negotiating(o)
      BY <1>7 DEF Pair
    <2> QED
      BY <2>1, <1>6, <1>10, <1>11, <1>12, <1>14 DEF Negotiating
  <1>17. /\ HalfDone(p) <=> m = "accepted"
         /\ ~HalfDone(p)' /\ (HalfDone(o)' <=> HalfDone(o))
    <2>1. ~Has(t, Response) /\ ~Has(ups(o), Response)
      BY <1>7, <1>10, <1>11, <1>12 DEF Pair, Negotiating
    <2>2. ~Has(t, {"accepted"}) /\ ~Has(ups(o), {"accepted"})
      BY <2>1, KindsOfMessages
    <2> QED
      BY <2>2, <1>6, <1>10, <1>11 DEF HalfDone
  <1>18. /\ client[p].role \in {"sender", "receiver"}
         /\ client[o].role \in {"sender", "receiver"}
    BY <1>3 DEF ClientRecord
  <1>19. client'[p].role # client'[o].role <=>
            ~(HalfDone(p)' \/ HalfDone(o)')
    <2>1. /\ client[p].role # client[o].role <=> ~(HalfDone(p) \/ HalfDone(o))
          /\ ~(HalfDone(p) /\ HalfDone(o))
      BY <1>7 DEF Pair
    <2>2. CASE m = "accepted"
      BY <2>1, <2>2, <1>14, <1>17, <1>18, Flips
    <2>3. CASE m = "rejected"
      <3>1. m # "accepted"
        BY <2>3
      <3> QED
        BY <2>1, <2>3, <3>1, <1>14, <1>17
    <2> QED
      BY <2>2, <2>3
  <1>20. ~Has(downs(o)', Reco) /\ ~Has(downs(p)', Reco)
    BY <1>6, <1>7, <1>10, <1>11 DEF Pair
  <1>21. Pair(p, o)'
    BY <1>15, <1>16, <1>17, <1>19, <1>20 DEF Pair
  <1> QED
    BY <1>21, SwappingPair DEF o

(* A step that touches neither the queues nor the swap.                    *)
LEMMA IdleSwap ==
    ASSUME Inv, Swapping, On, link' = link,
           \A q \in Peers : /\ client'[q].role = client[q].role
                            /\ client'[q].awaiting = client[q].awaiting
    PROVE  Swapping'
  <1>1. "host" \in Peers
    BY DEF Peers
  <1>2. ASSUME NEW q \in Peers
        PROVE  Quiet(ups(q), ups(q)') /\ Quiet(downs(q), downs(q)')
    <2>1. ups(q)' = ups(q) /\ downs(q)' = downs(q)
      BY DEF ups, downs
    <2>2. ups(q) \in Seq(Messages) /\ downs(q) \in Seq(Messages)
      BY OnFacts
    <2> QED
      BY <2>1, <2>2, QuietMoves
  <1> QED
    BY <1>1, <1>2, QuietStep

LEMMA ShutGone ==
    ASSUME NEW L \in LinkFns, NEW p \in Peers
    PROVE  ~carries(closeSocket(L, p, 1)[p][1])
  <1>1. 1 \in Links /\ L[p][1] \in LinkRecord
    BY Bounds DEF LinkFns
  <1>2. shut(L[p][1]) \in LinkRecord /\ shut(L[p][1]).state = "closed"
    BY <1>1, ShutFields
  <1>3. closeSocket(L, p, 1)[p][1] = shut(L[p][1])
    <2>1. Puts(closeSocket(L, p, 1), L, p, 1, shut(L[p][1]))
      BY <1>1, <1>2, CloseAt, PutPuts
    <2> QED
      BY <2>1 DEF Puts
  <1> QED
    BY <1>2, <1>3 DEF carries

(* The steps that end a first connection.                                  *)
LEMMA Disturbs ==
    ASSUME Inv, On, NEW p \in Peers,
           \/ CloseEvent(p, 1) \/ HearError(p, 1) \/ HearSessionEnded(p, 1)
           \/ DisconnectSession(p) \/ Break(p, 1)
    PROVE  ~On'
  <1>1. /\ TypeOK /\ link \in LinkFns /\ 1 \in Links
        /\ client[p].active = 1 /\ link[p][1] \in LinkRecord
    BY OnFacts, PeerTyped DEF Inv
  <1>2. SUFFICES ~carries(link'[p][1])
    BY DEF On, Undisturbed, carries
  <1>3. CASE CloseEvent(p, 1)
    <2> DEFINE L == closeSocket(link, p, 1)
    <2>1. ~carries(L[p][1]) /\ L \in LinkFns
      BY <1>1, ShutGone, FadeSend, RelayMessages
    <2>2. \/ link' = L
          \/ attemptReconnect(p, [client[p] EXCEPT !.active = None], 1, L)
      BY <1>3 DEF CloseEvent
    <2> HIDE DEF L
    <2>3. Fades(L, link')
      BY <2>1, <2>2, AttemptFades DEF Fades
    <2> QED
      BY <2>1, <2>3 DEF Fades
  <1>4. CASE HearError(p, 1) \/ HearSessionEnded(p, 1)
    <2>1. link[p][1].down # <<>> /\ link' = closeSocket(rest(p, 1), p, 1)
      BY <1>1, <1>4 DEF HearError, HearSessionEnded, wiredHears, hears, leave
    <2>2. rest(p, 1) \in LinkFns
      BY <1>1, <2>1, FadeTake
    <2> QED
      BY <2>1, <2>2, ShutGone
  <1>5. CASE DisconnectSession(p)
    <2> DEFINE L == sendUp(link, p, 1, "end_session")
    <2>1. link' = closeSocket(L, p, 1)
      BY <1>1, <1>5 DEF DisconnectSession, leave
    <2>2. L \in LinkFns
      <3>1. "end_session" \in Messages
        BY DEF Messages
      <3> QED
        BY <1>1, <3>1, FadeSend
    <2> QED
      BY <2>1, <2>2, ShutGone
  <1>6. CASE Break(p, 1)
    <2>1. link'[p][1] = [link[p][1] EXCEPT !.broken = TRUE]
      BY <1>1, <1>6 DEF Break, LinkFns
    <2> QED
      BY <1>1, <2>1 DEF carries, LinkRecord
  <1> QED
    BY <1>3, <1>4, <1>5, <1>6

LEMMA ReapDisturbs ==
    ASSUME Inv, On, Reap
    PROVE  ~On'
  <1> DEFINE H == dismissed(link, "host")
             m == "session_ended"
  <1>1. "host" \in Peers /\ "guest" \in Peers /\ m \in Messages
    BY RelayMessages DEF Peers
  <1>2. TypeOK /\ link \in LinkFns /\ slot["guest"].conn = 1
        /\ slot["guest"].connected /\ 1 \in Links
    BY <1>1, OnFacts, PeerTyped DEF Inv
  <1>3. H \in LinkFns
    BY <1>1, <1>2, FadePeer
  <1>4. link' = dismissed(H, "guest")
    BY DEF Reap
  <1> HIDE DEF H
  <1>5. H["guest"][1] \in LinkRecord
    BY <1>1, <1>2, <1>3 DEF LinkFns
  <1>6. link'["guest"][1] = finished(downTo(H["guest"][1], m))
    BY <1>1, <1>2, <1>3, <1>4, PeerSends
  <1>7. downTo(H["guest"][1], m) \in LinkRecord
    BY <1>1, <1>5, EditFields
  <1>8. link'["guest"][1].fin
    BY <1>6, <1>7, ShutFields
  <1> QED
    BY <1>1, <1>8 DEF On, Undisturbed, carries

LEMMA NextSwap ==
    ASSUME Inv, Swapping, [Next]_vars
    PROVE  Swapping'
  <1>1. CASE ~On'
    BY <1>1 DEF Swapping
  <1>2. ASSUME On' PROVE Swapping'
    <2>1. On
      BY <1>2, OnBefore
    <2>2. ASSUME NEW p \in Peers
          PROVE  /\ client[p].screen = "paired" /\ client[p].active = 1
                 /\ ~client[p].sleeping
                 /\ link[p][1].state = "open" /\ ~link[p][1].broken
                 /\ ~link[p][1].fin /\ link[p][1].wired
                 /\ handler[p][1] = "serving" /\ 1 \in Links
                 /\ link[p][1].down \in Seq(Messages)
                 /\ link[p][1].up \in Seq(Messages)
                 /\ ~Has(link[p][1].up, {"end_session"})
                 /\ ~Has(link[p][1].down, Reco)
      <3>1. Pair(p, other(p))
        BY <2>1, SwappingPair
      <3>2. 1 \in Links
        BY Bounds
      <3>3. SocketOK(client[p], link[p][1], handler[p][1], slot[p], 1)
        BY <3>2 DEF Inv, PeerOK
      <3>4. client[p].screen = "paired"
        BY <2>1, OnFacts
      <3>5. ~Has(link[p][1].up, {"end_session"})
        BY <3>3, <3>4 DEF SocketOK
      <3>6. ~Has(link[p][1].down, Reco)
        BY <3>1 DEF Pair, downs
      <3> QED
        BY <2>1, <3>5, <3>6, OnFacts DEF carries, ups, downs
    <2>3. ASSUME NEW p \in Peers, NEW n \in Links, n # 1
          PROVE  /\ link[p][n].state = "none" /\ handler[p][n] = "none"
                 /\ ~carries(link[p][n])
      <3>1. link[p][n] = Unused /\ handler[p][n] = "none"
        BY <2>1, <2>3, OnFacts
      <3> QED
        BY <3>1 DEF Unused, carries
    <2>4. \A q : q \in Seq(Messages) /\ q # <<>> =>
             \A S : Head(q) \in S => Has(q, S)
      BY QueueTake
    <2>5. CASE UNCHANGED vars
      <3>1. link' = link /\ client' = client
        BY <2>5 DEF vars
      <3> QED
        BY <2>1, <3>1, IdleSwap
    <2>6. ASSUME NEW p \in Peers, Client(p) PROVE Swapping'
      <3>1. CASE DeriveToken(p)
        BY <2>1, <3>1, DeriveTokenSwap
      <3>2. ~RetryTimer(p)
        BY <2>2 DEF RetryTimer
      <3>3. ASSUME NEW n \in Links, Opens(p, n) \/ ConnectFails(p, n)
            PROVE  FALSE
        <4>1. link[p][n].state = "opening"
          BY <3>3 DEF Opens, ConnectFails
        <4> QED
          BY <2>2, <2>3, <4>1
      <3>4. ASSUME NEW n \in Links,
                   \/ CloseEvent(p, n) \/ HearReconnected(p, n)
                   \/ HearError(p, n) \/ HearUnwired(p, n)
                   \/ HearSessionEnded(p, n) \/ HearPeerDisconnected(p, n)
                   \/ HearPeerReconnected(p, n) \/ HearSwapRequest(p, n)
                   \/ HearSwapResponse(p, n)
            PROVE  Swapping'
        <4>1. link[p][n].state = "open"
          BY <3>4 DEF CloseEvent, HearReconnected, HearError, HearUnwired,
             HearSessionEnded, HearPeerDisconnected, HearPeerReconnected,
             HearSwapRequest, HearSwapResponse, wiredHears, hears
        <4>2. n = 1
          BY <2>3, <4>1
        <4>3. ~HearUnwired(p, 1)
          BY <2>2 DEF HearUnwired
        <4>4. ~HearReconnected(p, 1) /\ ~HearPeerReconnected(p, 1)
          <5>1. ASSUME HearReconnected(p, 1) \/ HearPeerReconnected(p, 1)
                PROVE  link[p][1].down # <<>> /\ Head(link[p][1].down) \in Reco
            BY <5>1 DEF HearReconnected, HearPeerReconnected, wiredHears,
               hears, Reco
          <5> QED
            BY <2>2, <2>4, <5>1
        <4>5. /\ ~CloseEvent(p, 1) /\ ~HearError(p, 1)
              /\ ~HearSessionEnded(p, 1)
          BY <1>2, <2>1, Disturbs
        <4> QED
          BY <2>1, <3>4, <4>2, <4>3, <4>4, <4>5, HearPeerDisconnectedSwap,
             HearSwapRequestSwap, HearSwapResponseSwap
      <3> QED
        BY <2>6, <3>1, <3>2, <3>3, <3>4 DEF Client
    <2>7. ASSUME NEW p \in Peers, Disturb(p) PROVE Swapping'
      <3>1. CASE RequestSwap(p)
        BY <2>1, <3>1, RequestSwapSwap
      <3>2. CASE SwapTimeout(p)
        <4>1. /\ client \in [Peers -> ClientRecord]
              /\ client[p] \in ClientRecord /\ link' = link
          BY <3>2 DEF Inv, TypeOK, SwapTimeout
        <4>2. client' = [client EXCEPT
                           ![p].timers = @ - 1,
                           ![p].awaiting = FALSE,
                           ![p].cut = client[p].cut \/ client[p].awaiting]
          BY <3>2 DEF SwapTimeout
        <4>3. /\ client'[p].cut = (client[p].cut \/ client[p].awaiting)
              /\ client'[p].awaiting = FALSE
              /\ client'[p].role = client[p].role
              /\ \A q \in Peers : q # p => client'[q] = client[q]
          BY <4>1, <4>2 DEF ClientRecord
        <4>4. client[p].awaiting = FALSE
          <5>1. ~client'[p].cut
            BY <1>2 DEF On, Undisturbed
          <5>2. client[p].awaiting \in BOOLEAN
            BY <4>1 DEF ClientRecord
          <5> QED
            BY <4>3, <5>1, <5>2
        <4> QED
          BY <2>1, <4>1, <4>3, <4>4, IdleSwap
      <3>3. ~DisconnectSession(p)
        BY <1>2, <2>1, Disturbs
      <3>4. ASSUME NEW n \in Links PROVE ~Break(p, n)
        <4>1. Break(p, n) => n = 1
          BY <2>3 DEF Break
        <4> QED
          BY <1>2, <2>1, <4>1, Disturbs
      <3> QED
        BY <2>7, <3>1, <3>2, <3>3, <3>4 DEF Disturb
    <2>8. ASSUME NEW p \in Peers, Relay(p) PROVE Swapping'
      <3>1. PICK n \in Links :
               \/ ReadReconnect(p, n) \/ Announce(p, n) \/ Confirm(p, n)
               \/ ReadToken(p, n) \/ ReadRelayed(p, n) \/ ReadEnd(p, n)
               \/ HandleDisconnect(p, n)
        BY <2>8 DEF Relay
      <3>2. handler[p][n] # "none"
        BY <3>1 DEF ReadReconnect, Announce, Confirm, ReadToken, ReadRelayed,
           ReadEnd, HandleDisconnect, reads
      <3>3. n = 1
        BY <2>3, <3>2
      <3>4. ~ReadReconnect(p, 1) /\ ~Announce(p, 1) /\ ~Confirm(p, 1)
        BY <2>2 DEF ReadReconnect, Announce, Confirm, reads
      <3>5. ~HandleDisconnect(p, 1)
        BY <2>2 DEF HandleDisconnect
      <3>6. ~ReadEnd(p, 1)
        <4>1. ASSUME ReadEnd(p, 1)
              PROVE  /\ link[p][1].up # <<>>
                     /\ Head(link[p][1].up) \in {"end_session"}
          BY <4>1 DEF ReadEnd, reads
        <4> QED
          BY <2>2, <2>4, <4>1
      <3> QED
        BY <2>1, <3>1, <3>3, <3>4, <3>5, <3>6, ReadTokenSwap, ReadRelayedSwap
    <2>9. ~Reap
      BY <1>2, <2>1, ReapDisturbs
    <2> QED
      BY <2>5, <2>6, <2>7, <2>8, <2>9 DEF Next
  <1> QED
    BY <1>1, <1>2

(* What TLC's run checks on a small instance, for every instance: one peer *)
(* sends and the other receives whenever no swap is under way, also when   *)
(* both called requestRoleSwap at once and their requests crossed.         *)
THEOREM RolesStayComplementary == Spec => []RolesComplement
  <1>1. Init => IInv
    <2> SUFFICES ASSUME Init PROVE Swapping
      BY InitInv DEF IInv
    <2>1. \A p \in Peers :
             /\ ups(p) = <<>> /\ downs(p) = <<>> /\ ~client[p].awaiting
             /\ other(p) \in Peers
      BY Bounds, TwoPeers DEF Init, ups, downs, Unused
    <2>2. client["host"].role # client["guest"].role
      BY DEF Init, Peers
    <2>3. \A p \in Peers : \A S :
             /\ ~Has(ups(p), S) /\ Once(ups(p), S)
             /\ ~Has(downs(p), S) /\ Once(downs(p), S)
      BY <2>1, EmptyQueue
    <2>4. \A p \in Peers : Negotiating(p) /\ ~HalfDone(p)
      BY <2>1, <2>3 DEF Negotiating, HalfDone
    <2>5. "host" \in Peers /\ "guest" \in Peers
      BY DEF Peers
    <2> QED
      BY <2>2, <2>3, <2>4, <2>5 DEF Swapping
  <1>2. IInv /\ [Next]_vars => IInv'
    BY NextInv, NextSwap DEF IInv
  <1>3. IInv => RolesComplement
    <2> SUFFICES ASSUME IInv, \A p \in Peers : SwapAtRest(p)
                 PROVE  client["host"].role # client["guest"].role
      BY DEF RolesComplement
    <2>1. On
      BY DEF SwapAtRest, On, Undisturbed
    <2>2. \A p \in Peers : other(p) \in Peers
      BY TwoPeers
    <2>3. ASSUME NEW p \in Peers
          PROVE  /\ ~Has(ups(p), {"accepted"}) /\ ~Has(downs(p), {"accepted"})
      BY DEF SwapAtRest, SwapMessages, Under, Has, ups, downs
    <2>4. \A p \in Peers : ~HalfDone(p)
      BY <2>2, <2>3 DEF HalfDone
    <2>5. "host" \in Peers /\ "guest" \in Peers
      BY DEF Peers
    <2> QED
      BY <2>1, <2>4, <2>5 DEF IInv, Swapping
  <1> QED
    BY <1>1, <1>2, <1>3, PTL DEF Spec
-----------------------------------------------------------------------------
(* Epochs *)

Back == {"reconnected"}
News == {"peer_reconnected"}

(* How often a queue says peer_reconnected.                                *)
newsAt(q) == {j \in 1..Len(q) : q[j] = "peer_reconnected"}
Count(q)  == Cardinality(newsAt(q))

LEMMA CountNat ==
    ASSUME NEW X, NEW q \in Seq(X)
    PROVE  /\ IsFiniteSet(newsAt(q)) /\ Count(q) \in Nat
           /\ ~Has(q, News) => Count(q) = 0
  <1>1. Len(q) \in Nat /\ newsAt(q) \in SUBSET (1..Len(q))
    BY DEF newsAt
  <1>2. IsFiniteSet(1..Len(q))
    BY <1>1, FS_Interval
  <1>3. IsFiniteSet(newsAt(q))
    BY <1>1, <1>2, FS_Subset
  <1>4. Count(q) \in Nat
    BY <1>3, FS_CardinalityType DEF Count
  <1>5. ASSUME ~Has(q, News) PROVE Count(q) = 0
    <2>1. newsAt(q) = {}
      BY <1>5 DEF newsAt, Has, News
    <2> QED
      BY <2>1, FS_EmptySet DEF Count
  <1> QED
    BY <1>3, <1>4, <1>5

LEMMA CountPut ==
    ASSUME NEW X, NEW q \in Seq(X), NEW m \in X
    PROVE  Count(Append(q, m)) =
             IF m = "peer_reconnected" THEN Count(q) + 1 ELSE Count(q)
  <1> DEFINE r == Append(q, m)
             n == Len(q)
  <1>1. /\ n \in Nat /\ Len(r) = n + 1 /\ r[n + 1] = m
        /\ \A j \in 1..n : r[j] = q[j]
    OBVIOUS
  <1>2. IsFiniteSet(newsAt(q))
    BY CountNat
  <1> HIDE DEF r
  <1>3. n + 1 \notin newsAt(q)
    BY <1>1 DEF newsAt
  <1>4. CASE m = "peer_reconnected"
    <2>1. newsAt(r) = newsAt(q) \cup {n + 1}
      BY <1>1, <1>4 DEF newsAt
    <2>2. Cardinality(newsAt(q) \cup {n + 1}) = Cardinality(newsAt(q)) + 1
      BY <1>2, <1>3, FS_AddElement
    <2> QED
      BY <1>4, <2>1, <2>2 DEF Count, r
  <1>5. CASE m # "peer_reconnected"
    <2>1. newsAt(r) = newsAt(q)
      BY <1>1, <1>5 DEF newsAt
    <2> QED
      BY <1>5, <2>1 DEF Count, r
  <1> QED
    BY <1>4, <1>5

LEMMA CountTake ==
    ASSUME NEW X, NEW q \in Seq(X), q # <<>>
    PROVE  Count(q) = IF Head(q) = "peer_reconnected"
                      THEN Count(Tail(q)) + 1 ELSE Count(Tail(q))
  <1> DEFINE t == Tail(q)
             n == Len(q)
             S == newsAt(t)
             T == newsAt(q) \ {1}
             f == [j \in S |-> j + 1]
  <1>1. /\ t \in Seq(X) /\ n \in Nat /\ n >= 1 /\ Len(t) = n - 1
        /\ Head(q) = q[1]
        /\ \A j \in 1..n - 1 : t[j] = q[j + 1]
    OBVIOUS
  <1> HIDE DEF t
  <1>2. IsFiniteSet(S) /\ IsFiniteSet(newsAt(q))
    BY <1>1, CountNat
  <1>3. \A j : j \in S <=> j \in 1..n - 1 /\ q[j + 1] = "peer_reconnected"
    BY <1>1 DEF newsAt
  <1>4. \A j : j \in T <=>
                  j \in 1..n /\ j # 1 /\ q[j] = "peer_reconnected"
    BY DEF newsAt
  <1>5. \A j \in S : j \in Int /\ j + 1 \in T
    BY <1>1, <1>3, <1>4
  <1>6. \A j \in T : j \in Int /\ j - 1 \in S /\ j - 1 + 1 = j
    <2> SUFFICES ASSUME NEW j \in T
                 PROVE  j \in Int /\ j - 1 \in S /\ j - 1 + 1 = j
      OBVIOUS
    <2>1. j \in 1..n /\ j # 1 /\ q[j] = "peer_reconnected"
      BY <1>4
    <2>2. j \in Int /\ j - 1 \in 1..n - 1 /\ j - 1 + 1 = j
      BY <1>1, <2>1
    <2> QED
      BY <1>3, <2>1, <2>2
  <1> HIDE DEF S, T
  <1>7. f \in Bijection(S, T)
    <2>1. f \in [S -> T]
      BY <1>5
    <2>2. \A i, j \in S : f[i] = f[j] => i = j
      BY <1>5
    <2>3. \A j \in T : \E i \in S : f[i] = j
      BY <1>6
    <2> QED
      BY <2>1, <2>2, <2>3
      DEF Bijection, Injection, Surjection, IsInjective
  <1>8. Cardinality(T) = Cardinality(S)
    BY <1>2, <1>7, FS_Bijection DEF ExistsBijection
  <1>9. 1 \in newsAt(q) <=> Head(q) = "peer_reconnected"
    BY <1>1 DEF newsAt
  <1>10. /\ Cardinality(newsAt(q)) \in Nat
         /\ Cardinality(T) = IF 1 \in newsAt(q)
                             THEN Cardinality(newsAt(q)) - 1
                             ELSE Cardinality(newsAt(q))
    BY <1>2, FS_RemoveElement, FS_CardinalityType DEF T
  <1> QED
    BY <1>8, <1>9, <1>10 DEF Count, S, t

(* The client c of a peer whose connections do not break, with its first   *)
(* socket l, its handler h and the slot s, as long as the session lasts:   *)
(* no other socket is ever opened, and the relay keeps serving this one.   *)
Anchor(c, l, h, s) ==
    /\ c.last = 1 /\ s.connected /\ h = "serving"
    /\ ~l.broken /\ ~l.fin
    /\ l.state = "open" \/ Has(l.up, {"end_session"})
    /\ ~Has(l.down, Why) /\ ~Has(l.down, Back)

(* A socket l of the other peer, with its handler h: until it hears        *)
(* reconnected it cannot break, and the peer's first side has no news for  *)
(* it.                                                                     *)
Returning(l, h) ==
    /\ h \in {"first", "announce", "confirm"} =>
          carries(l) /\ ~l.wired /\ ~Has(l.down, Back)
    /\ Has(l.down, Back) => carries(l) /\ ~l.wired /\ Once(l.down, Back)
    /\ ~Has(l.down, News)
    /\ l.broken => l.wired
    /\ l.state = "opening" => ~l.broken /\ ~l.fin /\ ~l.wired

(* A reconnect has been announced, and its own client is yet to be told.   *)
Owed(l, h) == h = "confirm" \/ Has(l.down, Back)
SomeOwed(p) == \E n \in Links : Owed(link[p][n], handler[p][n])

(* p's epoch, once it has heard of its own reconnect, is o's, once it has  *)
(* heard the news under way.                                               *)
EpochOK(p, o) ==
    /\ \A n \in Links : Returning(link[p][n], handler[p][n])
    /\ client[p].active # None => link[p][client[p].active].wired
    /\ client[o].epoch + Count(downs(o)) =
          IF SomeOwed(p) THEN client[p].epoch + 1 ELSE client[p].epoch

(* The inductive invariant, for a peer o whose connections do not break.   *)
EpochInv(o) ==
    /\ slot[o].conn = 1
    /\ session => Anchor(client[o], link[o][1], handler[o][1], slot[o])
    /\ carries(link[o][1]) => session /\ EpochOK(other(o), o)

(* A socket l and what it is after messages that are no news.              *)
Idle(l, e) ==
    /\ e \in LinkRecord
    /\ e.state = l.state /\ e.broken = l.broken
    /\ e.fin = l.fin /\ e.wired = l.wired
    /\ Has(l.up, {"end_session"}) => Has(e.up, {"end_session"})
    /\ Has(e.down, Why) => Has(l.down, Why)
    /\ Has(e.down, Back) <=> Has(l.down, Back)
    /\ Has(e.down, News) <=> Has(l.down, News)
    /\ Once(l.down, Back) => Once(e.down, Back)
    /\ Count(e.down) = Count(l.down)

LEMMA IdleChain ==
    ASSUME NEW l, NEW e, NEW f, Idle(l, e), Idle(e, f)
    PROVE  Idle(l, f)
  BY DEF Idle

LEMMA IdleEdits ==
    ASSUME NEW l \in LinkRecord
    PROVE  /\ Idle(l, l)
           /\ \A m \in Messages : Idle(l, upTo(l, m))
           /\ \A m \in Messages :
                 m \notin Why \cup Back \cup News => Idle(l, downTo(l, m))
           /\ l.down # <<>> /\ Head(l.down) \notin Back \cup News =>
                 Idle(l, heard(l))
           /\ l.up # <<>> /\ Head(l.up) # "end_session" => Idle(l, taken(l))
  <1>1. l.down \in Seq(Messages) /\ l.up \in Seq(Messages)
    BY DEF LinkRecord
  <1>2. ASSUME NEW m \in Messages PROVE Idle(l, upTo(l, m))
    <2>1. /\ upTo(l, m) \in LinkRecord
          /\ upTo(l, m).state = l.state /\ upTo(l, m).broken = l.broken
          /\ upTo(l, m).fin = l.fin /\ upTo(l, m).wired = l.wired
          /\ upTo(l, m).down = l.down
          /\ upTo(l, m).up = IF carries(l) THEN Append(l.up, m) ELSE l.up
      BY EditFields
    <2>2. Has(l.up, {"end_session"}) => Has(upTo(l, m).up, {"end_session"})
      BY <1>1, <2>1, QueuePut
    <2> QED
      BY <2>1, <2>2 DEF Idle
  <1>3. ASSUME NEW m \in Messages, m \notin Why \cup Back \cup News
        PROVE  Idle(l, downTo(l, m))
    <2> DEFINE e == downTo(l, m)
               d == Append(l.down, m)
    <2>1. /\ e \in LinkRecord
          /\ e.state = l.state /\ e.broken = l.broken
          /\ e.fin = l.fin /\ e.wired = l.wired
          /\ e.up = l.up
          /\ e.down = IF carries(l) THEN d ELSE l.down
      BY EditFields
    <2>2. \A S \in {Why, Back, News} : m \notin S /\ (Has(d, S) <=> Has(l.down, S))
      BY <1>1, <1>3, QueuePut
    <2>3. Once(l.down, Back) => Once(d, Back)
      BY <1>1, <1>3, QueuePut
    <2>4. Count(d) = Count(l.down)
      BY <1>1, <1>3, CountPut DEF News
    <2> HIDE DEF e, d
    <2>5. Idle(l, e)
      BY <2>1, <2>2, <2>3, <2>4 DEF Idle
    <2> QED
      BY <2>5 DEF e
  <1>4. ASSUME l.down # <<>>, Head(l.down) \notin Back \cup News
        PROVE  Idle(l, heard(l))
    <2> DEFINE e == heard(l)
               d == Tail(l.down)
    <2>1. /\ e \in LinkRecord
          /\ e.state = l.state /\ e.broken = l.broken
          /\ e.fin = l.fin /\ e.wired = l.wired
          /\ e.up = l.up /\ e.down = d
      BY <1>4, TakeFields
    <2>2. /\ Has(d, Why) => Has(l.down, Why)
          /\ Has(d, Back) <=> Has(l.down, Back)
          /\ Has(d, News) <=> Has(l.down, News)
          /\ Once(l.down, Back) => Once(d, Back)
      BY <1>1, <1>4, QueueTake
    <2>3. Count(d) = Count(l.down)
      BY <1>1, <1>4, CountTake DEF News
    <2> HIDE DEF e, d
    <2>4. Idle(l, e)
      BY <2>1, <2>2, <2>3 DEF Idle
    <2> QED
      BY <2>4 DEF e
  <1>5. ASSUME l.up # <<>>, Head(l.up) # "end_session"
        PROVE  Idle(l, taken(l))
    <2>1. /\ taken(l) \in LinkRecord
          /\ taken(l).state = l.state /\ taken(l).up = Tail(l.up)
          /\ taken(l).down = l.down /\ taken(l).broken = l.broken
          /\ taken(l).fin = l.fin /\ taken(l).wired = l.wired
      BY <1>5, TakeFields
    <2>2. Has(l.up, {"end_session"}) => Has(Tail(l.up), {"end_session"})
      BY <1>1, <1>5, QueueTake
    <2> QED
      BY <2>1, <2>2 DEF Idle
  <1>6. Idle(l, l)
    BY DEF Idle
  <1> QED
    BY <1>2, <1>3, <1>4, <1>5, <1>6

(* A socket l with its handler h, and what they are after a step that the  *)
(* books do not notice.                                                    *)
Kept(l, h, e, g) ==
    /\ e.wired = l.wired
    /\ Returning(l, h) => Returning(e, g) /\ (Owed(e, g) <=> Owed(l, h))

(* What Anchor, Returning and Owed say survives.                           *)
LEMMA IdleKeeps ==
    ASSUME NEW l, NEW e, Idle(l, e)
    PROVE  /\ \A h : Kept(l, h, e, h)
           /\ \A c, d, h, s, t :
                 Anchor(c, l, h, s) /\ d.last = c.last
                 /\ t.connected = s.connected => Anchor(d, e, h, t)
           /\ carries(e) <=> carries(l)
           /\ Count(e.down) = Count(l.down) /\ e.wired = l.wired
  BY DEF Idle, Kept, Returning, Owed, Anchor, carries

(* The session lasts, and the steady peer is on its first socket.          *)
LEMMA AnchorFacts ==
    ASSUME Inv, NEW o \in Peers, EpochInv(o), session
    PROVE  LET l == link[o][1] IN
           /\ Anchor(client[o], l, handler[o][1], slot[o])
           /\ \A n \in Links : n # 1 =>
                 link[o][n] = Unused /\ handler[o][n] = "none"
           /\ handler[o][1] = "serving" /\ slot[o].conn = 1 /\ slot[o].connected
           /\ l \in LinkRecord
           /\ l.state \in {"open", "closed"}
           /\ carries(l) <=> l.state = "open"
           /\ client[o].screen = "paired" <=> l.state = "open"
           /\ l.state = "open" =>
                 client[o].active = 1 /\ l.wired /\ ~client[o].sleeping
           /\ 1 \in Links
  <1> DEFINE l == link[o][1]
  <1>1. Anchor(client[o], l, handler[o][1], slot[o]) /\ slot[o].conn = 1
    BY DEF EpochInv
  <1>2. /\ 1 \in Links /\ Links \subseteq Nat \ {0} /\ None \notin Links
        /\ l \in LinkRecord
    BY Bounds, PeerTyped DEF Inv
  <1>3. /\ SocketOK(client[o], l, handler[o][1], slot[o], 1)
        /\ \A n \in Links :
              SocketOK(client[o], link[o][n], handler[o][n], slot[o], n)
        /\ ClientOK(client[o], link[o][client[o].last])
    BY <1>2 DEF Inv, PeerOK
  <1>4. l.state \in {"open", "closed"}
    BY <1>1, <1>3 DEF SocketOK, Anchor
  <1>5. carries(l) <=> l.state = "open"
    BY <1>1 DEF carries, Anchor
  <1>6. l.state = "open" => client[o].active = 1 /\ l.wired
                            /\ client[o].screen = "paired"
    BY <1>3 DEF SocketOK
  <1>7. client[o].screen = "paired" => l.state = "open"
    BY <1>1, <1>3 DEF SocketOK, Anchor
  <1>8. l.state = "open" => ~client[o].sleeping
    BY <1>3, <1>6 DEF ClientOK, None
  <1>9. ASSUME NEW n \in Links, n # 1
        PROVE  link[o][n] = Unused /\ handler[o][n] = "none"
    <2>1. n > client[o].last
      BY <1>1, <1>2, <1>9 DEF Anchor
    <2> QED
      BY <1>3, <2>1 DEF SocketOK
  <1> QED
    BY <1>1, <1>2, <1>4, <1>5, <1>6, <1>7, <1>8, <1>9 DEF Anchor

SameBook(c, d) == d.epoch = c.epoch /\ d.last = c.last /\ d.active = c.active

(* A step after which the books still balance.                             *)
LEMMA Balances ==
    ASSUME NEW o \in Peers, EpochInv(o), session' = TRUE,
           slot'[o].conn = 1,
           Anchor(client'[o], link'[o][1], handler'[o][1], slot'[o]),
           carries(link'[o][1]) => carries(link[o][1]),
           carries(link'[o][1]) =>
              LET p == other(o) IN
              /\ \A n \in Links : Returning(link'[p][n], handler'[p][n])
              /\ client'[p].active # None =>
                    link'[p][client'[p].active].wired
              /\ client'[o].epoch + Count(link'[o][1].down) =
                    IF \E n \in Links : Owed(link'[p][n], handler'[p][n])
                    THEN client'[p].epoch + 1 ELSE client'[p].epoch
    PROVE  EpochInv(o)'
  BY DEF EpochInv, EpochOK, SomeOwed, downs

(* A step after which nobody owes more than before.                        *)
LEMMA KeptStep ==
    ASSUME Inv, NEW o \in Peers, EpochInv(o), session, session' = session,
           \A k \in Links : Idle(link[o][k], link'[o][k]),
           SameBook(client[o], client'[o]), handler'[o] = handler[o],
           slot'[o].conn = slot[o].conn,
           slot'[o].connected = slot[o].connected,
           LET p == other(o) IN
           EpochOK(p, o) =>
              /\ \A n \in Links : Kept(link[p][n], handler[p][n],
                                       link'[p][n], handler'[p][n])
              /\ client'[p].active \in {None, client[p].active}
              /\ client'[p].epoch = client[p].epoch
    PROVE  EpochInv(o)'
  <1> DEFINE p == other(o)
  <1>1. /\ p \in Peers /\ 1 \in Links /\ None \notin Links
        /\ client[p].active \in Links \cup {None} /\ session' = TRUE
    BY TwoPeers, Bounds, PeerTyped DEF Inv, TypeOK
  <1>2. /\ Anchor(client'[o], link'[o][1], handler'[o][1], slot'[o])
        /\ slot'[o].conn = 1
    BY <1>1, AnchorFacts, IdleKeeps DEF SameBook
  <1>3. /\ carries(link'[o][1]) <=> carries(link[o][1])
        /\ Count(link'[o][1].down) = Count(link[o][1].down)
    BY <1>1, IdleKeeps
  <1> HIDE DEF p
  <1>4. ASSUME carries(link'[o][1])
        PROVE  /\ \A n \in Links : Returning(link'[p][n], handler'[p][n])
               /\ client'[p].active # None =>
                     link'[p][client'[p].active].wired
               /\ client'[o].epoch + Count(link'[o][1].down) =
                     IF \E n \in Links : Owed(link'[p][n], handler'[p][n])
                     THEN client'[p].epoch + 1 ELSE client'[p].epoch
    <2>1. EpochOK(p, o)
      BY <1>3, <1>4 DEF EpochInv, p
    <2>2. /\ \A n \in Links : Kept(link[p][n], handler[p][n],
                                   link'[p][n], handler'[p][n])
          /\ client'[p].active \in {None, client[p].active}
          /\ client'[p].epoch = client[p].epoch
      BY <2>1 DEF p
    <2>3. \A n \in Links :
             /\ Returning(link'[p][n], handler'[p][n])
             /\ Owed(link'[p][n], handler'[p][n])
                   <=> Owed(link[p][n], handler[p][n])
             /\ link'[p][n].wired = link[p][n].wired
      BY <2>1, <2>2 DEF EpochOK, Kept
    <2>4. SomeOwed(p) <=>
             \E n \in Links : Owed(link'[p][n], handler'[p][n])
      BY <2>3 DEF SomeOwed
    <2>5. client'[p].active # None => link'[p][client'[p].active].wired
      BY <1>1, <2>1, <2>2, <2>3 DEF EpochOK
    <2> QED
      BY <1>3, <2>1, <2>2, <2>3, <2>4, <2>5 DEF EpochOK, downs, SameBook
  <1> QED
    BY <1>1, <1>2, <1>3, <1>4, Balances DEF p

(* A step of messages that are no news.                                    *)
LEMMA IdleStep ==
    ASSUME Inv, NEW o \in Peers, EpochInv(o), session, session' = session,
           handler' = handler,
           \A q \in Peers :
              /\ \A k \in Links : Idle(link[q][k], link'[q][k])
              /\ slot'[q].conn = slot[q].conn
              /\ slot'[q].connected = slot[q].connected
              /\ SameBook(client[q], client'[q])
    PROVE  EpochInv(o)'
  <1>1. other(o) \in Peers
    BY TwoPeers
  <1>2. \A n \in Links : Kept(link[other(o)][n], handler[other(o)][n],
                              link'[other(o)][n], handler'[other(o)][n])
    BY <1>1, IdleKeeps
  <1> QED
    BY <1>1, <1>2, KeptStep DEF SameBook

-----------------------------------------------------------------------------
(* Steps that keep the books as they are *)

(* The session is over: nothing reconnects, and nothing lost comes back.   *)
LEMMA OverStep ==
    ASSUME Inv, NEW o \in Peers, EpochInv(o), ~session, [Next]_vars
    PROVE  EpochInv(o)'
  <1>1. slot \in [Peers -> SlotRecords] /\ session = FALSE
    BY DEF Inv, TypeOK, SlotRecords
  <1>2. session' = FALSE /\ slot'[o].conn = slot[o].conn
    <2>1. CASE UNCHANGED vars
      BY <1>1, <2>1 DEF vars
    <2>2. ASSUME NEW p \in Peers, Client(p)
          PROVE  session' = session /\ slot' = slot
      BY <2>2 DEF Client, DeriveToken, RetryTimer, Opens, ConnectFails,
         CloseEvent, HearReconnected, HearError, HearUnwired,
         HearSessionEnded, HearPeerDisconnected, HearPeerReconnected,
         HearSwapRequest, HearSwapResponse, wiredHears, hears, relayVars
    <2>3. ASSUME NEW p \in Peers, Disturb(p)
          PROVE  session' = session /\ slot' = slot
      BY <2>3 DEF Disturb, RequestSwap, SwapTimeout, DisconnectSession,
         Break, relayVars
    <2>4. ASSUME NEW p \in Peers, Relay(p)
          PROVE  /\ session' = session \/ session' = FALSE
                 /\ slot'[o].conn = slot[o].conn
      <3>1. PICK n \in Links :
               \/ ReadReconnect(p, n) \/ Announce(p, n) \/ Confirm(p, n)
               \/ ReadToken(p, n) \/ ReadRelayed(p, n) \/ ReadEnd(p, n)
               \/ HandleDisconnect(p, n)
        BY <2>4 DEF Relay
      <3>2. CASE ReadReconnect(p, n)
        BY <1>1, <3>2 DEF ReadReconnect
      <3>3. CASE Announce(p, n) \/ Confirm(p, n) \/ ReadEnd(p, n)
                 \/ ReadRelayed(p, n)
        BY <3>3 DEF Announce, Confirm, ReadEnd, ReadRelayed, relayVars
      <3>4. CASE ReadToken(p, n)
        BY <1>1, <3>4 DEF ReadToken, SlotRecords
      <3>5. CASE HandleDisconnect(p, n)
        <4>1. /\ slot' = [slot EXCEPT ![p].connected = FALSE] \/ slot' = slot
              /\ session' = session
          BY <3>5 DEF HandleDisconnect
        <4> QED
          BY <1>1, <4>1 DEF SlotRecords
      <3> QED
        BY <3>1, <3>2, <3>3, <3>4, <3>5
    <2>5. CASE Reap
      BY <2>5 DEF Reap
    <2> QED
      BY <1>1, <2>1, <2>2, <2>3, <2>4, <2>5 DEF Next
  <1>3. ~carries(link'[o][1])
    <2>1. Fades(link, link')
      BY LinksFade
    <2> QED
      BY <2>1 DEF Fades, EpochInv
  <1> QED
    BY <1>2, <1>3 DEF EpochInv

(* The session ends, and the steady peer's connection with it.             *)
LEMMA EndStep ==
    ASSUME NEW o \in Peers, EpochInv(o), session' = FALSE, slot' = slot,
           ~carries(link'[o][1])
    PROVE  EpochInv(o)'
  BY DEF EpochInv

(* One socket q, n, on which no news is sent or heard.                     *)
LEMMA IdlePut ==
    ASSUME Inv, NEW o \in Peers, EpochInv(o), session, session' = session,
           handler' = handler,
           NEW q \in Peers, NEW n \in Links, NEW e,
           Idle(link[q][n], e), link' = put(link, q, n, e),
           \A r \in Peers : /\ slot'[r].conn = slot[r].conn
                            /\ slot'[r].connected = slot[r].connected
                            /\ SameBook(client[r], client'[r])
    PROVE  EpochInv(o)'
  <1>1. /\ link \in LinkFns /\ e \in LinkRecord
        /\ \A r \in Peers, k \in Links : link[r][k] \in LinkRecord
    BY PeerTyped DEF Inv, Idle
  <1>2. Puts(link', link, q, n, e)
    BY <1>1, PutPuts
  <1>3. ASSUME NEW r \in Peers, NEW k \in Links
        PROVE  Idle(link[r][k], link'[r][k])
    <2>1. CASE r = q /\ k = n
      BY <1>2, <2>1 DEF Puts
    <2>2. CASE ~(r = q /\ k = n)
      BY <1>1, <1>2, <2>2, IdleEdits DEF Puts
    <2> QED
      BY <2>1, <2>2
  <1> QED
    BY <1>3, IdleStep

(* What a client has heard or sent that is no news.                        *)
LEMMA ClientIdle ==
    ASSUME Inv, NEW o \in Peers, EpochInv(o), session, NEW q \in Peers,
           \/ DeriveToken(q) \/ RequestSwap(q) \/ SwapTimeout(q)
           \/ \E n \in Links : \/ HearPeerDisconnected(q, n)
                               \/ HearSwapRequest(q, n)
                               \/ HearSwapResponse(q, n)
    PROVE  EpochInv(o)'
  <1>1. /\ link \in LinkFns /\ 1 \in Links
        /\ client \in [Peers -> ClientRecord]
        /\ client[q] \in ClientRecord /\ client[q].active \in Links \cup {None}
        /\ \A k \in Links : link[q][k] \in LinkRecord
    BY PeerTyped, Bounds DEF Inv, TypeOK
  <1>2. {"reconnect_token", "role_swap_request", "accepted", "rejected",
         "peer_disconnected"} \subseteq Messages
    BY DEF Messages
  <1>3. ASSUME UNCHANGED relayVars,
               \A r \in Peers : SameBook(client[r], client'[r]),
               NEW n \in Links, NEW e, Idle(link[q][n], e),
               link' = put(link, q, n, e)
        PROVE  EpochInv(o)'
    <2>1. handler' = handler /\ slot' = slot /\ session' = session
      BY <1>3 DEF relayVars
    <2> QED
      BY <1>3, <2>1, IdlePut
  <1>4. Idle(link[q][1], link[q][1]) /\ link = put(link, q, 1, link[q][1])
    BY <1>1, IdleEdits, PutSame
  <1>5. CASE DeriveToken(q)
    <2> DEFINE e == upTo(link[q][1], "reconnect_token")
    <2>1. link' = put(link, q, 1, e) /\ UNCHANGED relayVars
      BY <1>1, <1>5, SendUpAt DEF DeriveToken
    <2>2. Idle(link[q][1], e)
      BY <1>1, <1>2, IdleEdits
    <2>3. \A r \in Peers : SameBook(client[r], client'[r])
      BY <1>1, <1>5 DEF DeriveToken, ClientRecord, SameBook
    <2> HIDE DEF e
    <2> QED
      BY <1>1, <1>3, <2>1, <2>2, <2>3
  <1>6. CASE SwapTimeout(q)
    <2>1. \A r \in Peers : SameBook(client[r], client'[r])
      BY <1>1, <1>6 DEF SwapTimeout, ClientRecord, SameBook
    <2>2. link' = link /\ UNCHANGED relayVars
      BY <1>6 DEF SwapTimeout, relayVars
    <2> QED
      BY <1>1, <1>3, <1>4, <2>1, <2>2
  <1>7. CASE RequestSwap(q)
    <2> DEFINE a == client[q].active
               m == "role_swap_request"
               c == [client[q] EXCEPT !.awaiting = TRUE, !.asked = @ + 1]
               d == [c EXCEPT !.timers = @ + 1]
    <2>0. c.active = a
      BY <1>1 DEF ClientRecord
    <2>1. /\ link' = sendUp(link, q, a, m) /\ UNCHANGED relayVars
          /\ \/ client' = [client EXCEPT ![q] = c]
             \/ client' = [client EXCEPT ![q] = d]
      BY <1>7, <2>0 DEF RequestSwap
    <2>2. SameBook(client[q], c) /\ SameBook(client[q], d)
      BY <1>1 DEF ClientRecord, SameBook
    <2> HIDE DEF c, d
    <2>3. \A r \in Peers : SameBook(client[r], client'[r])
      BY <1>1, <2>1, <2>2 DEF SameBook
    <2>4. CASE a = None
      <3>1. link' = link
        BY <2>1, <2>4 DEF sendUp
      <3> QED
        BY <1>1, <1>3, <1>4, <2>1, <2>3, <3>1
    <2>5. CASE a \in Links
      <3> DEFINE e == upTo(link[q][a], m)
      <3>1. link' = put(link, q, a, e) /\ Idle(link[q][a], e)
        BY <1>1, <1>2, <2>1, <2>5, SendUpAt, IdleEdits
      <3> HIDE DEF e
      <3> QED
        BY <1>3, <2>1, <2>3, <2>5, <3>1
    <2> QED
      BY <1>1, <2>4, <2>5
  <1>8. ASSUME NEW n \in Links,
               \/ HearPeerDisconnected(q, n) \/ HearSwapRequest(q, n)
               \/ HearSwapResponse(q, n)
        PROVE  EpochInv(o)'
    <2> DEFINE c == client[q]
               f == [rendered(c) EXCEPT !.role = flipped(@)]
               g == [c EXCEPT !.awaiting = FALSE]
               l == link[q][n]
    <2>1. PICK m \in {"peer_disconnected", "role_swap_request", "accepted",
                      "rejected"} : hears(q, n, m)
      BY <1>8 DEF HearPeerDisconnected, HearSwapRequest, HearSwapResponse,
         wiredHears
    <2>2. /\ m \in Messages /\ m \notin Why \cup Back \cup News
          /\ "accepted" # "end_session" /\ "rejected" # "end_session"
      BY <1>2 DEF Why, Back, News
    <2>3. /\ l.down # <<>> /\ Head(l.down) = m /\ heard(l) \in LinkRecord
          /\ rest(q, n) = put(link, q, n, heard(l))
          /\ UNCHANGED relayVars
      BY <2>1, <2>2, HearsDoes
    <2>4. Idle(l, heard(l))
      BY <1>1, <2>2, <2>3, IdleEdits
    <2>5. ASSUME NEW a \in {"accepted", "rejected"}
          PROVE  /\ Idle(l, upTo(heard(l), a))
                 /\ sendUp(rest(q, n), q, n, a) =
                       put(link, q, n, upTo(heard(l), a))
      <3>1. a \in Messages /\ a # "end_session"
        BY <1>2, <2>2
      <3>2. Idle(heard(l), upTo(heard(l), a))
        BY <2>3, <3>1, IdleEdits
      <3> QED
        BY <2>1, <2>2, <2>4, <3>1, <3>2, AnswersDoes, IdleChain
    <2>6. /\ SameBook(c, c) /\ SameBook(c, g) /\ SameBook(c, f)
      <3>1. SameBook(c, rendered(c)) /\ rendered(c) \in ClientRecord
        <4>1. rendered(c) = c \/ rendered(c) = g
          BY DEF rendered
        <4>2. c \in ClientRecord /\ g \in ClientRecord /\ SameBook(c, g)
          BY <1>1 DEF SameBook, ClientRecord
        <4> QED
          BY <4>1, <4>2 DEF SameBook
      <3> DEFINE r == rendered(c)
      <3> HIDE DEF r
      <3>2. SameBook(r, [r EXCEPT !.role = flipped(@)])
        BY <3>1 DEF SameBook, ClientRecord, r
      <3> QED
        BY <1>1, <3>1, <3>2 DEF SameBook, ClientRecord, r
    <2>7. /\ \/ client' = client \/ client' = [client EXCEPT ![q] = f]
             \/ client' = [client EXCEPT ![q] = g]
          /\ \/ link' = rest(q, n)
             \/ \E a \in {"accepted", "rejected"} :
                   link' = sendUp(rest(q, n), q, n, a)
      BY <1>8 DEF HearPeerDisconnected, HearSwapRequest, HearSwapResponse
    <2> HIDE DEF f, g
    <2>8. \A r \in Peers : SameBook(client[r], client'[r])
      BY <1>1, <2>6, <2>7 DEF SameBook
    <2>9. PICK e : Idle(l, e) /\ link' = put(link, q, n, e)
      BY <2>3, <2>4, <2>5, <2>7
    <2> QED
      BY <1>3, <2>3, <2>8, <2>9
  <1> QED
    BY <1>5, <1>6, <1>7, <1>8

(* What a message to the other peer is in a queue, and where.              *)
LEMMA PeerSent ==
    ASSUME TypeOK, NEW L \in LinkFns, NEW q \in Peers, NEW m \in Messages
    PROVE  /\ sendPeer(L, q, m) \in LinkFns
           /\ \A r \in Peers, k \in Links :
                 \/ sendPeer(L, q, m)[r][k] = L[r][k]
                 \/ /\ sendPeer(L, q, m)[r][k] = downTo(L[r][k], m)
                    /\ r = q /\ k = slot[q].conn /\ slot[q].connected
  <1> DEFINE M == sendPeer(L, q, m)
             n == slot[q].conn
  <1>1. /\ M \in LinkFns
        /\ \A r \in Peers, k \in Links : r # q \/ k # n => M[r][k] = L[r][k]
        /\ slot[q].connected => M[q][n] = downTo(L[q][n], m)
        /\ ~slot[q].connected => M = L
    BY PeerSends
  <1> HIDE DEF M
  <1> QED
    BY <1>1 DEF M

(* What the relay has read that is no news.                                *)
LEMMA RelayIdle ==
    ASSUME Inv, NEW o \in Peers, EpochInv(o), session, NEW q \in Peers,
           NEW n \in Links, ReadToken(q, n) \/ ReadRelayed(q, n)
    PROVE  EpochInv(o)'
  <1> DEFINE l == link[q][n]
             U == unread(q, n)
             t == other(q)
             k == slot[t].conn
  <1>1. /\ link \in LinkFns /\ l \in LinkRecord /\ TypeOK
        /\ slot \in [Peers -> SlotRecords]
        /\ t \in Peers /\ t # q /\ k \in Links
        /\ \A r \in Peers, i \in Links : link[r][i] \in LinkRecord
    BY TwoPeers, PeerTyped DEF Inv, TypeOK, SlotRecords
  <1>2. PICK m \in {"reconnect_token", "role_swap_request", "accepted",
                    "rejected"} :
           /\ reads(q, n, m, "serving")
           /\ \/ m = "reconnect_token" /\ link' = U
              \/ m # "reconnect_token" /\ link' = sendPeer(U, t, m)
    BY DEF ReadToken, ReadRelayed
  <1>3. /\ client' = client /\ handler' = handler /\ session' = session
        /\ \A r \in Peers : /\ slot'[r].conn = slot[r].conn
                            /\ slot'[r].connected = slot[r].connected
    <2>1. CASE ReadToken(q, n)
      <3>1. slot' = [slot EXCEPT ![q].token = TRUE]
        BY <2>1 DEF ReadToken
      <3>2. \A r \in Peers : /\ slot'[r].conn = slot[r].conn
                            /\ slot'[r].connected = slot[r].connected
        BY <1>1, <3>1 DEF SlotRecords
      <3> QED
        BY <2>1, <3>2 DEF ReadToken
    <2>2. CASE ReadRelayed(q, n)
      BY <2>2 DEF ReadRelayed, relayVars
    <2> QED
      BY <2>1, <2>2
  <1>4. m \in Messages /\ m # "end_session" /\ m \notin Why \cup Back \cup News
    BY DEF Messages, Why, Back, News
  <1>5. /\ l.up # <<>> /\ Head(l.up) = m
        /\ U \in LinkFns /\ U[q][n] = taken(l)
        /\ \A r \in Peers, i \in Links :
              r # q \/ i # n => U[r][i] = link[r][i]
    BY <1>2, ReadsDoes
  <1> HIDE DEF U, t
  <1>6. ASSUME NEW r \in Peers, NEW i \in Links
        PROVE  Idle(link[r][i], U[r][i])
    <2>1. CASE r = q /\ i = n
      BY <1>1, <1>4, <1>5, <2>1, IdleEdits
    <2>2. CASE ~(r = q /\ i = n)
      BY <1>1, <1>5, <2>2, IdleEdits
    <2> QED
      BY <2>1, <2>2
  <1>7. ASSUME NEW r \in Peers, NEW i \in Links
        PROVE  Idle(U[r][i], link'[r][i])
    <2>1. U[r][i] \in LinkRecord
      BY <1>5 DEF LinkFns
    <2>2. link'[r][i] = U[r][i] \/ link'[r][i] = downTo(U[r][i], m)
      <3>1. CASE link' = sendPeer(U, t, m)
        <4> DEFINE M == sendPeer(U, t, m)
        <4>1. \A x \in Peers, j \in Links :
                 M[x][j] = U[x][j] \/ M[x][j] = downTo(U[x][j], m)
          BY <1>1, <1>4, <1>5, PeerSent
        <4> HIDE DEF M
        <4> QED
          BY <3>1, <4>1 DEF M
      <3> QED
        BY <1>2, <3>1
    <2> QED
      BY <1>4, <2>1, <2>2, IdleEdits
  <1>8. \A r \in Peers, i \in Links : Idle(link[r][i], link'[r][i])
    BY <1>6, <1>7, IdleChain
  <1>9. \A r \in Peers : SameBook(client[r], client'[r])
    BY <1>3 DEF SameBook
  <1> QED
    BY <1>3, <1>8, <1>9, IdleStep

-----------------------------------------------------------------------------
(* Steps of the steady peer *)

LEMMA SteadyCannot ==
    ASSUME Inv, NEW o \in Peers, EpochInv(o), session, o \notin Faults,
           NEW n \in Links
    PROVE  /\ ~Opens(o, n) /\ ~ConnectFails(o, n) /\ ~CloseEvent(o, n)
           /\ ~HearReconnected(o, n) /\ ~HearError(o, n)
           /\ ~HearSessionEnded(o, n) /\ ~HearUnwired(o, n) /\ ~Break(o, n)
           /\ ~ReadReconnect(o, n) /\ ~Announce(o, n) /\ ~Confirm(o, n)
           /\ ~HandleDisconnect(o, n)
  <1> DEFINE l == link[o][1]
  <1>1. /\ Anchor(client[o], l, handler[o][1], slot[o])
        /\ n # 1 => link[o][n] = Unused /\ handler[o][n] = "none"
        /\ handler[o][1] = "serving" /\ l \in LinkRecord
        /\ l.state \in {"open", "closed"}
        /\ l.state = "open" => l.wired
    BY AnchorFacts
  <1>2. n # 1 => link[o][n].state = "none" /\ handler[o][n] = "none"
    BY <1>1 DEF Unused
  <1>3. ~Opens(o, n) /\ ~ConnectFails(o, n)
    BY <1>1, <1>2 DEF Opens, ConnectFails
  <1>4. ~CloseEvent(o, n)
    BY <1>1, <1>2 DEF CloseEvent, Anchor
  <1>5. ASSUME NEW m \in Why \cup Back, hears(o, n, m) PROVE FALSE
    <2>1. n = 1 /\ l.down # <<>> /\ Head(l.down) = m
      BY <1>2, <1>5 DEF hears
    <2>2. l.down \in Seq(Messages)
      BY <1>1 DEF LinkRecord
    <2>3. Has(l.down, Why) \/ Has(l.down, Back)
      BY <1>5, <2>1, <2>2, QueueTake
    <2> QED
      BY <1>1, <2>3 DEF Anchor
  <1>6. ~HearReconnected(o, n) /\ ~HearError(o, n) /\ ~HearSessionEnded(o, n)
    BY <1>5 DEF HearReconnected, HearError, HearSessionEnded, wiredHears,
       Why, Back
  <1>7. ~HearUnwired(o, n)
    BY <1>1, <1>2 DEF HearUnwired, hears
  <1>8. ~Break(o, n)
    BY DEF Break
  <1>9. ~ReadReconnect(o, n) /\ ~Announce(o, n) /\ ~Confirm(o, n)
    BY <1>1, <1>2 DEF ReadReconnect, Announce, Confirm, reads
  <1>10. ~HandleDisconnect(o, n)
    BY <1>1, <1>2, EmptyQueue DEF HandleDisconnect, Anchor
  <1> QED
    BY <1>3, <1>4, <1>6, <1>7, <1>8, <1>9, <1>10

(* The steady peer hears the news, and counts it.                          *)
LEMMA SteadyHears ==
    ASSUME Inv, NEW o \in Peers, EpochInv(o), session, NEW n \in Links,
           HearPeerReconnected(o, n)
    PROVE  EpochInv(o)'
  <1> DEFINE l == link[o][1]
             c == client[o]
             e == heard(l)
             d == [rendered(c) EXCEPT !.epoch = @ + 1]
             m == "peer_reconnected"
             p == other(o)
  <1>1. /\ Anchor(c, l, handler[o][1], slot[o])
        /\ n # 1 => link[o][n] = Unused
        /\ slot[o].conn = 1 /\ l \in LinkRecord /\ 1 \in Links
    BY AnchorFacts
  <1>2. hears(o, n, m) /\ client' = [client EXCEPT ![o] = d]
        /\ link' = rest(o, n)
    BY DEF HearPeerReconnected, wiredHears
  <1>3. n = 1
    <2>1. link[o][n].state = "open"
      BY <1>2 DEF hears
    <2> QED
      BY <1>1, <2>1 DEF Unused
  <1>4. m \in Messages /\ m \notin Why /\ m \notin Back
    BY RelayMessages DEF Why, Back
  <1>5. /\ l.down \in Seq(Messages) /\ l.down # <<>> /\ Head(l.down) = m
        /\ e \in LinkRecord /\ link' = put(link, o, 1, e)
        /\ UNCHANGED relayVars
    BY <1>2, <1>3, <1>4, HearsDoes
  <1>6. /\ e.state = l.state /\ e.down = Tail(l.down) /\ e.up = l.up
        /\ e.broken = l.broken /\ e.fin = l.fin /\ e.wired = l.wired
    BY <1>1, <1>5, TakeFields
  <1>7. /\ link \in LinkFns /\ c \in ClientRecord /\ p \in Peers /\ p # o
        /\ client \in [Peers -> ClientRecord]
    BY PeerTyped, TwoPeers DEF Inv, TypeOK
  <1>8. d.last = c.last /\ d.epoch = c.epoch + 1 /\ c.epoch \in Nat
    BY <1>7 DEF rendered, ClientRecord
  <1> HIDE DEF d, e, m, p
  <1>9. client'[o] = d /\ client'[p] = client[p]
    BY <1>2, <1>7
  <1>10. /\ link'[o][1] = e
         /\ \A k \in Links : link'[p][k] = link[p][k]
    <2>1. Puts(link', link, o, 1, e)
      BY <1>1, <1>5, <1>7, PutPuts
    <2> QED
      BY <1>7, <2>1 DEF Puts
  <1>11. handler' = handler /\ slot' = slot /\ session' = TRUE
    BY <1>5 DEF relayVars, Inv, TypeOK
  <1>12. /\ ~Has(e.down, Why) /\ ~Has(e.down, Back)
    BY <1>1, <1>4, <1>5, <1>6, QueueTake DEF Anchor
  <1>13. Anchor(client'[o], link'[o][1], handler'[o][1], slot'[o])
    BY <1>1, <1>6, <1>8, <1>9, <1>10, <1>11, <1>12 DEF Anchor
  <1>14. carries(link'[o][1]) <=> carries(l)
    BY <1>6, <1>10 DEF carries
  <1>15. Count(l.down) = Count(e.down) + 1 /\ Count(e.down) \in Nat
    <2>1. Count(l.down) = Count(Tail(l.down)) + 1
      BY <1>5, CountTake DEF m
    <2>2. Tail(l.down) \in Seq(Messages)
      BY <1>5, QueueTake
    <2> QED
      BY <1>6, <2>1, <2>2, CountNat
  <1>16. ASSUME carries(link'[o][1])
         PROVE  /\ \A k \in Links : Returning(link'[p][k], handler'[p][k])
                /\ client'[p].active # None =>
                      link'[p][client'[p].active].wired
                /\ client'[o].epoch + Count(link'[o][1].down) =
                      IF \E k \in Links : Owed(link'[p][k], handler'[p][k])
                      THEN client'[p].epoch + 1 ELSE client'[p].epoch
    <2>1. EpochOK(p, o)
      BY <1>14, <1>16 DEF EpochInv, p
    <2>2. client[p].active \in Links \cup {None}
      BY <1>7, PeerTyped DEF Inv
    <2>3. SomeOwed(p) <=>
             \E k \in Links : Owed(link'[p][k], handler'[p][k])
      BY <1>10, <1>11 DEF SomeOwed
    <2>4. client'[o].epoch + Count(link'[o][1].down)
             = client[o].epoch + Count(downs(o))
      BY <1>8, <1>9, <1>10, <1>15 DEF downs
    <2>5. /\ \A k \in Links : Returning(link'[p][k], handler'[p][k])
          /\ client'[p].active # None => link'[p][client'[p].active].wired
      BY <1>9, <1>10, <1>11, <2>1, <2>2 DEF EpochOK
    <2> QED
      BY <1>9, <2>1, <2>3, <2>4, <2>5 DEF EpochOK
  <1> QED
    BY <1>1, <1>11, <1>13, <1>14, <1>16, Balances DEF p

(* Its timer can only be one that no longer matters.                       *)
LEMMA SteadyTimer ==
    ASSUME Inv, NEW o \in Peers, EpochInv(o), session, RetryTimer(o)
    PROVE  EpochInv(o)'
  <1>1. /\ link \in LinkFns /\ 1 \in Links /\ link[o][1] \in LinkRecord
        /\ client \in [Peers -> ClientRecord]
    BY PeerTyped, Bounds DEF Inv, TypeOK
  <1>2. client[o].screen # "paired"
    BY AnchorFacts DEF RetryTimer
  <1>3. /\ client' = [client EXCEPT ![o] =
                        [client[o] EXCEPT !.sleeping = FALSE]]
        /\ link' = link
    BY <1>1, <1>2 DEF RetryTimer, ClientRecord
  <1>4. \A r \in Peers : SameBook(client[r], client'[r])
    BY <1>1, <1>3 DEF SameBook, ClientRecord
  <1>5. Idle(link[o][1], link[o][1]) /\ link' = put(link, o, 1, link[o][1])
    BY <1>1, <1>3, IdleEdits, PutSame
  <1>6. handler' = handler /\ slot' = slot /\ session' = session
    BY DEF RetryTimer, relayVars
  <1> QED
    BY <1>1, <1>4, <1>5, <1>6, IdlePut

(* The steady peer's user leaves, and its socket carries no more.          *)
LEMMA SteadyLeaves ==
    ASSUME Inv, NEW o \in Peers, EpochInv(o), session, DisconnectSession(o)
    PROVE  EpochInv(o)'
  <1> DEFINE l == link[o][1]
             m == "end_session"
             u == upTo(l, m)
             e == shut(u)
             L == put(link, o, 1, u)
  <1>1. /\ Anchor(client[o], l, handler[o][1], slot[o])
        /\ slot[o].conn = 1 /\ l \in LinkRecord /\ 1 \in Links
        /\ client[o].screen = "paired" => carries(l) /\ client[o].active = 1
    BY AnchorFacts
  <1>2. carries(l) /\ client[o].active = 1
    BY <1>1 DEF DisconnectSession
  <1>3. link \in LinkFns /\ client \in [Peers -> ClientRecord]
        /\ m \in Messages
    BY PeerTyped DEF Inv, TypeOK, Messages
  <1>4. /\ link' = closeSocket(sendUp(link, o, 1, m), o, 1)
        /\ client' = [client EXCEPT ![o].screen = "start",
                                    ![o].active = None]
        /\ UNCHANGED relayVars
    BY <1>2 DEF DisconnectSession, leave
  <1>5. /\ u \in LinkRecord /\ u.up = Append(l.up, m)
        /\ u.broken = l.broken /\ u.fin = l.fin
    BY <1>1, <1>2, <1>3, EditFields
  <1>6. /\ e \in LinkRecord /\ e.state = "closed" /\ e.down = <<>>
        /\ e.up = u.up /\ e.broken = u.broken /\ e.fin = u.fin
    BY <1>5, ShutFields
  <1>7. sendUp(link, o, 1, m) = L
    BY <1>1, <1>3, SendUpAt
  <1> HIDE DEF u
  <1>8. L \in LinkFns /\ L[o][1] = u
    <2>1. Puts(L, link, o, 1, u)
      BY <1>1, <1>3, <1>5, PutPuts
    <2> QED
      BY <2>1 DEF Puts
  <1> HIDE DEF L
  <1>9. link' = put(L, o, 1, e)
    BY <1>1, <1>4, <1>7, <1>8, CloseAt
  <1> HIDE DEF e
  <1>10. link'[o][1] = e
    <2>1. Puts(link', L, o, 1, e)
      BY <1>1, <1>6, <1>8, <1>9, PutPuts
    <2> QED
      BY <2>1 DEF Puts
  <1>11. Has(e.up, {m})
    <2>1. l.up \in Seq(Messages)
      BY <1>1 DEF LinkRecord
    <2> QED
      BY <1>3, <1>5, <1>6, <2>1, QueuePut
  <1>12. client'[o].last = client[o].last
    BY <1>3, <1>4 DEF ClientRecord
  <1>13. handler' = handler /\ slot' = slot /\ session' = TRUE
    BY <1>4 DEF relayVars, Inv, TypeOK
  <1>14. Anchor(client'[o], link'[o][1], handler'[o][1], slot'[o])
    BY <1>1, <1>5, <1>6, <1>10, <1>11, <1>12, <1>13, EmptyQueue DEF Anchor
  <1>15. ~carries(link'[o][1])
    BY <1>6, <1>10 DEF carries
  <1> QED
    BY <1>1, <1>13, <1>14, <1>15, Balances

(* The relay ends the session for either peer, or reaps it.                *)
LEMMA EndsAll ==
    ASSUME Inv, NEW o \in Peers, EpochInv(o), session,
           Reap \/ \E q \in Peers, n \in Links : ReadEnd(q, n)
    PROVE  EpochInv(o)'
  <1>1. /\ slot[o].conn = 1 /\ slot[o].connected /\ 1 \in Links
        /\ handler[o][1] = "serving"
        /\ \A k \in Links : k # 1 => handler[o][k] = "none"
        /\ link \in LinkFns /\ TypeOK
    BY AnchorFacts, PeerTyped DEF Inv
  <1>2. session' = FALSE /\ slot' = slot
    BY DEF Reap, ReadEnd
  <1>3. ASSUME NEW L \in LinkFns
        PROVE  /\ \A r \in Peers : dismissed(L, r) \in LinkFns
               /\ dismissed(L, o)[o][1].fin
               /\ \A r \in Peers : r # o => dismissed(L, r)[o][1] = L[o][1]
    <2>1. "session_ended" \in Messages /\ L[o][1] \in LinkRecord
      BY <1>1, RelayMessages DEF LinkFns
    <2>2. dismissed(L, o)[o][1] = finished(downTo(L[o][1], "session_ended"))
      BY <1>1, <2>1, PeerSends
    <2>3. downTo(L[o][1], "session_ended") \in LinkRecord
      BY <2>1, EditFields
    <2>4. dismissed(L, o)[o][1].fin
      BY <2>2, <2>3, ShutFields
    <2> QED
      BY <1>1, <2>1, <2>4, PeerSends
  <1>4. CASE Reap
    <2> DEFINE H == dismissed(link, "host")
    <2>1. link' = dismissed(H, "guest")
      BY <1>4 DEF Reap
    <2>2. /\ "host" \in Peers /\ "guest" \in Peers /\ "host" # "guest"
          /\ o = "host" \/ o = "guest"
      BY DEF Peers
    <2>3. H \in LinkFns /\ (o = "host" => H[o][1].fin)
      BY <1>1, <1>3, <2>2
    <2> HIDE DEF H
    <2>4. link'[o][1].fin
      BY <1>3, <2>1, <2>2, <2>3
    <2> QED
      BY <1>2, <2>4, EndStep DEF carries
  <1>5. ASSUME NEW q \in Peers, NEW n \in Links, ReadEnd(q, n)
        PROVE  EpochInv(o)'
    <2> DEFINE U == unread(q, n)
               D == dismissed(U, other(q))
    <2>1. /\ reads(q, n, "end_session", "serving")
          /\ link' = ended(D, q, n)
      BY <1>5 DEF ReadEnd, ended
    <2>2. U \in LinkFns /\ handler[q][n] = "serving"
      BY <2>1, ReadsDoes
    <2> HIDE DEF U
    <2>3. D \in LinkFns /\ (q # o => D[o][1].fin)
      BY <1>3, <2>2, TwoPeers
    <2> HIDE DEF D
    <2>4. D[q][n] \in LinkRecord
      BY <2>3 DEF LinkFns
    <2>5. finished(D[q][n]) \in LinkRecord /\ finished(D[q][n]).fin
      BY <2>4, ShutFields
    <2>6. Puts(link', D, q, n, finished(D[q][n]))
      <3>1. ended(D, q, n) = put(D, q, n, finished(D[q][n]))
        BY <2>3, EndedAt
      <3> QED
        BY <2>1, <2>3, <2>5, <3>1, PutPuts
    <2>7. CASE q = o
      <3>1. n = 1
        BY <1>1, <2>2, <2>7
      <3>2. link'[o][1].fin
        BY <2>5, <2>6, <2>7, <3>1 DEF Puts
      <3> QED
        BY <1>2, <3>2, EndStep DEF carries
    <2>8. CASE q # o
      <3>1. link'[o][1].fin
        BY <1>1, <2>3, <2>6, <2>8 DEF Puts
      <3> QED
        BY <1>2, <3>1, EndStep DEF carries
    <2> QED
      BY <2>7, <2>8
  <1> QED
    BY <1>4, <1>5

-----------------------------------------------------------------------------
(* Steps of the returning peer that the books do not notice *)

LEMMA KeptChain ==
    ASSUME NEW l, NEW h, NEW e, NEW g, NEW f, NEW i,
           Kept(l, h, e, g), Kept(e, g, f, i)
    PROVE  Kept(l, h, f, i)
  BY DEF Kept

LEMMA KeptEdits ==
    ASSUME NEW l \in LinkRecord, NEW h
    PROVE  /\ Kept(l, h, l, h)
           /\ l.wired \/ ~carries(l) => Kept(l, h, shut(l), h)
           /\ h \in {"first", "serving"} /\ ~carries(l) => Kept(l, h, l, "gone")
           /\ h = "first" => Kept(l, h, l, "announce")
  <1>1. /\ shut(l).state = "closed" /\ shut(l).down = <<>>
        /\ shut(l).broken = l.broken /\ shut(l).wired = l.wired
    BY ShutFields
  <1> DEFINE e == shut(l)
  <1> HIDE DEF e
  <1>2. \A S : ~Has(<<>>, S)
    BY EmptyQueue
  <1>3. ASSUME l.wired \/ ~carries(l) PROVE Kept(l, h, e, h)
    BY <1>1, <1>2, <1>3 DEF Kept, Returning, Owed, e
  <1>4. ASSUME h \in {"first", "serving"}, ~carries(l)
        PROVE  Kept(l, h, l, "gone")
    BY <1>4 DEF Kept, Returning, Owed
  <1>5. h = "first" => Kept(l, h, l, "announce")
    BY DEF Kept, Returning, Owed
  <1> QED
    BY <1>3, <1>4, <1>5 DEF Kept, e

(* Nothing of o has changed.                                               *)
Untouched(o) ==
    /\ \A k \in Links : link'[o][k] = link[o][k]
    /\ client'[o] = client[o] /\ handler'[o] = handler[o] /\ slot'[o] = slot[o]

LEMMA KeptOwn ==
    ASSUME Inv, NEW o \in Peers, EpochInv(o), session, session' = session,
           Untouched(o),
           LET p == other(o) IN
           EpochOK(p, o) =>
              /\ \A n \in Links : Kept(link[p][n], handler[p][n],
                                       link'[p][n], handler'[p][n])
              /\ client'[p].active \in {None, client[p].active}
              /\ client'[p].epoch = client[p].epoch
    PROVE  EpochInv(o)'
  <1>1. \A k \in Links : link[o][k] \in LinkRecord
    BY PeerTyped DEF Inv
  <1>2. \A k \in Links : Idle(link[o][k], link'[o][k])
    BY <1>1, IdleEdits DEF Untouched
  <1>3. /\ SameBook(client[o], client'[o]) /\ handler'[o] = handler[o]
        /\ slot'[o].conn = slot[o].conn
        /\ slot'[o].connected = slot[o].connected
    BY DEF SameBook, Untouched
  <1> QED
    BY <1>2, <1>3, KeptStep

(* A step on one socket n of p, with its handler g and the client d.       *)
LEMMA KeptPut ==
    ASSUME Inv, NEW o \in Peers, EpochInv(o), session, session' = session,
           NEW p, p = other(o),
           NEW n \in Links, NEW e \in LinkRecord, link' = put(link, p, n, e),
           NEW g, handler' = [handler EXCEPT ![p][n] = g],
           slot'[o] = slot[o],
           client'[o] = client[o],
           EpochOK(p, o) =>
              /\ Kept(link[p][n], handler[p][n], e, g)
              /\ client'[p].active \in {None, client[p].active}
              /\ client'[p].epoch = client[p].epoch
    PROVE  EpochInv(o)'
  <1>1. /\ p \in Peers /\ p # o /\ link \in LinkFns
        /\ \A k \in Links : link[p][k] \in LinkRecord
        /\ handler \in [Peers -> [Links -> HandlerStates]]
    BY TwoPeers, PeerTyped DEF Inv, TypeOK, HandlerStates
  <1>2. /\ link'[p][n] = e
        /\ \A q \in Peers, k \in Links :
              q # p \/ k # n => link'[q][k] = link[q][k]
    <2>1. Puts(link', link, p, n, e)
      BY <1>1, PutPuts
    <2> QED
      BY <2>1 DEF Puts
  <1>3. /\ handler'[o] = handler[o] /\ handler'[p][n] = g
        /\ \A k \in Links : k # n => handler'[p][k] = handler[p][k]
    BY <1>1
  <1>4. Untouched(o)
    BY <1>1, <1>2, <1>3 DEF Untouched
  <1>5. ASSUME EpochOK(p, o), NEW k \in Links
        PROVE  Kept(link[p][k], handler[p][k], link'[p][k], handler'[p][k])
    <2>1. CASE k = n
      BY <1>2, <1>3, <1>5, <2>1
    <2>2. CASE k # n
      BY <1>1, <1>2, <1>3, <2>2, KeptEdits
    <2> QED
      BY <2>1, <2>2
  <1> QED
    BY <1>4, <1>5, KeptOwn

(* What an attempt does to the sockets.                                    *)
LEMMA AttemptLinks ==
    ASSUME TypeOK, NEW L \in LinkFns, NEW p \in Peers, NEW c \in ClientRecord,
           NEW a, attemptReconnect(p, c, a, L)
    PROVE  /\ \A q \in Peers : q # p =>
                 /\ \A j \in Links : link'[q][j] = L[q][j]
                 /\ client'[q] = client[q]
           /\ \A j \in Links :
                 \/ link'[p][j] = L[p][j]
                 \/ /\ j = c.last + 1
                    /\ link'[p][j] = [L[p][j] EXCEPT !.state = "opening"]
           /\ client'[p].epoch = c.epoch /\ client'[p].active = c.active
  <1>1. client \in [Peers -> ClientRecord]
    BY DEF TypeOK
  <1>2. CASE ~c.token
    BY <1>1, <1>2 DEF attemptReconnect, ClientRecord
  <1>3. CASE c.token
    <2> DEFINE d == [c EXCEPT !.last = @ + 1, !.attempt = a]
               n == c.last + 1
    <2>1. /\ client' = [client EXCEPT ![p] = d]
          /\ link' = [L EXCEPT ![p][n].state = "opening"]
      BY <1>3 DEF attemptReconnect
    <2>2. d.epoch = c.epoch /\ d.active = c.active
      BY DEF ClientRecord
    <2> HIDE DEF d, n
    <2>3. /\ client'[p] = d
          /\ \A q \in Peers : q # p => client'[q] = client[q]
      BY <1>1, <2>1
    <2>4. /\ \A q \in Peers : q # p => link'[q] = L[q]
          /\ \A j \in Links :
                \/ link'[p][j] = L[p][j]
                \/ j = n /\ link'[p][j] = [L[p][j] EXCEPT !.state = "opening"]
      BY <2>1 DEF LinkFns
    <2> QED
      BY <2>2, <2>3, <2>4 DEF n
  <1> QED
    BY <1>2, <1>3 DEF attemptReconnect

(* A socket that has not been opened yet is.                               *)
LEMMA KeptAttempt ==
    ASSUME Inv, NEW p \in Peers, NEW j \in Links, j > client[p].last
    PROVE  Kept(link[p][j], handler[p][j],
                [link[p][j] EXCEPT !.state = "opening"], handler[p][j])
  <1>1. link[p][j] = Unused /\ handler[p][j] = "none"
    BY DEF Inv, PeerOK, SocketOK
  <1>2. ~Has(<<>>, Back) /\ ~Has(<<>>, News)
    BY EmptyQueue
  <1> QED
    BY <1>1, <1>2 DEF Unused, Kept, Returning, Owed

LEMMA ReturnTimer ==
    ASSUME Inv, NEW o \in Peers, EpochInv(o), session, RetryTimer(other(o))
    PROVE  EpochInv(o)'
  <1> DEFINE p == other(o)
             b == client[p]
             c == [b EXCEPT !.sleeping = FALSE]
  <1>1. /\ p \in Peers /\ o # p /\ link \in LinkFns /\ TypeOK
        /\ b \in ClientRecord /\ b.last \in Nat
        /\ client \in [Peers -> ClientRecord]
        /\ \A j \in Links : link[p][j] \in LinkRecord /\ j \in Nat
    BY TwoPeers, PeerTyped, Bounds DEF Inv, TypeOK
  <1>2. /\ c \in ClientRecord /\ c.last = b.last /\ c.epoch = b.epoch
        /\ c.active = b.active
    BY <1>1 DEF ClientRecord
  <1>3. /\ \/ attemptReconnect(p, c, c.attempt + 1, link)
           \/ client' = [client EXCEPT ![p] = c] /\ link' = link
        /\ handler' = handler /\ slot' = slot /\ session' = session
    BY DEF RetryTimer, relayVars
  <1> HIDE DEF p, c
  <1>4. /\ \A j \in Links : link'[o][j] = link[o][j]
        /\ client'[o] = client[o]
        /\ \A j \in Links :
              \/ link'[p][j] = link[p][j]
              \/ /\ j = c.last + 1
                 /\ link'[p][j] = [link[p][j] EXCEPT !.state = "opening"]
        /\ client'[p].epoch = c.epoch /\ client'[p].active = c.active
    <2>1. CASE attemptReconnect(p, c, c.attempt + 1, link)
      BY <1>1, <1>2, <2>1, AttemptLinks
    <2>2. CASE client' = [client EXCEPT ![p] = c] /\ link' = link
      BY <1>1, <2>2
    <2> QED
      BY <1>3, <2>1, <2>2
  <1>5. ASSUME NEW j \in Links
        PROVE  Kept(link[p][j], handler[p][j], link'[p][j], handler'[p][j])
    <2>1. CASE link'[p][j] = link[p][j]
      BY <1>1, <1>3, <2>1, KeptEdits
    <2>2. CASE j = c.last + 1 /\
               link'[p][j] = [link[p][j] EXCEPT !.state = "opening"]
      <3>1. j > client[p].last
        BY <1>1, <1>2, <2>2
      <3> QED
        BY <1>1, <1>3, <2>2, <3>1, KeptAttempt
    <2> QED
      BY <1>4, <2>1, <2>2
  <1>6. Untouched(o)
    BY <1>3, <1>4 DEF Untouched
  <1> QED
    BY <1>2, <1>3, <1>4, <1>5, <1>6, KeptOwn DEF p

LEMMA ReturnCloses ==
    ASSUME Inv, NEW o \in Peers, EpochInv(o), session, NEW n \in Links,
           CloseEvent(other(o), n)
    PROVE  EpochInv(o)'
  <1> DEFINE p == other(o)
             b == client[p]
             l == link[p][n]
             c == [b EXCEPT !.active = None]
             L == closeSocket(link, p, n)
  <1>1. /\ p \in Peers /\ o # p /\ link \in LinkFns /\ TypeOK
        /\ b \in ClientRecord /\ b.last \in Nat
        /\ client \in [Peers -> ClientRecord]
        /\ \A j \in Links : link[p][j] \in LinkRecord /\ j \in Nat
    BY TwoPeers, PeerTyped, Bounds DEF Inv, TypeOK
  <1>2. /\ c \in ClientRecord /\ c.last = b.last /\ c.epoch = b.epoch
        /\ c.active = None
    BY <1>1 DEF ClientRecord
  <1>3. /\ l.state = "open"
        /\ l.broken \/ l.fin
        /\ \/ attemptReconnect(p, c, 1, L)
           \/ client' = [client EXCEPT ![p] = retry(b)] /\ link' = L
           \/ client' = client /\ link' = L
        /\ handler' = handler /\ slot' = slot /\ session' = session
    BY DEF CloseEvent, relayVars
  <1>4. n = b.last
    BY <1>1, <1>3, InUse
  <1>5. shut(l) \in LinkRecord /\ L = put(link, p, n, shut(l))
    BY <1>1, CloseAt, ShutFields
  <1>6. /\ retry(b).epoch = b.epoch /\ retry(b).active = b.active
    BY <1>1 DEF retry, ClientRecord
  <1> HIDE DEF p, c, L
  <1>7. /\ L \in LinkFns /\ L[p][n] = shut(l)
        /\ \A q \in Peers, k \in Links :
              q # p \/ k # n => L[q][k] = link[q][k]
    <2>1. Puts(L, link, p, n, shut(l))
      BY <1>1, <1>5, PutPuts
    <2> QED
      BY <2>1 DEF Puts
  <1>8. /\ \A j \in Links : link'[o][j] = link[o][j]
        /\ client'[o] = client[o]
        /\ \A j \in Links :
              \/ link'[p][j] = L[p][j]
              \/ /\ j = b.last + 1
                 /\ link'[p][j] = [L[p][j] EXCEPT !.state = "opening"]
        /\ client'[p].epoch = b.epoch
        /\ client'[p].active \in {None, b.active}
    <2>1. CASE attemptReconnect(p, c, 1, L)
      BY <1>1, <1>2, <1>7, <2>1, AttemptLinks
    <2>2. CASE client' = [client EXCEPT ![p] = retry(b)] /\ link' = L
      BY <1>1, <1>6, <1>7, <2>2
    <2>3. CASE client' = client /\ link' = L
      BY <1>1, <1>7, <2>3
    <2> QED
      BY <1>3, <2>1, <2>2, <2>3
  <1>9. Kept(l, handler[p][n], shut(l), handler[p][n])
    BY <1>1, <1>3, KeptEdits DEF carries
  <1>10. ASSUME NEW j \in Links
         PROVE  Kept(link[p][j], handler[p][j], link'[p][j], handler'[p][j])
    <2>1. CASE j = n
      <3>1. j # b.last + 1
        BY <1>1, <1>4, <2>1
      <3>2. link'[p][j] = shut(l)
        BY <1>7, <1>8, <2>1, <3>1
      <3> QED
        BY <1>3, <1>9, <2>1, <3>2
    <2>2. CASE j # n /\ link'[p][j] = L[p][j]
      BY <1>1, <1>3, <1>7, <2>2, KeptEdits
    <2>3. CASE j = b.last + 1 /\
               link'[p][j] = [L[p][j] EXCEPT !.state = "opening"]
      <3>1. j > client[p].last /\ L[p][j] = link[p][j]
        BY <1>1, <1>4, <1>7, <2>3
      <3> QED
        BY <1>1, <1>3, <2>3, <3>1, KeptAttempt
    <2> QED
      BY <1>8, <2>1, <2>2, <2>3
  <1>11. Untouched(o)
    BY <1>3, <1>8 DEF Untouched
  <1> QED
    BY <1>3, <1>8, <1>10, <1>11, KeptOwn DEF p

LEMMA ReturnOpens ==
    ASSUME Inv, NEW o \in Peers, EpochInv(o), session, NEW n \in Links,
           Opens(other(o), n) \/ ConnectFails(other(o), n)
    PROVE  EpochInv(o)'
  <1> DEFINE p == other(o)
             b == client[p]
             l == link[p][n]
             h == handler[p][n]
  <1>1. /\ p \in Peers /\ o # p /\ link \in LinkFns /\ l \in LinkRecord
        /\ b \in ClientRecord
        /\ client \in [Peers -> ClientRecord]
    BY TwoPeers, PeerTyped DEF Inv, TypeOK
  <1>2. l.state = "opening" /\ slot' = slot /\ session' = session
    BY DEF Opens, ConnectFails, relayVars
  <1>3. SocketOK(b, l, h, slot[p], n)
    BY <1>1 DEF Inv, PeerOK
  <1>4. h = "none" /\ l.down = <<>>
    BY <1>2, <1>3 DEF SocketOK
  <1>5. ~Has(l.down, Back) /\ ~Has(l.down, News)
    BY <1>4, EmptyQueue
  <1> HIDE DEF p
  <1>6. CASE Opens(p, n)
    <2> DEFINE u == <<"reconnect">>
               e == [l EXCEPT !.state = "open", !.up = u]
    <2>1. u \in Seq(Messages)
      <3>1. "reconnect" \in Messages
        BY DEF Messages
      <3> QED
        BY <3>1
    <2>2. /\ link' = [link EXCEPT ![p][n].state = "open", ![p][n].up = u]
          /\ handler' = [handler EXCEPT ![p][n] = "first"]
          /\ client' = client
      BY <1>6 DEF Opens
    <2> HIDE DEF u
    <2>3. /\ e \in LinkRecord /\ e.state = "open" /\ e.down = l.down
          /\ e.broken = l.broken /\ e.fin = l.fin /\ e.wired = l.wired
      BY <1>1, <2>1 DEF LinkRecord
    <2>4. link' = put(link, p, n, e)
      BY <1>1, <2>2 DEF put, LinkFns
    <2> HIDE DEF e
    <2>5. Kept(l, h, e, "first")
      BY <1>2, <1>4, <1>5, <2>3 DEF Kept, Returning, Owed, carries
    <2> QED
      BY <1>2, <2>2, <2>3, <2>4, <2>5, KeptPut DEF p
  <1>7. CASE ConnectFails(p, n)
    <2>1. /\ link' = closeSocket(link, p, n) /\ handler' = handler
          /\ client' = [client EXCEPT ![p] = retry(b)] \/ client' = client
      BY <1>7 DEF ConnectFails, relayVars
    <2>2. retry(b).epoch = b.epoch /\ retry(b).active = b.active
      BY <1>1 DEF retry, ClientRecord
    <2>3. /\ client'[p].epoch = b.epoch /\ client'[p].active = b.active
          /\ client'[o] = client[o]
      BY <1>1, <2>1, <2>2
    <2>4. /\ shut(l) \in LinkRecord /\ link' = put(link, p, n, shut(l))
      BY <1>1, <2>1, CloseAt, ShutFields
    <2>5. Kept(l, h, shut(l), h)
      BY <1>1, <1>2, KeptEdits DEF carries
    <2>6. handler' = [handler EXCEPT ![p][n] = h]
      BY <2>1 DEF Inv, TypeOK
    <2> QED
      BY <1>2, <2>3, <2>4, <2>5, <2>6, KeptPut DEF p
  <1> QED
    BY <1>6, <1>7 DEF p

(* The returning peer leaves its screen and closes its active socket.      *)
LEMMA ReturnLeaves ==
    ASSUME Inv, NEW o \in Peers, EpochInv(o), session,
           \/ DisconnectSession(other(o))
           \/ \E n \in Links : \/ HearError(other(o), n)
                               \/ HearSessionEnded(other(o), n)
    PROVE  EpochInv(o)'
  <1> DEFINE p == other(o)
             a == client[p].active
  <1>1. /\ p \in Peers /\ o # p /\ link \in LinkFns
        /\ client \in [Peers -> ClientRecord]
        /\ a \in Links \cup {None} /\ 1 \in Links
        /\ \A k \in Links : link[p][k] \in LinkRecord
    BY TwoPeers, PeerTyped, Bounds DEF Inv, TypeOK
  <1>2. ASSUME NEW i \in Links, NEW e, Idle(link[p][i], e),
               NEW scr, leave(p, scr, put(link, p, i, e)), UNCHANGED relayVars
        PROVE  EpochInv(o)'
    <2> DEFINE L == put(link, p, i, e)
    <2>1. /\ link' = closeSocket(L, p, a)
          /\ client' = [client EXCEPT ![p].screen = scr, ![p].active = None]
          /\ handler' = handler /\ slot' = slot /\ session' = session
      BY <1>2 DEF leave, relayVars
    <2>2. e \in LinkRecord
      BY <1>2 DEF Idle
    <2>3. /\ L \in LinkFns /\ L[p][i] = e
          /\ \A q \in Peers, k \in Links : q # p \/ k # i => L[q][k] = link[q][k]
      <3>1. Puts(L, link, p, i, e)
        BY <1>1, <2>2, PutPuts
      <3> QED
        BY <3>1 DEF Puts
    <2> HIDE DEF L, p
    <2>4. ASSUME NEW k \in Links
          PROVE  /\ L[p][k] \in LinkRecord
                 /\ Kept(link[p][k], handler[p][k], L[p][k], handler[p][k])
      <3>1. CASE k = i
        BY <1>2, <2>2, <2>3, <3>1, IdleKeeps
      <3>2. CASE k # i
        BY <1>1, <2>3, <3>2, KeptEdits
      <3> QED
        BY <3>1, <3>2
    <2>5. /\ \A k \in Links : link'[o][k] = L[o][k]
          /\ \A k \in Links : link'[p][k] = L[p][k]
                              \/ (k = a /\ link'[p][k] = shut(L[p][k]))
      <3>1. CASE a = None
        BY <2>1, <3>1 DEF closeSocket
      <3>2. CASE a \in Links
        <4>1. shut(L[p][a]) \in LinkRecord
          BY <2>4, <3>2, ShutFields
        <4>2. link' = put(L, p, a, shut(L[p][a]))
          BY <1>1, <2>1, <2>3, <3>2, CloseAt
        <4>3. Puts(link', L, p, a, shut(L[p][a]))
          BY <1>1, <2>3, <3>2, <4>1, <4>2, PutPuts
        <4> QED
          BY <1>1, <4>3 DEF Puts
      <3> QED
        BY <1>1, <3>1, <3>2
    <2>6. ASSUME EpochOK(p, o), NEW k \in Links
          PROVE  Kept(link[p][k], handler[p][k], link'[p][k], handler'[p][k])
      <3>1. CASE link'[p][k] = L[p][k]
        BY <2>1, <2>4, <3>1
      <3>2. CASE k = a /\ link'[p][k] = shut(L[p][k])
        <4>1. link[p][k].wired
          BY <1>1, <2>6, <3>2, Bounds DEF EpochOK
        <4>2. L[p][k].wired
          BY <2>4, <4>1 DEF Kept
        <4>3. Kept(L[p][k], handler[p][k], shut(L[p][k]), handler[p][k])
          BY <2>4, <4>2, KeptEdits
        <4> QED
          BY <2>1, <2>4, <3>2, <4>3, KeptChain
      <3> QED
        BY <2>5, <3>1, <3>2
    <2>7. /\ client'[o] = client[o]
          /\ client'[p].active = None /\ client'[p].epoch = client[p].epoch
      BY <1>1, <2>1 DEF ClientRecord
    <2>8. Untouched(o)
      BY <1>1, <2>1, <2>3, <2>5, <2>7 DEF Untouched
    <2> QED
      BY <2>1, <2>6, <2>7, <2>8, KeptOwn DEF p
  <1>3. CASE DisconnectSession(p)
    <2>1. /\ leave(p, "start", sendUp(link, p, a, "end_session"))
          /\ UNCHANGED relayVars
      BY <1>3 DEF DisconnectSession
    <2>2. "end_session" \in Messages
      BY DEF Messages
    <2>3. CASE a = None
      <3>1. sendUp(link, p, a, "end_session") = put(link, p, 1, link[p][1])
        BY <1>1, <2>3, PutSame DEF sendUp
      <3>2. Idle(link[p][1], link[p][1])
        BY <1>1, IdleEdits
      <3> QED
        BY <1>1, <1>2, <2>1, <3>1, <3>2
    <2>4. CASE a \in Links
      <3> DEFINE e == upTo(link[p][a], "end_session")
      <3>1. sendUp(link, p, a, "end_session") = put(link, p, a, e)
        BY <1>1, <2>4, SendUpAt
      <3>2. Idle(link[p][a], e)
        BY <1>1, <2>2, <2>4, IdleEdits
      <3> HIDE DEF e
      <3> QED
        BY <1>2, <2>1, <2>4, <3>1, <3>2
    <2> QED
      BY <1>1, <2>3, <2>4
  <1>4. ASSUME NEW n \in Links, HearError(p, n) \/ HearSessionEnded(p, n)
        PROVE  EpochInv(o)'
    <2> DEFINE l == link[p][n]
    <2>1. /\ leave(p, "error", rest(p, n)) /\ UNCHANGED relayVars
          /\ l.down # <<>> /\ Head(l.down) \in Why
      BY <1>4 DEF HearError, HearSessionEnded, wiredHears, hears, Why
    <2>2. rest(p, n) = put(link, p, n, heard(l))
      BY <1>1, RestAt
    <2>3. Head(l.down) \notin Back \cup News
      BY <2>1 DEF Why, Back, News
    <2>4. Idle(l, heard(l))
      BY <1>1, <2>1, <2>3, IdleEdits
    <2> QED
      BY <1>2, <2>1, <2>2, <2>4
  <1> QED
    BY <1>3, <1>4

(* A break of the returning peer's socket is never a late one.             *)
LEMMA ReturnBreaks ==
    ASSUME Inv, NEW o \in Peers, EpochInv(o), session,
           "lateBreak" \notin Faults, NEW n \in Links, Break(other(o), n)
    PROVE  EpochInv(o)'
  <1> DEFINE p == other(o)
             l == link[p][n]
             e == [l EXCEPT !.broken = TRUE]
             h == handler[p][n]
  <1>1. /\ p \in Peers /\ o # p /\ l \in LinkRecord
    BY TwoPeers, PeerTyped DEF Inv
  <1>2. /\ l.wired /\ carries(l) /\ UNCHANGED <<client, relayVars>>
        /\ n + RECONNECT_MAX_ATTEMPTS <= MaxConns
        /\ link' = [link EXCEPT ![p][n].broken = TRUE]
    BY DEF Break, mayBreak
  <1>3. e \in LinkRecord /\ link' = put(link, p, n, e)
    BY <1>1, <1>2, SnapDoes
  <1>4. /\ e.state = l.state /\ e.wired = l.wired /\ e.down = l.down
        /\ e.fin = l.fin /\ e.broken = TRUE
    BY <1>1 DEF LinkRecord
  <1> HIDE DEF e, p
  <1>5. Kept(l, h, e, h)
    BY <1>2, <1>4 DEF Kept, Returning, Owed, carries
  <1>6. /\ handler' = [handler EXCEPT ![p][n] = h]
        /\ slot' = slot /\ session' = session
    BY <1>2 DEF Inv, TypeOK, relayVars
  <1> QED
    BY <1>2, <1>3, <1>5, <1>6, KeptPut DEF p

(* There is no news for the returning peer, on a socket that is wired or   *)
(* on one that is not.                                                     *)
LEMMA ReturnHearsNone ==
    ASSUME Inv, NEW o \in Peers, EpochInv(o), session, NEW n \in Links,
           HearUnwired(other(o), n) \/ HearPeerReconnected(other(o), n)
    PROVE  EpochInv(o)'
  <1> DEFINE p == other(o)
             l == link[p][n]
             h == handler[p][n]
  <1>1. /\ p \in Peers /\ o # p /\ l \in LinkRecord /\ link \in LinkFns
        /\ client \in [Peers -> ClientRecord]
        /\ l.down \in Seq(Messages)
    BY TwoPeers, PeerTyped DEF Inv, TypeOK, LinkRecord
  <1>2. PICK m : /\ hears(p, n, m) /\ m \notin Back
                 /\ m \in News \/ client' = client
    BY DEF HearUnwired, HearPeerReconnected, wiredHears, News, Back
  <1>3. /\ link' = rest(p, n) /\ l.down # <<>> /\ Head(l.down) = m
        /\ handler' = handler /\ slot' = slot /\ session' = session
        /\ client'[o] = client[o]
    BY <1>1, <1>2 DEF HearUnwired, HearPeerReconnected, hears, relayVars
  <1>4. heard(l) \in LinkRecord /\ link' = put(link, p, n, heard(l))
    BY <1>1, <1>3, RestAt, TakeFields
  <1>5. handler' = [handler EXCEPT ![p][n] = h]
    BY <1>3 DEF Inv, TypeOK
  <1> HIDE DEF p
  <1>6. ASSUME EpochOK(p, o)
        PROVE  /\ Kept(l, h, heard(l), h)
               /\ client'[p].active \in {None, client[p].active}
               /\ client'[p].epoch = client[p].epoch
    <2>1. m \notin News
      <3>1. ~Has(l.down, News)
        BY <1>6 DEF EpochOK, Returning
      <3> QED
        BY <1>1, <1>3, <3>1, QueueTake
    <2>2. Idle(l, heard(l))
      BY <1>1, <1>2, <1>3, <2>1, IdleEdits
    <2> QED
      BY <1>2, <2>1, <2>2, IdleKeeps
  <1> DEFINE e == heard(l)
  <1> HIDE DEF e
  <1>7. /\ e \in LinkRecord /\ link' = put(link, p, n, e)
        /\ slot'[o] = slot[o] /\ session' = session
        /\ client'[o] = client[o]
        /\ EpochOK(p, o) =>
              /\ Kept(link[p][n], handler[p][n], e, h)
              /\ client'[p].active \in {None, client[p].active}
              /\ client'[p].epoch = client[p].epoch
    BY <1>3, <1>4, <1>6 DEF e
  <1> QED
    BY <1>5, <1>7, KeptPut DEF p

(* Reconnect accepts, or refuses and ends the connection.                  *)
LEMMA ReturnReads ==
    ASSUME Inv, NEW o \in Peers, EpochInv(o), session, NEW n \in Links,
           ReadReconnect(other(o), n)
    PROVE  EpochInv(o)'
  <1> DEFINE p == other(o)
             l == link[p][n]
             t == taken(l)
             U == unread(p, n)
             m == "error"
  <1>1. /\ p \in Peers /\ o # p /\ link \in LinkFns
        /\ l \in LinkRecord /\ l.down \in Seq(Messages)
        /\ slot \in [Peers -> SlotRecords] /\ m \in Messages
    BY TwoPeers, PeerTyped, RelayMessages
       DEF Inv, TypeOK, LinkRecord, SlotRecords
  <1>2. /\ reads(p, n, "reconnect", "first")
        /\ client' = client /\ session' = session
    BY DEF ReadReconnect
  <1>3. /\ handler[p][n] = "first" /\ l.up # <<>> /\ Head(l.up) = "reconnect"
        /\ t \in LinkRecord /\ U \in LinkFns /\ U = put(link, p, n, t)
        /\ U[p][n] = t
    BY <1>1, <1>2, ReadsDoes
  <1>4. /\ t.state = l.state /\ t.down = l.down
        /\ t.broken = l.broken /\ t.fin = l.fin /\ t.wired = l.wired
    BY <1>1, <1>3, TakeFields
  <1>5. Kept(l, "first", t, "first") /\ Kept(t, "first", t, "announce")
    <2>1. Idle(l, t)
      BY <1>1, <1>3, IdleEdits
    <2> QED
      BY <1>3, <2>1, IdleKeeps, KeptEdits
  <1>6. l.state # "opening"
    <2>1. SocketOK(client[p], l, handler[p][n], slot[p], n)
      BY <1>1 DEF Inv, PeerOK
    <2> QED
      BY <1>3, <2>1 DEF SocketOK
  <1> HIDE DEF t, U, p
  <1>7. CASE /\ slot' = [slot EXCEPT ![p].conn = n, ![p].connected = TRUE]
             /\ handler' = [handler EXCEPT ![p][n] = "announce"]
             /\ link' = U
    <2>1. slot'[o] = slot[o] /\ client'[o] = client[o]
          /\ client'[p] = client[p]
      BY <1>1, <1>2, <1>7
    <2>2. Kept(l, handler[p][n], t, "announce")
      BY <1>3, <1>5, KeptChain
    <2>3. link' = put(link, p, n, t)
      BY <1>3, <1>7
    <2> QED
      BY <1>2, <1>3, <1>7, <2>1, <2>2, <2>3, KeptPut DEF p
  <1>8. CASE /\ slot' = slot
             /\ handler' = [handler EXCEPT ![p][n] = "gone"]
             /\ link' = ended(sendDown(U, p, n, m), p, n)
    <2> DEFINE f == downTo(t, m)
               e == finished(f)
               M == put(link, p, n, f)
    <2>1. /\ f \in LinkRecord
          /\ f.state = l.state /\ f.broken = l.broken
          /\ f.fin = l.fin /\ f.wired = l.wired
          /\ f.down = l.down \/ f.down = Append(l.down, m)
      <3>1. /\ f \in LinkRecord
            /\ f.state = t.state /\ f.broken = t.broken
            /\ f.fin = t.fin /\ f.wired = t.wired
            /\ f.down = IF carries(t) THEN Append(t.down, m) ELSE t.down
        BY <1>1, <1>3, EditFields
      <3> HIDE DEF f, l, m
      <3> QED
        BY <1>4, <3>1
    <2>2. /\ e \in LinkRecord /\ e.state = f.state /\ e.broken = f.broken
          /\ e.fin = TRUE /\ e.wired = f.wired /\ e.down = f.down
      BY <2>1, ShutFields
    <2>3. sendDown(U, p, n, m) = M
      <3>1. sendDown(U, p, n, m) = put(U, p, n, f)
        BY <1>1, <1>3, SendDownAt
      <3> HIDE DEF f
      <3> QED
        BY <1>1, <1>3, <3>1, PutPut
    <2>4. M \in LinkFns /\ M[p][n] = f
      <3>1. Puts(M, link, p, n, f)
        BY <1>1, <2>1, PutPuts
      <3> QED
        BY <3>1 DEF Puts
    <2>5. link' = put(link, p, n, e)
      <3>1. link' = put(M, p, n, e)
        BY <1>1, <1>8, <2>3, <2>4, EndedAt
      <3> HIDE DEF e, f
      <3> QED
        BY <1>1, <3>1, PutPut
    <2> HIDE DEF e, f
    <2>6. ASSUME Returning(l, "first")
          PROVE  Returning(e, "gone") /\ (Owed(e, "gone") <=> Owed(l, "first"))
      <3>1. /\ ~Has(l.down, Back) /\ ~Has(l.down, News)
            /\ e.broken => e.wired
        BY <2>1, <2>2, <2>6 DEF Returning
      <3>2. m \notin Back /\ m \notin News
        BY DEF Back, News
      <3>3. ~Has(e.down, Back) /\ ~Has(e.down, News)
        <4>1. e.down = l.down \/ e.down = Append(l.down, m)
          BY <2>1, <2>2
        <4> HIDE DEF m
        <4>2. \A S : m \notin S /\ ~Has(l.down, S) =>
                        ~Has(Append(l.down, m), S)
          BY <1>1, QueuePut
        <4> QED
          BY <3>1, <3>2, <4>1, <4>2
      <3> QED
        BY <1>6, <2>1, <2>2, <3>1, <3>3 DEF Returning, Owed
    <2>7. Kept(l, handler[p][n], e, "gone")
      BY <1>3, <2>1, <2>2, <2>6 DEF Kept
    <2> QED
      BY <1>2, <1>8, <2>2, <2>5, <2>7, KeptPut DEF p
  <1>9. \/ /\ slot' = [slot EXCEPT ![p].conn = n, ![p].connected = TRUE]
           /\ handler' = [handler EXCEPT ![p][n] = "announce"]
           /\ link' = U
        \/ /\ slot' = slot
           /\ handler' = [handler EXCEPT ![p][n] = "gone"]
           /\ link' = ended(sendDown(U, p, n, m), p, n)
    BY DEF ReadReconnect, ended, U, p
  <1> QED
    BY <1>7, <1>8, <1>9

(* What was owed to the client is on its way.                              *)
LEMMA ReturnConfirms ==
    ASSUME Inv, NEW o \in Peers, EpochInv(o), session, NEW n \in Links,
           Confirm(other(o), n)
    PROVE  EpochInv(o)'
  <1> DEFINE p == other(o)
             l == link[p][n]
             m == "reconnected"
             e == downTo(l, m)
  <1>1. /\ p \in Peers /\ o # p /\ link \in LinkFns
        /\ l \in LinkRecord /\ l.down \in Seq(Messages) /\ m \in Messages
    BY TwoPeers, PeerTyped, RelayMessages DEF Inv, LinkRecord
  <1>2. /\ handler[p][n] = "confirm"
        /\ handler' = [handler EXCEPT ![p][n] = "serving"]
        /\ link' = sendDown(link, p, n, m)
        /\ client' = client /\ slot' = slot /\ session' = session
    BY DEF Confirm
  <1>3. link' = put(link, p, n, e)
    BY <1>1, <1>2, SendDownAt
  <1>4. /\ e \in LinkRecord /\ e.state = l.state /\ e.broken = l.broken
        /\ e.fin = l.fin /\ e.wired = l.wired
        /\ e.down = IF carries(l) THEN Append(l.down, m) ELSE l.down
    BY <1>1, EditFields
  <1> HIDE DEF e, p
  <1>5. ASSUME Returning(l, "confirm")
        PROVE  /\ Returning(e, "serving")
               /\ Owed(e, "serving") <=> Owed(l, "confirm")
    <2>1. /\ carries(l) /\ ~l.wired /\ ~Has(l.down, Back)
          /\ ~Has(l.down, News)
      BY <1>5 DEF Returning
    <2>2. m \in Back /\ m \notin News
      BY DEF Back, News
    <2>3. /\ Has(e.down, Back) /\ Once(e.down, Back)
          /\ ~Has(e.down, News)
      <3>1. Once(l.down, Back)
        BY <2>1 DEF Has, Once
      <3> HIDE DEF m
      <3> QED
        BY <1>1, <1>4, <2>1, <2>2, <3>1, QueuePut
    <2> QED
      BY <1>4, <2>1, <2>3 DEF Returning, Owed, carries
  <1>6. Kept(l, handler[p][n], e, "serving")
    BY <1>2, <1>4, <1>5 DEF Kept
  <1> QED
    BY <1>2, <1>3, <1>4, <1>6, KeptPut DEF p

(* The returning peer's handler is done; the steady peer may be told.      *)
LEMMA ReturnGone ==
    ASSUME Inv, NEW o \in Peers, EpochInv(o), session, NEW n \in Links,
           HandleDisconnect(other(o), n)
    PROVE  EpochInv(o)'
  <1> DEFINE p == other(o)
             l == link[p][n]
             h == handler[p][n]
             m == "peer_disconnected"
             M == sendPeer(link, o, m)
  <1>1. /\ p \in Peers /\ o # p /\ other(p) = o /\ TypeOK
        /\ link \in LinkFns /\ m \in Messages
        /\ \A q \in Peers, k \in Links : link[q][k] \in LinkRecord
        /\ slot \in [Peers -> SlotRecords]
        /\ handler \in [Peers -> [Links -> HandlerStates]]
    BY TwoPeers, PeerTyped, RelayMessages
       DEF Inv, TypeOK, HandlerStates, SlotRecords
  <1>2. /\ ~carries(l) /\ h \in {"first", "serving"}
        /\ handler' = [handler EXCEPT ![p][n] = "gone"]
        /\ client' = client /\ session' = session
        /\ link' = M \/ link' = link
    BY <1>1 DEF HandleDisconnect, carries
  <1>3. slot' = [slot EXCEPT ![p].connected = FALSE] \/ slot' = slot
    BY DEF HandleDisconnect
  <1> HIDE DEF p
  <1>4. slot'[o] = slot[o]
    BY <1>1, <1>3
  <1>5. m \notin Why \cup Back \cup News
    BY DEF Why, Back, News
  <1>6. /\ \A k \in Links : link'[p][k] = link[p][k]
        /\ \A k \in Links : Idle(link[o][k], link'[o][k])
    <2>1. /\ \A k \in Links : M[p][k] = link[p][k]
          /\ \A k \in Links :
                M[o][k] = link[o][k] \/ M[o][k] = downTo(link[o][k], m)
      BY <1>1, PeerSent
    <2> HIDE DEF M
    <2> QED
      BY <1>1, <1>2, <1>5, <2>1, IdleEdits
  <1>7. ASSUME NEW k \in Links
        PROVE  Kept(link[p][k], handler[p][k], link'[p][k], handler'[p][k])
    <2>1. CASE k = n
      BY <1>1, <1>2, <1>6, <2>1, KeptEdits
    <2>2. CASE k # n
      BY <1>1, <1>2, <1>6, <2>2, KeptEdits
    <2> QED
      BY <2>1, <2>2
  <1>8. SameBook(client[o], client'[o]) /\ handler'[o] = handler[o]
    BY <1>1, <1>2 DEF SameBook
  <1> QED
    BY <1>2, <1>4, <1>6, <1>7, <1>8, KeptStep DEF p

-----------------------------------------------------------------------------
(* A reconnect is announced, and heard of by its own client                *)

(* At most one of the returning peer's sockets is owed anything.           *)
LEMMA OwedAlone ==
    ASSUME Inv, NEW p \in Peers, NEW n \in Links, carries(link[p][n]),
           NEW k \in Links, Returning(link[p][k], handler[p][k]),
           Owed(link[p][k], handler[p][k])
    PROVE  k = n
  <1>1. carries(link[p][k])
    BY DEF Returning, Owed
  <1> QED
    BY <1>1, InUse DEF carries

LEMMA ReturnAnnounced ==
    ASSUME Inv, NEW o \in Peers, EpochInv(o), session, NEW n \in Links,
           Announce(other(o), n)
    PROVE  EpochInv(o)'
  <1> DEFINE p == other(o)
             f == link[o][1]
             m == "peer_reconnected"
             e == downTo(f, m)
             M == sendPeer(link, o, m)
  <1>1. /\ p \in Peers /\ o # p /\ other(p) = o /\ TypeOK
        /\ link \in LinkFns /\ m \in Messages
        /\ handler \in [Peers -> [Links -> HandlerStates]]
        /\ client[o].epoch \in Nat
        /\ client[p].active \in Links \cup {None}
    <2>1. p \in Peers /\ o # p /\ other(p) = o
      BY TwoPeers
    <2>2. client[o] \in ClientRecord
      BY PeerTyped DEF Inv
    <2> QED
      BY <2>1, <2>2, PeerTyped, RelayMessages
         DEF Inv, TypeOK, HandlerStates, ClientRecord
  <1>2. /\ Anchor(client[o], f, handler[o][1], slot[o])
        /\ slot[o].conn = 1 /\ slot[o].connected /\ 1 \in Links
        /\ f \in LinkRecord /\ f.down \in Seq(Messages)
    BY AnchorFacts DEF LinkRecord
  <1>3. /\ handler[p][n] = "announce"
        /\ handler' = [handler EXCEPT ![p][n] = "confirm"]
        /\ link' = M
        /\ client' = client /\ slot' = slot /\ session' = TRUE
    BY <1>1 DEF Announce, TypeOK
  <1>4. /\ e.state = f.state /\ e.broken = f.broken
        /\ e.fin = f.fin /\ e.wired = f.wired /\ e.up = f.up
        /\ e.down = IF carries(f) THEN Append(f.down, m) ELSE f.down
    BY <1>1, <1>2, EditFields
  <1>5. /\ M[o][1] = e
        /\ \A k \in Links : M[p][k] = link[p][k]
    BY <1>1, <1>2, PeerSends
  <1> HIDE DEF e, p, M
  <1>6. ~Has(e.down, Why) /\ ~Has(e.down, Back)
    <2>1. m \notin Why /\ m \notin Back
      BY DEF Why, Back
    <2> HIDE DEF m
    <2>2. \A S : m \notin S /\ ~Has(f.down, S) => ~Has(Append(f.down, m), S)
      BY <1>1, <1>2, QueuePut
    <2> QED
      BY <1>2, <1>4, <2>1, <2>2 DEF Anchor
  <1>7. /\ link'[o][1] = e /\ \A k \in Links : link'[p][k] = link[p][k]
        /\ handler'[o] = handler[o] /\ handler'[p][n] = "confirm"
        /\ \A k \in Links : k # n => handler'[p][k] = handler[p][k]
    BY <1>1, <1>3, <1>5
  <1>8. Anchor(client'[o], link'[o][1], handler'[o][1], slot'[o])
    BY <1>2, <1>3, <1>4, <1>6, <1>7 DEF Anchor
  <1>9. carries(link'[o][1]) <=> carries(f)
    BY <1>4, <1>7 DEF carries
  <1>10. ASSUME carries(link'[o][1])
         PROVE  /\ \A k \in Links : Returning(link'[p][k], handler'[p][k])
                /\ client'[p].active # None =>
                      link'[p][client'[p].active].wired
                /\ client'[o].epoch + Count(link'[o][1].down) =
                      IF \E k \in Links : Owed(link'[p][k], handler'[p][k])
                      THEN client'[p].epoch + 1 ELSE client'[p].epoch
    <2>1. EpochOK(p, o)
      BY <1>9, <1>10 DEF EpochInv, p
    <2>2. \A k \in Links : Returning(link[p][k], handler[p][k])
      BY <2>1 DEF EpochOK
    <2>3. carries(link[p][n]) /\ ~Has(link[p][n].down, Back)
      BY <1>3, <2>2 DEF Returning
    <2>4. ~SomeOwed(p)
      <3> SUFFICES ASSUME NEW k \in Links, Owed(link[p][k], handler[p][k])
                   PROVE  FALSE
        BY DEF SomeOwed
      <3>1. k = n
        BY <1>1, <2>2, <2>3, OwedAlone
      <3> QED
        BY <1>3, <2>3, <3>1 DEF Owed
    <2>5. client[o].epoch + Count(f.down) = client[p].epoch
      BY <2>1, <2>4 DEF EpochOK, downs
    <2>6. Count(e.down) = Count(f.down) + 1 /\ Count(f.down) \in Nat
      <3>1. Count(Append(f.down, m)) = Count(f.down) + 1
        BY <1>1, <1>2, CountPut
      <3>2. Count(f.down) \in Nat
        BY <1>2, CountNat
      <3> QED
        BY <1>4, <1>9, <1>10, <3>1, <3>2
    <2>7. client'[o].epoch + Count(link'[o][1].down) = client'[p].epoch + 1
      <3>1. /\ client'[o].epoch = client[o].epoch
            /\ client'[p].epoch = client[p].epoch
            /\ link'[o][1].down = e.down
        BY <1>3, <1>7
      <3> DEFINE x == client[o].epoch
                 y == Count(f.down)
      <3>2. x \in Nat /\ y \in Nat /\ x + y = client[p].epoch
            /\ Count(e.down) = y + 1
        BY <1>1, <2>5, <2>6
      <3> HIDE DEF x, y
      <3>3. x + (y + 1) = (x + y) + 1
        BY <3>2
      <3> QED
        BY <3>1, <3>2, <3>3 DEF x
    <2>8. \E k \in Links : Owed(link'[p][k], handler'[p][k])
      BY <1>7 DEF Owed
    <2>9. ASSUME NEW k \in Links
          PROVE  Returning(link'[p][k], handler'[p][k])
      <3>1. CASE k = n
        BY <1>3, <1>7, <2>2, <3>1 DEF Returning
      <3>2. CASE k # n
        BY <1>7, <2>2, <3>2
      <3> QED
        BY <3>1, <3>2
    <2>10. client'[p].active # None => link'[p][client'[p].active].wired
      BY <1>1, <1>3, <1>7, <2>1 DEF EpochOK
    <2> QED
      BY <2>7, <2>8, <2>9, <2>10
  <1>11. slot'[o].conn = 1 /\ session' = TRUE
    BY <1>2, <1>3
  <1> QED
    BY <1>8, <1>9, <1>10, <1>11, Balances DEF p

LEMMA ReturnHears ==
    ASSUME Inv, NEW o \in Peers, EpochInv(o), session, NEW n \in Links,
           HearReconnected(other(o), n)
    PROVE  EpochInv(o)'
  <1> DEFINE p == other(o)
             b == client[p]
             l == link[p][n]
             m == "reconnected"
             t == heard(l)
             R == rest(p, n)
             e == [t EXCEPT !.wired = TRUE]
             d == [rendered(b) EXCEPT !.active = n, !.epoch = @ + 1]
  <1>1. /\ p \in Peers /\ o # p /\ 1 \in Links /\ None \notin Links
        /\ link \in LinkFns /\ m \in Messages /\ m \notin Why
        /\ l \in LinkRecord /\ b \in ClientRecord /\ b.epoch \in Nat
        /\ client \in [Peers -> ClientRecord]
    BY TwoPeers, PeerTyped, Bounds, RelayMessages
       DEF Inv, TypeOK, Why, ClientRecord
  <1>2. /\ hears(p, n, m)
        /\ client' = [client EXCEPT ![p] = d]
        /\ link' = [R EXCEPT ![p][n].wired = TRUE]
    BY DEF HearReconnected
  <1>3. /\ l.down \in Seq(Messages) /\ l.down # <<>> /\ Head(l.down) = m
        /\ l.state = "open" /\ t \in LinkRecord
        /\ R \in LinkFns /\ R = put(link, p, n, t)
        /\ UNCHANGED relayVars
    BY <1>1, <1>2, HearsDoes
  <1>4. /\ t.state = l.state /\ t.down = Tail(l.down)
        /\ t.broken = l.broken /\ t.fin = l.fin
    BY <1>1, <1>3, TakeFields
  <1>5. rendered(b).epoch = b.epoch /\ rendered(b) \in ClientRecord
    BY <1>1 DEF rendered, ClientRecord
  <1>6. d.epoch = b.epoch + 1 /\ d.active = n
    BY <1>5 DEF ClientRecord
  <1> HIDE DEF t, R, d, p
  <1>7. /\ e.state = t.state /\ e.down = t.down /\ e.broken = t.broken
        /\ e.fin = t.fin /\ e.wired
    BY <1>3 DEF LinkRecord
  <1>8. /\ R[p][n] = t
        /\ \A q \in Peers, k \in Links : q # p \/ k # n => R[q][k] = link[q][k]
    <2>1. Puts(R, link, p, n, t)
      BY <1>1, <1>3, PutPuts
    <2> QED
      BY <2>1 DEF Puts
  <1>9. /\ link'[p][n] = e
        /\ \A q \in Peers, k \in Links :
              q # p \/ k # n => link'[q][k] = link[q][k]
    <2>1. /\ link'[p][n] = [R[p][n] EXCEPT !.wired = TRUE]
          /\ \A q \in Peers, k \in Links :
                q # p \/ k # n => link'[q][k] = R[q][k]
      BY <1>1, <1>2, <1>3 DEF LinkFns
    <2> QED
      BY <1>8, <2>1
  <1> HIDE DEF e
  <1>10. client'[p] = d /\ client'[o] = client[o]
    BY <1>1, <1>2
  <1>11. handler' = handler /\ slot' = slot /\ session' = TRUE
    BY <1>3 DEF relayVars, Inv, TypeOK
  <1>12. link'[o][1] = link[o][1]
    BY <1>1, <1>9
  <1>13. /\ Anchor(client'[o], link'[o][1], handler'[o][1], slot'[o])
         /\ slot'[o].conn = 1
    BY <1>10, <1>11, <1>12, AnchorFacts
  <1>14. ASSUME carries(link'[o][1])
         PROVE  /\ \A k \in Links : Returning(link'[p][k], handler'[p][k])
                /\ client'[p].active # None =>
                      link'[p][client'[p].active].wired
                /\ client'[o].epoch + Count(link'[o][1].down) =
                      IF \E k \in Links : Owed(link'[p][k], handler'[p][k])
                      THEN client'[p].epoch + 1 ELSE client'[p].epoch
    <2>1. EpochOK(p, o)
      BY <1>12, <1>14 DEF EpochInv, p
    <2>2. \A k \in Links : Returning(link[p][k], handler[p][k])
      BY <2>1 DEF EpochOK
    <2>3. m \in Back /\ m \notin News
      BY DEF Back, News
    <2> HIDE DEF m
    <2>4. Has(l.down, Back)
      BY <1>3, <2>3, QueueTake
    <2>5. /\ carries(l) /\ Once(l.down, Back) /\ ~Has(l.down, News)
          /\ handler[p][n] \notin {"first", "announce", "confirm"}
      BY <2>2, <2>4 DEF Returning
    <2>6. ~Has(e.down, Back) /\ ~Has(e.down, News)
      BY <1>3, <1>4, <1>7, <2>3, <2>5, QueueTake
    <2>7. SomeOwed(p)
      BY <2>4 DEF SomeOwed, Owed
    <2>8. ~Owed(e, handler[p][n])
      BY <2>5, <2>6 DEF Owed
    <2>9. ASSUME NEW k \in Links, Owed(link'[p][k], handler'[p][k])
          PROVE  FALSE
      <3>1. CASE k = n
        BY <1>9, <1>11, <2>8, <2>9, <3>1
      <3>2. CASE k # n
        <4>1. Owed(link[p][k], handler[p][k])
          BY <1>1, <1>9, <1>11, <2>9, <3>2
        <4> QED
          BY <1>1, <2>2, <2>5, <3>2, <4>1, OwedAlone
      <3> QED
        BY <3>1, <3>2
    <2>10. client'[o].epoch + Count(link'[o][1].down) = client'[p].epoch
      <3>1. client[o].epoch + Count(downs(o)) = b.epoch + 1
        BY <2>1, <2>7 DEF EpochOK
      <3> QED
        BY <1>6, <1>10, <1>12, <3>1 DEF downs
    <2>11. ASSUME NEW k \in Links
           PROVE  Returning(link'[p][k], handler'[p][k])
      <3>1. CASE k = n
        <4>1. Returning(e, handler[p][n])
          BY <1>3, <1>4, <1>7, <2>5, <2>6 DEF Returning
        <4> QED
          BY <1>9, <1>11, <3>1, <4>1
      <3>2. CASE k # n
        BY <1>1, <1>9, <1>11, <2>2, <3>2
      <3> QED
        BY <3>1, <3>2
    <2>12. link'[p][client'[p].active].wired
      BY <1>6, <1>7, <1>9, <1>10
    <2> QED
      BY <2>9, <2>10, <2>11, <2>12
  <1> QED
    BY <1>11, <1>12, <1>13, <1>14, Balances DEF p

-----------------------------------------------------------------------------
(* The epochs stay equal                                                   *)

(* What the theorem is about: connections break on one side only, and only *)
(* once their client has been told that the relay accepted them.           *)
OneSideBreaks ==
    /\ "lateBreak" \notin Faults
    /\ ~({"host", "guest"} \subseteq Faults)

LEMMA InitEpoch ==
    ASSUME Init, NEW o \in Peers
    PROVE  EpochInv(o)
  <1> DEFINE p == other(o)
             f == [Unused EXCEPT !.state = "open", !.wired = TRUE]
  <1>1. p \in Peers /\ 1 \in Links
    BY TwoPeers, Bounds
  <1>2. \A S : ~Has(<<>>, S)
    BY EmptyQueue
  <1>3. /\ f.state = "open" /\ f.wired = TRUE /\ f.broken = FALSE
        /\ f.fin = FALSE /\ f.up = <<>> /\ f.down = <<>>
        /\ Unused.state = "none" /\ Unused.broken = FALSE
        /\ Unused.up = <<>> /\ Unused.down = <<>>
    BY DEF Unused
  <1> HIDE DEF f
  <1>4. \A q \in Peers, n \in Links :
           /\ link[q][n] = IF n = 1 THEN f ELSE Unused
           /\ handler[q][n] = IF n = 1 THEN "serving" ELSE "none"
    BY DEF Init, f
  <1>5. /\ \A q \in Peers : /\ client[q].last = 1 /\ client[q].epoch = 0
                            /\ client[q].active = 1
                            /\ slot[q].conn = 1 /\ slot[q].connected
        /\ session
    BY DEF Init
  <1>6. Anchor(client[o], link[o][1], handler[o][1], slot[o])
    BY <1>1, <1>2, <1>3, <1>4, <1>5 DEF Anchor
  <1>7. \A n \in Links : /\ Returning(link[p][n], handler[p][n])
                         /\ ~Owed(link[p][n], handler[p][n])
    BY <1>1, <1>2, <1>3, <1>4 DEF Returning, Owed
  <1>8. Count(downs(o)) = 0
    <2>1. <<>> \in Seq(Messages)
      OBVIOUS
    <2>2. downs(o) = <<>>
      BY <1>1, <1>3, <1>4 DEF downs
    <2>3. Count(<<>>) = 0
      BY <1>2, <2>1, CountNat
    <2> QED
      BY <2>2, <2>3
  <1> HIDE DEF p
  <1>9. EpochOK(p, o)
    BY <1>1, <1>3, <1>4, <1>5, <1>7, <1>8 DEF EpochOK, SomeOwed
  <1> QED
    BY <1>5, <1>6, <1>9 DEF EpochInv, p

LEMMA NextEpoch ==
    ASSUME Inv, NEW o \in Peers, o \notin Faults, "lateBreak" \notin Faults,
           EpochInv(o), [Next]_vars
    PROVE  EpochInv(o)'
  <1>1. CASE ~session
    BY <1>1, OverStep
  <1>2. CASE UNCHANGED vars
    BY <1>2 DEF vars, EpochInv, EpochOK, SomeOwed, downs
  <1>3. ASSUME session, NEW q \in Peers, Client(q) PROVE EpochInv(o)'
    <2>1. CASE DeriveToken(q)
      BY <1>3, <2>1, ClientIdle
    <2>2. CASE RetryTimer(q)
      BY <1>3, <2>2, SteadyTimer, ReturnTimer, TwoPeers
    <2>3. ASSUME NEW n \in Links,
                 \/ HearPeerDisconnected(q, n) \/ HearSwapRequest(q, n)
                 \/ HearSwapResponse(q, n)
          PROVE  EpochInv(o)'
      BY <1>3, <2>3, ClientIdle
    <2>4. ASSUME NEW n \in Links,
                 \/ Opens(q, n) \/ ConnectFails(q, n) \/ CloseEvent(q, n)
                 \/ HearReconnected(q, n) \/ HearError(q, n)
                 \/ HearUnwired(q, n) \/ HearSessionEnded(q, n)
                 \/ HearPeerReconnected(q, n)
          PROVE  EpochInv(o)'
      <3>1. CASE q = o
        BY <1>3, <2>4, <3>1, SteadyCannot, SteadyHears
      <3>2. CASE q = other(o)
        BY <1>3, <2>4, <3>2, ReturnOpens, ReturnCloses, ReturnHears,
           ReturnLeaves, ReturnHearsNone
      <3> QED
        BY <3>1, <3>2, TwoPeers
    <2> QED
      BY <1>3, <2>1, <2>2, <2>3, <2>4 DEF Client
  <1>4. ASSUME session, NEW q \in Peers, Disturb(q) PROVE EpochInv(o)'
    <2>1. CASE RequestSwap(q) \/ SwapTimeout(q)
      BY <1>4, <2>1, ClientIdle
    <2>2. CASE DisconnectSession(q)
      BY <1>4, <2>2, SteadyLeaves, ReturnLeaves, TwoPeers
    <2>3. ASSUME NEW n \in Links, Break(q, n) PROVE EpochInv(o)'
      BY <1>4, <2>3, SteadyCannot, ReturnBreaks, TwoPeers
    <2> QED
      BY <1>4, <2>1, <2>2, <2>3 DEF Disturb
  <1>5. ASSUME session, NEW q \in Peers, Relay(q) PROVE EpochInv(o)'
    <2>1. PICK n \in Links :
             \/ ReadReconnect(q, n) \/ Announce(q, n) \/ Confirm(q, n)
             \/ ReadToken(q, n) \/ ReadRelayed(q, n) \/ ReadEnd(q, n)
             \/ HandleDisconnect(q, n)
      BY <1>5 DEF Relay
    <2>2. CASE ReadToken(q, n) \/ ReadRelayed(q, n)
      BY <1>5, <2>2, RelayIdle
    <2>3. CASE ReadEnd(q, n)
      BY <1>5, <2>3, EndsAll
    <2>4. CASE \/ ReadReconnect(q, n) \/ Announce(q, n) \/ Confirm(q, n)
               \/ HandleDisconnect(q, n)
      <3>1. CASE q = o
        BY <1>5, <2>4, <3>1, SteadyCannot
      <3>2. CASE q = other(o)
        BY <1>5, <2>4, <3>2, ReturnReads, ReturnAnnounced, ReturnConfirms,
           ReturnGone
      <3> QED
        BY <3>1, <3>2, TwoPeers
    <2> QED
      BY <2>1, <2>2, <2>3, <2>4
  <1>6. CASE session /\ Reap
    BY <1>6, EndsAll
  <1> QED
    BY <1>1, <1>2, <1>3, <1>4, <1>5, <1>6 DEF Next

(* Both peers in touch: nothing is under way, and the books balance.       *)
LEMMA EpochMeets ==
    ASSUME Inv, NEW o \in Peers, EpochInv(o),
           \A p \in Peers : InTouch(p)
    PROVE  client[o].epoch = client[other(o)].epoch
  <1> DEFINE p == other(o)
             n == client[p].active
  <1>1. /\ p \in Peers /\ 1 \in Links
        /\ link[o][1] \in LinkRecord /\ client[o].epoch \in Nat
    <2>1. p \in Peers /\ 1 \in Links /\ client[o] \in ClientRecord
          /\ link[o][1] \in LinkRecord
      BY TwoPeers, Bounds, PeerTyped DEF Inv
    <2> QED
      BY <2>1 DEF ClientRecord
  <1>2. /\ carries(link[o][1]) /\ ~Has(downs(o), News)
    BY DEF InTouch, EpochInv, Under, Has, News, downs
  <1>3. Count(downs(o)) = 0
    <2>1. downs(o) \in Seq(Messages)
      BY <1>1 DEF downs, LinkRecord
    <2> QED
      BY <1>2, <2>1, CountNat
  <1>4. /\ InTouch(p) /\ n \in Links
    BY <1>1, PeerTyped DEF Inv, InTouch
  <1> HIDE DEF p
  <1>5. EpochOK(p, o)
    BY <1>2 DEF EpochInv, p
  <1>6. link[p][n].wired /\ carries(link[p][n]) /\ handler[p][n] = "serving"
    BY <1>4, <1>5 DEF EpochOK, InTouch
  <1>7. ~SomeOwed(p)
    <2> SUFFICES ASSUME NEW k \in Links, Owed(link[p][k], handler[p][k])
                 PROVE  FALSE
      BY DEF SomeOwed
    <2>1. \A j \in Links : Returning(link[p][j], handler[p][j])
      BY <1>5 DEF EpochOK
    <2>2. k = n
      BY <1>1, <1>4, <1>6, <2>1, OwedAlone
    <2>3. Has(link[p][n].down, Back)
      BY <1>6, <2>2 DEF Owed
    <2> QED
      BY <1>4, <1>6, <2>1, <2>3 DEF Returning
  <1> QED
    BY <1>1, <1>3, <1>5, <1>7 DEF EpochOK, p

(* "both peers derive it identically, having jointly observed the same     *)
(* sequence of reconnects" (DECISIONS.md): whatever the order in which     *)
(* Reconnect's two messages reach the two clients, however often one side  *)
(* reconnects and whenever either leaves, two peers that are in touch have *)
(* counted the same reconnects in finalizePaired's epoch.                  *)
THEOREM EpochsStayEqual ==
    ASSUME OneSideBreaks
    PROVE  Spec => []EpochsAgree
  <1>1. PICK o \in Peers : o \notin Faults
    BY DEF OneSideBreaks, Peers
  <1>2. "lateBreak" \notin Faults
    BY DEF OneSideBreaks
  <1> DEFINE J == Inv /\ EpochInv(o)
  <1>3. Init => J
    BY InitInv, InitEpoch
  <1>4. J /\ [Next]_vars => J'
    BY <1>1, <1>2, NextInv, NextEpoch
  <1>5. J => EpochsAgree
    <2> SUFFICES ASSUME J, \A p \in Peers : InTouch(p)
                 PROVE  client["host"].epoch = client["guest"].epoch
      BY DEF EpochsAgree
    <2>1. client[o].epoch = client[other(o)].epoch
      BY EpochMeets
    <2> QED
      BY <2>1 DEF Peers, other
  <1> QED
    BY <1>3, <1>4, <1>5, PTL DEF Spec

=============================================================================
