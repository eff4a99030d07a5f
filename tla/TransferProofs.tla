--------------------------- MODULE TransferProofs ----------------------------
(***************************************************************************)
(* Proofs about Transfer, for batches of any files, any chunk and window   *)
(* size and any limit: what is saved and reported as sent is whole, aborts *)
(* are honoured, the backlog is bounded and the limit enforced.            *)
(*                                                                         *)
(* What is under way is one stream: the chunk numbers of a file rise from  *)
(* the last ack its sender has heard, through the acks on their way back,  *)
(* the chunk the receiver is busy with and the chunks still to arrive, up  *)
(* to the chunk its sender reads next.                                     *)
(***************************************************************************)
EXTENDS Transfer, FiniteSetTheorems, TLAPS

Elems(q) == {q[j] : j \in 1..Len(q)}

(* What the sender has sent and the receiver has not taken up; the relay's *)
(* own messages are not part of it.                                        *)
Sent == {m \in Elems(up) \cup Elems(down) : ~m.limit}

Answers == Elems(back) \cup Elems(home)

Begun(f) == snd[f].pc \notin {"queued", "meta"}

Busy == rcv.pc \in {"decrypt", "write"}

first(n) == [i \in 1..n |-> i - 1]

(* Who sends which messages.                                               *)
WellFormed ==
    /\ \A m \in Elems(up) \cup Elems(down) :
          m.type \in {"file_meta", "chunk", "file_abort"} /\ m.file \in Files
    /\ \A m \in Elems(up) : ~m.limit
    /\ \A m \in Elems(down) : m.limit => m.type = "file_abort"
    /\ \A m \in Answers :
          /\ m.type \in {"chunk_ack", "file_abort"} /\ m.file \in Files
          /\ Begun(m.file)
    /\ relay.abort # NoFile => Begun(relay.abort)

(* sendFiles sends one file after the other.                               *)
InTurn ==
    \A f, g \in Files :
       g < f /\ snd[f].pc # "queued" => snd[g].pc \in Settled

(* The sender is past everything it has sent.                              *)
SenderAhead ==
    \A m \in Sent :
       /\ Begun(m.file)
       /\ m.type = "chunk" => m.index < snd[m.file].index
       /\ snd[m.file].pc \in Listening => m.type # "file_abort"

(* The order in which sendFile sends a and b.                              *)
Before(a, b) ==
    \/ a.file < b.file
    \/ /\ a.file = b.file /\ a.type # "file_abort" /\ b.type # "file_meta"
       /\ a.type = "chunk" /\ b.type = "chunk" => a.index < b.index

Ordered(q) ==
    \A i, j \in 1..Len(q) :
       i < j /\ ~q[i].limit /\ ~q[j].limit => Before(q[i], q[j])

InOrder ==
    /\ Ordered(up) /\ Ordered(down)
    /\ \A i \in 1..Len(down), j \in 1..Len(up) :
          ~down[i].limit => Before(down[i], up[j])
    /\ rcv.pc # "idle" => \A m \in Sent : Before(rcv.msg, m)

-----------------------------------------------------------------------------
(* The receiver *)

(* Its chain is busy with one message, of the current file if there is one.*)
ChainStep ==
    /\ rcv.pc # "idle" =>
          /\ rcv.msg.file \in Files /\ Begun(rcv.msg.file)
          /\ rcv.current \in {NoFile, rcv.msg.file}
    /\ rcv.pc = "sink" =>
          /\ rcv.msg.type = "file_meta"
          /\ rows[rcv.msg.file] = [state |-> "none", written |-> <<>>]
          /\ rcv.current # NoFile => rcv.expected = 0
    /\ Busy =>
          /\ rcv.msg.type = "chunk"
          /\ rcv.msg.index < snd[rcv.msg.file].index
          /\ rcv.current # NoFile =>
                /\ rcv.msg.index = rcv.expected
                /\ rows[rcv.msg.file].state = "open"

(* The chunk that is expected will not come any more.                      *)
Missed(f) ==
    /\ \A m \in Sent : m.type = "chunk" /\ m.file = f => m.index # rcv.expected
    /\ snd[f].index > rcv.expected \/ snd[f].pc \in Settled

(* The current file: its row has every chunk before the expected one, or   *)
(* has failed for good.                                                    *)
Current ==
    rcv.current # NoFile =>
       /\ Begun(rcv.current)
       /\ snd[rcv.current].index >= rcv.expected
       /\ \A m \in Sent :
             /\ m.file >= rcv.current
             /\ m.file = rcv.current /\ m.type = "chunk" =>
                   m.index >= rcv.expected
       /\ rcv.pc # "sink" =>
             \/ /\ rows[rcv.current].state = "open"
                /\ Len(rows[rcv.current].written) = rcv.expected
             \/ /\ rows[rcv.current].state = "error" /\ rcv.pc = "idle"
                /\ Missed(rcv.current)

(* A file whose metadata has not arrived is unknown to the receiver.       *)
Unknown(f) ==
    /\ rows[f] = [state |-> "none", written |-> <<>>]
    /\ rcv.current # f
    /\ rcv.pc # "idle" => rcv.msg.file # f

Announced ==
    /\ \A f \in Files : ~Begun(f) => Unknown(f)
    /\ \A m \in Sent : m.type = "file_meta" => Unknown(m.file)

(* Chunks are written in order.                                            *)
WrittenInOrder ==
    \A f \in Files :
       /\ rows[f].written = first(Len(rows[f].written))
       /\ Len(rows[f].written) <= totalChunks(f)

-----------------------------------------------------------------------------
(* Acks *)

isAbort(m, f) == m.type = "file_abort" /\ m.file = f

AbortIn(q, n, f) == \E i \in 1..n : isAbort(q[i], f)

(* The sender has heard of an abort, or is done anyway.                    *)
Told(f) == snd[f].aborted # "no" \/ snd[f].pc \in Settled

(* An ack is of a chunk that has been written, or comes after an abort.    *)
AckOfWrite ==
    /\ ~sndOpen => home = <<>>
    /\ \A j \in 1..Len(home) : home[j].type = "chunk_ack" =>
          \/ home[j].index < Len(rows[home[j].file].written)
          \/ Told(home[j].file)
          \/ AbortIn(home, j - 1, home[j].file)
    /\ sndOpen => \A j \in 1..Len(back) : back[j].type = "chunk_ack" =>
          \/ back[j].index < Len(rows[back[j].file].written)
          \/ Told(back[j].file)
          \/ AbortIn(back, j - 1, back[j].file)
          \/ AbortIn(home, Len(home), back[j].file)
    /\ sndOpen /\ rcvOpen /\ Busy /\ rcv.current = NoFile =>
          \/ Told(rcv.msg.file)
          \/ AbortIn(back, Len(back), rcv.msg.file)
          \/ AbortIn(home, Len(home), rcv.msg.file)
    /\ \A f \in Files :
          /\ snd[f].aborted = "no" => snd[f].acked < Len(rows[f].written)
          /\ snd[f].pc = "sent" =>
                snd[f].aborted = "no" /\ snd[f].acked >= totalChunks(f) - 1

-----------------------------------------------------------------------------
(* The window *)

Rising(a, b) ==
    a.type = "chunk_ack" /\ b.type = "chunk_ack" /\ a.file = b.file
       => a.index < b.index

(* Acks come back in order, ahead of the chunks still to be acknowledged.  *)
AcksRise ==
    /\ \A i, j \in 1..Len(home) : i < j => Rising(home[i], home[j])
    /\ \A i, j \in 1..Len(back) : i < j => Rising(back[i], back[j])
    /\ \A i \in 1..Len(home), j \in 1..Len(back) : Rising(home[i], back[j])
    /\ \A a \in Answers : a.type = "chunk_ack" =>
          /\ a.index > snd[a.file].acked
          /\ a.index < snd[a.file].index
          /\ \A m \in Sent :
                m.type = "chunk" /\ m.file = a.file => a.index < m.index
          /\ Busy /\ rcv.msg.file = a.file => a.index < rcv.msg.index
    /\ \A m \in Sent : m.type = "chunk" => m.index > snd[m.file].acked
    /\ Busy => rcv.msg.index > snd[rcv.msg.file].acked

Window ==
    \A f \in Files :
       /\ ~Begun(f) => snd[f].index = 0
       /\ snd[f].acked < snd[f].index
       /\ snd[f].index - 1 - snd[f].acked <= WINDOW_SIZE
       /\ snd[f].pc = "reading" =>
             /\ snd[f].index - 1 - snd[f].acked < WINDOW_SIZE
             /\ snd[f].index < totalChunks(f)

-----------------------------------------------------------------------------
(* The limit *)

(* The relay has counted the chunks of f before the i-th, or does not need *)
(* to any more.                                                            *)
CountedTo(f, i) ==
    \/ i = 0 /\ relay.file # f
    \/ relay.file = f /\ (relay.blocked \/ relay.bytes = frameBytes(f, i))

isChunk(m, f, i) == m.type = "chunk" /\ m.file = f /\ m.index = i

(* Among the first n messages of up is the chunk before the i-th of f, or  *)
(* none of f and the relay has counted that far.                           *)
Continues(n, f, i) ==
    \/ \E k \in 1..n : isChunk(up[k], f, i - 1)
    \/ /\ CountedTo(f, i)
       /\ \A k \in 1..n : ~(up[k].type = "chunk" /\ up[k].file = f)

Counting ==
    /\ relay.file = NoFile => relay.bytes = 0 /\ ~relay.blocked
    /\ ~relay.blocked => relay.bytes <= MaxFileSize
    /\ relay.file # NoFile =>
          Begun(relay.file) /\ \A m \in Elems(up) : m.file >= relay.file
    /\ \A j \in 1..Len(up) : up[j].type = "chunk" =>
          Continues(j - 1, up[j].file, up[j].index)
    /\ sndOpen => \A f \in Files : snd[f].pc \in Listening =>
          snd[f].index = totalChunks(f) \/ Continues(Len(up), f, snd[f].index)

WithinLimit ==
    /\ LimitEnforced
    /\ Busy => frameBytes(rcv.msg.file, rcv.msg.index) <= MaxFileSize

(* The inductive invariant.                                                *)
IInv ==
    /\ TypeOK /\ WellFormed /\ InTurn /\ SenderAhead /\ InOrder
    /\ ChainStep /\ Current /\ Announced /\ WrittenInOrder /\ SavedWhole
    /\ AckOfWrite /\ AcksRise /\ Window
    /\ Counting /\ WithinLimit
-----------------------------------------------------------------------------
(* Files and queues *)

LEMMA ChunkCount ==
    ASSUME NEW f \in Files
    PROVE  totalChunks(f) \in Nat
  <1>1. size[f] \in Nat /\ CHUNK_SIZE \in Nat \ {0}
    BY TransferAssumption DEF TransferAssumption
  <1>2. CASE size[f] = 0
    BY <1>2 DEF totalChunks
  <1>3. CASE size[f] # 0
    <2>1. size[f] + CHUNK_SIZE - 1 \in Nat
      BY <1>1
    <2>2. \A a \in Nat, b \in Nat \ {0} : a \div b \in Nat
      OBVIOUS
    <2> QED
      BY <1>1, <1>3, <2>1, <2>2 DEF totalChunks
  <1> QED
    BY <1>2, <1>3

LEMMA FrameCount ==
    ASSUME NEW f \in Files, NEW n \in Nat
    PROVE  frameBytes(f, n) \in Nat /\ frameBytes(f, 0) = 0
  <1>1. size[f] \in Nat /\ CHUNK_SIZE \in Nat /\ FrameOverhead \in Nat
    BY TransferAssumption DEF TransferAssumption
  <1>2. \A a, b \in Nat : a * b \in Nat
    OBVIOUS
  <1>3. \A i \in Nat : chunkEnd(f, i) \in Nat
    BY <1>1, <1>2 DEF chunkEnd
  <1>4. n # 0 => n - 1 \in Nat
    OBVIOUS
  <1>5. frameBytes(f, n) \in Nat
    BY <1>1, <1>2, <1>3, <1>4 DEF frameBytes
  <1>6. frameBytes(f, 0) = 0
    BY <1>1 DEF frameBytes
  <1> QED
    BY <1>5, <1>6

LEMMA Appended ==
    ASSUME NEW X, NEW q \in Seq(X), NEW m \in X
    PROVE  LET Q == Append(q, m) IN
           /\ Q \in Seq(X) /\ Len(Q) = Len(q) + 1 /\ Q[Len(q) + 1] = m
           /\ \A i \in 1..Len(q) : Q[i] = q[i]
           /\ \A i \in 1..Len(Q) : i \in 1..Len(q) \/ i = Len(q) + 1
           /\ Elems(Q) = Elems(q) \cup {m}
  <1> DEFINE Q == Append(q, m)
  <1>1. /\ Q \in Seq(X) /\ Len(Q) = Len(q) + 1 /\ Q[Len(q) + 1] = m
        /\ \A i \in 1..Len(q) : Q[i] = q[i]
        /\ \A i \in 1..Len(Q) : i \in 1..Len(q) \/ i = Len(q) + 1
        /\ Len(q) \in Nat
    OBVIOUS
  <1> HIDE DEF Q
  <1>2. \A i \in 1..Len(q) : i \in 1..Len(Q)
    BY <1>1
  <1>3. Len(q) + 1 \in 1..Len(Q)
    BY <1>1
  <1>4. Elems(Q) = Elems(q) \cup {m}
    BY <1>1, <1>2, <1>3 DEF Elems
  <1> QED
    BY <1>1, <1>4 DEF Q

LEMMA Taken ==
    ASSUME NEW X, NEW q \in Seq(X), q # <<>>
    PROVE  /\ Len(q) \in Nat /\ 1 \in 1..Len(q) /\ Head(q) = q[1]
           /\ Head(q) \in Elems(q) /\ Head(q) \in X
           /\ Tail(q) \in Seq(X) /\ Len(Tail(q)) = Len(q) - 1
           /\ \A i \in 1..Len(Tail(q)) : i + 1 \in 1..Len(q)
                                         /\ Tail(q)[i] = q[i + 1]
           /\ \A i \in 1..Len(q) : i = 1 \/ i - 1 \in 1..Len(Tail(q))
           /\ Elems(Tail(q)) \subseteq Elems(q)
  <1>1. /\ Len(q) \in Nat /\ 1 \in 1..Len(q) /\ Head(q) = q[1]
        /\ Tail(q) \in Seq(X) /\ Len(Tail(q)) = Len(q) - 1
        /\ \A i \in 1..Len(Tail(q)) : i + 1 \in 1..Len(q)
                                      /\ Tail(q)[i] = q[i + 1]
    OBVIOUS
  <1>2. \A i \in 1..Len(q) : i = 1 \/ i - 1 \in 1..Len(Tail(q))
    BY <1>1
  <1>3. Head(q) \in Elems(q) /\ Head(q) \in X
    BY <1>1 DEF Elems
  <1>4. Elems(Tail(q)) \subseteq Elems(q)
    BY <1>1 DEF Elems
  <1> QED
    BY <1>1, <1>2, <1>3, <1>4

LEMMA CutOff ==
    ASSUME NEW X, NEW q \in Seq(X), NEW c \in cut(q)
    PROVE  /\ c \in Seq(X) /\ Len(c) \in 0..Len(q) /\ Len(q) \in Nat
           /\ \A i \in 1..Len(c) : i \in 1..Len(q) /\ c[i] = q[i]
           /\ Elems(c) \subseteq Elems(q)
  <1>1. PICK n \in 0..Len(q) : c = SubSeq(q, 1, n)
    BY DEF cut
  <1>2. /\ c \in Seq(X) /\ Len(c) = n /\ Len(q) \in Nat
        /\ \A i \in 1..Len(c) : i \in 1..Len(q) /\ c[i] = q[i]
    BY <1>1
  <1>3. Elems(c) \subseteq Elems(q)
    BY <1>2 DEF Elems
  <1> QED
    BY <1>2, <1>3

LEMMA QueuesTyped ==
    ASSUME TypeOK
    PROVE  \A m \in Elems(up) \cup Elems(down) \cup Answers :
              m \in Messages /\ m.index \in Nat
  <1>1. \A q \in Seq(Messages) : Elems(q) \subseteq Messages
    BY DEF Elems
  <1>2. \A m \in Messages : m.index \in Nat
    BY DEF Messages
  <1>3. /\ up \in Seq(Messages) /\ down \in Seq(Messages)
        /\ back \in Seq(Messages) /\ home \in Seq(Messages)
    BY DEF TypeOK
  <1> QED
    BY <1>1, <1>2, <1>3 DEF Answers

LEMMA OneRecord ==
    ASSUME NEW X, NEW D, NEW r \in [D -> X], NEW f \in D, NEW e \in X
    PROVE  LET R == [r EXCEPT ![f] = e] IN
           /\ R \in [D -> X] /\ R[f] = e
           /\ \A g \in D : g # f => R[g] = r[g]
  OBVIOUS

-----------------------------------------------------------------------------
(* sendFile's loop *)

LEMMA SendTyped ==
    ASSUME TypeOK, NEW f \in Files
    PROVE  /\ snd[f] \in SendRecord /\ snd \in [Files -> SendRecord]
           /\ snd[f].index \in Nat /\ snd[f].acked \in Int
           /\ snd[f].acked >= -1 /\ snd[f].index <= totalChunks(f)
           /\ totalChunks(f) \in Nat
           /\ WINDOW_SIZE \in Nat \ {0}
  <1>1. snd[f] \in SendRecord /\ snd \in [Files -> SendRecord]
        /\ snd[f].index <= totalChunks(f)
    BY DEF TypeOK
  <1>2. snd[f].index \in Nat /\ snd[f].acked \in Nat \cup {-1}
    BY <1>1 DEF SendRecord
  <1> QED
    BY <1>1, <1>2, ChunkCount, TransferAssumption DEF TransferAssumption

(* r differs from s in where it stands at most.                            *)
SameData(r, s) ==
    /\ r.index = s.index /\ r.acked = s.acked /\ r.aborted = s.aborted

(* Where sendFile may stand with its variables as they are.                *)
Justified(f, r) ==
    /\ r.pc = "reading" =>
          r.index < totalChunks(f) /\ r.index - 1 - r.acked < WINDOW_SIZE
    /\ r.pc = "sent" => r.aborted = "no" /\ r.acked >= totalChunks(f) - 1

LEMMA RunsOn ==
    ASSUME NEW f \in Files, NEW s \in SendRecord, NEW r, r = runOn(f, s)
    PROVE  /\ r \in SendRecord /\ SameData(r, s) /\ Justified(f, r)
           /\ r.pc \in {"window", "reading", "final", "sent", "canceled"}
  <1>1. s.index \in Nat /\ s.acked \in Int /\ WINDOW_SIZE \in Nat
        /\ totalChunks(f) \in Nat
    BY ChunkCount, TransferAssumption DEF SendRecord, TransferAssumption
  <1> DEFINE p == CASE s.index < totalChunks(f) /\ windowFull(s)    -> "window"
                    [] s.index < totalChunks(f) /\ ~windowFull(s)
                       /\ s.aborted = "no"                          -> "reading"
                    [] s.index = totalChunks(f) /\ s.aborted = "no"
                       /\ s.acked < totalChunks(f) - 1              -> "final"
                    [] s.index = totalChunks(f) /\ s.aborted = "no"
                       /\ s.acked >= totalChunks(f) - 1             -> "sent"
                    [] OTHER                                        -> "canceled"
  <1>2. /\ p \in {"window", "reading", "final", "sent", "canceled"}
        /\ p = "reading" => s.index < totalChunks(f) /\ ~windowFull(s)
        /\ p = "sent" => s.aborted = "no" /\ s.acked >= totalChunks(f) - 1
    OBVIOUS
  <1>3. r = [s EXCEPT !.pc = p]
    BY DEF runOn
  <1> HIDE DEF p
  <1>4. r \in SendRecord /\ r.pc = p /\ SameData(r, s)
    BY <1>2, <1>3 DEF SendRecord, SameData, Listening, Waiting, Settled
  <1>5. ~windowFull(s) => s.index - 1 - s.acked < WINDOW_SIZE
    BY <1>1 DEF windowFull
  <1> QED
    BY <1>2, <1>4, <1>5 DEF Justified, SameData

LEMMA Wakes ==
    ASSUME NEW f \in Files, NEW s \in SendRecord, s.pc \in Listening,
           s.pc = "reading" => Justified(f, s),
           NEW r, r = wake(f, s)
    PROVE  /\ r \in SendRecord /\ SameData(r, s) /\ Justified(f, r)
           /\ r.pc \in Listening \cup Settled
  <1>1. CASE s.pc \notin Waiting
    BY <1>1 DEF wake, SameData, Listening, Waiting, Justified
  <1>2. CASE s.pc \in Waiting
    <2>1. CASE s.lost \/ s.aborted # "no"
      <3>1. PICK p \in {"error", "canceled"} : r = [s EXCEPT !.pc = p]
        BY <1>2, <2>1 DEF wake
      <3> QED
        BY <3>1 DEF SendRecord, SameData, Justified, Settled
    <2>2. CASE ~(s.lost \/ s.aborted # "no")
      <3>1. r = runOn(f, s)
        BY <1>2, <2>2 DEF wake
      <3> QED
        BY <3>1, RunsOn DEF Listening, Waiting, Settled
    <2> QED
      BY <2>1, <2>2
  <1> QED
    BY <1>1, <1>2

-----------------------------------------------------------------------------
(* A step of sendFile *)

(* What the send of f may append while its variables become s.             *)
NewMessage(f, s, m) ==
    /\ m \in Messages /\ m.file = f /\ ~m.limit /\ sndOpen
    /\ \/ m.type = "file_meta" /\ snd[f].pc = "meta"
       \/ /\ m.type = "chunk" /\ snd[f].pc = "reading"
          /\ m.index = snd[f].index /\ s.index = snd[f].index + 1
       \/ /\ m.type = "file_abort" /\ s.pc \in Settled
          /\ snd[f].pc \in Listening

SendStep(f, s) ==
    /\ snd[f].pc \in {"meta"} \cup Listening
    /\ s \in SendRecord /\ s.pc \in Listening \cup Settled /\ Justified(f, s)
    /\ \/ s.index = snd[f].index
       \/ /\ s.index = snd[f].index + 1 /\ snd[f].pc = "reading"
          /\ s.acked = snd[f].acked
          /\ sndOpen =>
                \E i \in 1..Len(up') : isChunk(up'[i], f, snd[f].index)
    /\ snd[f].aborted # "no" => s.aborted # "no"
    /\ snd' = [snd EXCEPT ![f] = s]
    /\ up' \in Seq(Messages) /\ Len(up) <= Len(up')
    /\ \A i \in 1..Len(up) : up'[i] = up[i]
    /\ \A i \in (Len(up) + 1)..Len(up') :
          /\ NewMessage(f, s, up'[i])
          /\ \A j \in (i + 1)..Len(up') :
                up'[i].type = "chunk" /\ up'[j].type = "file_abort"
    /\ \/ home' = home /\ s.acked = snd[f].acked
       \/ /\ home # <<>> /\ home' = Tail(home) /\ Head(home).file = f
          /\ snd[f].pc \in Listening /\ s.index = snd[f].index
          /\ Head(home).type = "chunk_ack" => s.acked = Head(home).index
          /\ Head(home).type = "file_abort" =>
                s.aborted # "no" /\ s.acked = snd[f].acked
    /\ detached' = detached
    /\ UNCHANGED <<down, back, relay, rcv, rows, sndOpen, rcvOpen>>

(* The facts every part of the proof uses.                                 *)
LEMMA SendFacts ==
    ASSUME IInv, NEW f \in Files, NEW s, SendStep(f, s)
    PROVE  /\ snd' \in [Files -> SendRecord] /\ snd'[f] = s
           /\ \A g \in Files : g # f => snd'[g] = snd[g]
           /\ s.index \in Nat /\ s.acked \in Int /\ s.index <= totalChunks(f)
           /\ s.acked >= -1
           /\ \A g \in Files : g > f => snd[g].pc = "queued"
           /\ \A m \in Sent' : m \in Sent \/ NewMessage(f, s, m)
           /\ \A m \in Elems(up') : m \in Elems(up) \/ NewMessage(f, s, m)
           /\ \A m \in Sent : m.file \in Files /\ m.file <= f
           /\ Answers' \subseteq Answers /\ Elems(home') \subseteq Elems(home)
           /\ home' \in Seq(Messages)
           /\ \A g \in Files : Begun(g) => snd'[g].pc \notin {"queued", "meta"}
           /\ s.pc \notin {"queued", "meta"}
           /\ Files \subseteq Nat
  <1> USE DEF IInv
  <1>1. /\ snd' \in [Files -> SendRecord] /\ snd'[f] = s
        /\ \A g \in Files : g # f => snd'[g] = snd[g]
    BY SendTyped DEF SendStep
  <1>2. /\ s.index \in Nat /\ s.acked \in Int /\ s.acked >= -1
    <2>1. s.index \in Nat /\ s.acked \in Nat \cup {-1}
      BY DEF SendStep, SendRecord
    <2> QED
      BY <2>1
  <1>3. s.index <= totalChunks(f)
    <2>1. CASE s.index = snd[f].index
      BY <2>1, SendTyped
    <2>2. CASE s.index = snd[f].index + 1 /\ snd[f].pc = "reading"
      BY <2>2, SendTyped DEF Window
    <2> QED
      BY <2>1, <2>2 DEF SendStep
  <1>4. Files \subseteq Nat
    BY TransferAssumption DEF TransferAssumption, Files
  <1>5. \A g \in Files : g > f => snd[g].pc = "queued"
    BY <1>4 DEF InTurn, SendStep, Listening, Waiting, Settled
  <1>6. \A m \in Elems(up') : m \in Elems(up) \/ NewMessage(f, s, m)
    <2> SUFFICES ASSUME NEW i \in 1..Len(up')
                 PROVE  up'[i] \in Elems(up) \/ NewMessage(f, s, up'[i])
      BY DEF Elems
    <2>1. Len(up) \in Nat /\ Len(up') \in Nat
      BY DEF TypeOK, SendStep
    <2>2. i \in 1..Len(up) \/ i \in (Len(up) + 1)..Len(up')
      BY <2>1
    <2> QED
      BY <2>2 DEF SendStep, Elems
  <1>7. \A m \in Sent' : m \in Sent \/ NewMessage(f, s, m)
    BY <1>6 DEF Sent, SendStep
  <1>8. \A m \in Sent : m.file \in Files /\ m.file <= f
    <2>1. \A m \in Sent : m.file \in Files
      BY DEF WellFormed, Sent
    <2>2. \A m \in Sent : Begun(m.file)
      BY DEF SenderAhead
    <2>3. ASSUME NEW m \in Sent PROVE m.file <= f
      <3>1. m.file \in Nat /\ f \in Nat /\ ~(m.file > f)
        BY <1>4, <1>5, <2>1, <2>2 DEF Begun
      <3> QED
        BY <3>1
    <2> QED
      BY <2>1, <2>3
  <1>9. Elems(home') \subseteq Elems(home) /\ home' \in Seq(Messages)
    <2>1. home \in Seq(Messages)
      BY DEF TypeOK
    <2>2. home' = home \/ (home # <<>> /\ home' = Tail(home))
      BY DEF SendStep
    <2> QED
      BY <2>1, <2>2, Taken
  <1>10. Answers' \subseteq Answers
    BY <1>9 DEF Answers, SendStep
  <1>11. s.pc \notin {"queued", "meta"}
    BY DEF SendStep, Listening, Waiting, Settled
  <1>12. \A g \in Files : Begun(g) => snd'[g].pc \notin {"queued", "meta"}
    BY <1>1, <1>11 DEF Begun
  <1> QED
    BY <1>1, <1>2, <1>3, <1>4, <1>5, <1>6, <1>7, <1>8, <1>9, <1>10, <1>11, <1>12

LEMMA SendOrder ==
    ASSUME IInv, NEW f \in Files, NEW s, SendStep(f, s)
    PROVE  WellFormed' /\ InTurn' /\ SenderAhead' /\ InOrder'
  <1> USE DEF IInv
  <1>0. /\ snd' \in [Files -> SendRecord] /\ snd'[f] = s
        /\ \A g \in Files : g # f => snd'[g] = snd[g]
        /\ \A g \in Files : Begun(g) => snd'[g].pc \notin {"queued", "meta"}
        /\ s.pc \notin {"queued", "meta"} /\ Files \subseteq Nat
    BY SendFacts
  <1>1. /\ \A m \in Sent' : m \in Sent \/ NewMessage(f, s, m)
        /\ \A m \in Elems(up') : m \in Elems(up) \/ NewMessage(f, s, m)
        /\ \A m \in Sent : m.file \in Files /\ m.file <= f
    BY SendFacts
  <1>2. UNCHANGED <<down, relay, rcv>>
    BY DEF SendStep
  <1>3. WellFormed'
    <2>1. \A m \in Elems(up') \cup Elems(down') :
             m.type \in {"file_meta", "chunk", "file_abort"} /\ m.file \in Files
      BY <1>1, <1>2 DEF WellFormed, NewMessage
    <2>2. \A m \in Elems(up') : ~m.limit
      BY <1>1 DEF WellFormed, NewMessage
    <2>3. \A m \in Elems(down') : m.limit => m.type = "file_abort"
      BY <1>2 DEF WellFormed
    <2>4. \A m \in Answers' :
             /\ m.type \in {"chunk_ack", "file_abort"} /\ m.file \in Files
             /\ Begun(m.file)
      BY SendFacts DEF WellFormed
    <2>5. \A m \in Answers' : snd'[m.file].pc \notin {"queued", "meta"}
      BY <1>0, <2>4
    <2>6. relay.abort # NoFile => snd'[relay.abort].pc \notin {"queued", "meta"}
      <3>1. relay.abort \in Files \cup {NoFile}
        BY DEF TypeOK, RelayRecord
      <3> QED
        BY <1>0, <3>1 DEF WellFormed
    <2> QED
      BY <1>2, <2>1, <2>2, <2>3, <2>4, <2>5, <2>6 DEF WellFormed, Begun
  <1>4. InTurn'
    <2>1. \A g \in Files : g > f => snd[g].pc = "queued"
      BY SendFacts
    <2> SUFFICES ASSUME NEW h \in Files, NEW g \in Files, g < h,
                        snd'[h].pc # "queued"
                 PROVE  snd'[g].pc \in Settled
      BY DEF InTurn
    <2>2. CASE g = f
      BY <1>0, <2>1, <2>2
    <2>3. CASE g # f
      BY <1>0, <2>3 DEF InTurn, SendStep, Listening, Waiting
    <2> QED
      BY <2>2, <2>3
  <1>5. SenderAhead'
    <2> SUFFICES ASSUME NEW m \in Sent'
                 PROVE  /\ snd'[m.file].pc \notin {"queued", "meta"}
                        /\ m.type = "chunk" => m.index < snd'[m.file].index
                        /\ snd'[m.file].pc \in Listening => m.type # "file_abort"
      BY DEF SenderAhead, Begun
    <2>1. CASE m \in Sent
      <3>1. /\ m.file \in Files /\ Begun(m.file)
            /\ m.type = "chunk" => m.index < snd[m.file].index
            /\ snd[m.file].pc \in Listening => m.type # "file_abort"
        BY <1>1, <2>1 DEF SenderAhead
      <3>2. CASE m.file # f
        BY <1>0, <3>1, <3>2
      <3>3. CASE m.file = f
        <4>1. snd[f].pc \in Listening
          BY <3>1, <3>3 DEF SendStep, Begun
        <4>2. m.type = "chunk" => m.index < s.index
          <5>1. m.index \in Int
            BY <2>1, QueuesTyped DEF Sent
          <5>2. s.index = snd[f].index \/ s.index = snd[f].index + 1
            BY DEF SendStep
          <5> QED
            BY <3>1, <3>3, <5>1, <5>2, SendTyped
        <4> QED
          BY <1>0, <3>1, <3>3, <4>1, <4>2
      <3> QED
        BY <3>2, <3>3
    <2>2. CASE NewMessage(f, s, m)
      <3>1. snd[f].index \in Nat
        BY SendTyped
      <3>2. "file_abort" # "chunk" /\ Listening \cap Settled = {}
        BY DEF Listening, Waiting, Settled
      <3> QED
        BY <1>0, <2>2, <3>1, <3>2 DEF NewMessage
    <2> QED
      BY <1>1, <2>1, <2>2
  <1>6. InOrder'
    <2>1. ASSUME NEW m \in Sent, NEW n, NewMessage(f, s, n)
          PROVE  Before(m, n)
      <3>1. m.file \in Files /\ m.file <= f /\ n.file = f /\ f \in Nat
            /\ m.file \in Nat
        BY <1>0, <1>1, <2>1 DEF NewMessage
      <3>2. CASE m.file < f
        BY <3>1, <3>2 DEF Before
      <3>3. CASE m.file = f
        <4>1. /\ Begun(f) /\ (snd[f].pc \in Listening => m.type # "file_abort")
              /\ m.type = "chunk" => m.index < snd[f].index
          BY <2>1, <3>3 DEF SenderAhead
        <4>2. snd[f].pc \in Listening /\ snd[f].pc # "meta"
          BY <4>1 DEF SendStep, Begun
        <4> QED
          BY <2>1, <3>1, <3>3, <4>1, <4>2 DEF Before, NewMessage
      <3> QED
        BY <3>1, <3>2, <3>3
    <2>2. /\ up \in Seq(Messages) /\ up' \in Seq(Messages)
          /\ Len(up) \in Nat /\ Len(up') \in Nat
          /\ \A i \in 1..Len(up) : up'[i] = up[i] /\ up[i] \in Sent
          /\ \A i \in 1..Len(up') : i \in 1..Len(up) \/ i \in (Len(up) + 1)..Len(up')
          /\ \A i \in (Len(up) + 1)..Len(up') : NewMessage(f, s, up'[i])
      <3>1. up \in Seq(Messages) /\ up' \in Seq(Messages)
        BY DEF TypeOK, SendStep
      <3>2. Len(up) \in Nat /\ Len(up') \in Nat
        BY <3>1
      <3>3. \A i \in 1..Len(up) : up'[i] = up[i] /\ up[i] \in Sent
        BY DEF SendStep, Sent, Elems, WellFormed
      <3>4. \A i \in (Len(up) + 1)..Len(up') : NewMessage(f, s, up'[i])
        BY DEF SendStep
      <3>5. \A i \in 1..Len(up') : i \in 1..Len(up) \/ i \in (Len(up) + 1)..Len(up')
        BY <3>2
      <3> QED
        BY <3>1, <3>2, <3>3, <3>4, <3>5
    <2>3. Ordered(up')
      <3> SUFFICES ASSUME NEW i \in 1..Len(up'), NEW j \in 1..Len(up'), i < j
                   PROVE  Before(up'[i], up'[j])
        BY DEF Ordered
      <3>1. CASE j \in 1..Len(up)
        <4>1. i \in 1..Len(up)
          BY <2>2, <3>1
        <4>2. ~up[i].limit /\ ~up[j].limit
          BY <3>1, <4>1 DEF WellFormed, Elems
        <4> QED
          BY <2>2, <3>1, <4>1, <4>2 DEF InOrder, Ordered
      <3>2. CASE i \in 1..Len(up) /\ j \in (Len(up) + 1)..Len(up')
        BY <2>1, <2>2, <3>2
      <3>3. CASE i \in (Len(up) + 1)..Len(up') /\ j \in (Len(up) + 1)..Len(up')
        <4>1. j \in (i + 1)..Len(up')
          BY <2>2, <3>3
        <4>2. up'[i].type = "chunk" /\ up'[j].type = "file_abort"
          BY <3>3, <4>1 DEF SendStep
        <4> QED
          BY <2>2, <3>3, <4>2 DEF Before, NewMessage
      <3> QED
        BY <2>2, <3>1, <3>2, <3>3
    <2>4. Ordered(down')
      BY <1>2 DEF InOrder, Ordered
    <2>5. \A i \in 1..Len(down'), j \in 1..Len(up') :
             ~down'[i].limit => Before(down'[i], up'[j])
      <3> SUFFICES ASSUME NEW i \in 1..Len(down), NEW j \in 1..Len(up'),
                          ~down[i].limit
                   PROVE  Before(down[i], up'[j])
        BY <1>2
      <3>1. down[i] \in Sent
        BY DEF Sent, Elems
      <3> QED
        BY <2>1, <2>2, <3>1 DEF InOrder
    <2>6. rcv.pc # "idle" => \A m \in Sent' : Before(rcv.msg, m)
      <3> SUFFICES ASSUME rcv.pc # "idle", NEW m, NewMessage(f, s, m)
                   PROVE  Before(rcv.msg, m)
        BY <1>1 DEF InOrder
      <3>1. /\ rcv.msg.file \in Files /\ Begun(rcv.msg.file)
            /\ rcv.msg.file \in Nat /\ f \in Nat
        BY <1>0 DEF ChainStep
      <3>2. rcv.msg.file <= f
        <4>1. ~(rcv.msg.file > f)
          BY <3>1, SendFacts DEF Begun
        <4> QED
          BY <3>1, <4>1
      <3>3. CASE rcv.msg.file < f
        BY <3>3 DEF Before, NewMessage
      <3>4. CASE rcv.msg.file = f
        <4>1. m.type # "file_meta" /\ m.file = f
          BY <3>1, <3>4 DEF NewMessage, Begun
        <4>2. rcv.msg.type \in {"file_meta", "chunk"}
          <5>1. rcv.pc = "sink" \/ Busy
            BY DEF TypeOK, ReceiverRecord, Busy
          <5> QED
            BY <5>1 DEF ChainStep
        <4>3. rcv.msg.type = "chunk" => rcv.msg.index < snd[f].index
          BY <3>4 DEF ChainStep, TypeOK, ReceiverRecord, Busy
        <4> QED
          BY <3>4, <4>1, <4>2, <4>3 DEF Before, NewMessage
      <3> QED
        BY <3>1, <3>2, <3>3, <3>4
    <2> QED
      BY <1>2, <2>3, <2>4, <2>5, <2>6 DEF InOrder
  <1> QED
    BY <1>3, <1>4, <1>5, <1>6

LEMMA SendReceiver ==
    ASSUME IInv, NEW f \in Files, NEW s, SendStep(f, s)
    PROVE  ChainStep' /\ Current' /\ Announced'
  <1> USE DEF IInv
  <1>0. /\ snd' \in [Files -> SendRecord] /\ snd'[f] = s
        /\ \A g \in Files : g # f => snd'[g] = snd[g]
        /\ \A g \in Files : Begun(g) => snd'[g].pc \notin {"queued", "meta"}
        /\ s.pc \notin {"queued", "meta"} /\ Files \subseteq Nat
        /\ \A m \in Sent' : m \in Sent \/ NewMessage(f, s, m)
    BY SendFacts
  <1>1. UNCHANGED <<rcv, rows>>
    BY DEF SendStep
  <1>2. \A g \in Files : /\ snd[g].index \in Nat /\ snd'[g].index \in Nat
                         /\ snd'[g].index >= snd[g].index
    <2>1. s.index = snd[f].index \/ s.index = snd[f].index + 1
      BY DEF SendStep
    <2> QED
      BY <1>0, <2>1, SendTyped
  <1>3. \A g \in Files : snd[g].pc \in Settled => snd'[g].pc \in Settled
    BY <1>0 DEF SendStep, Listening, Waiting, Settled
  <1>4. /\ rcv.current \in Files \cup {NoFile} /\ rcv.expected \in Nat
        /\ rcv.msg.index \in Nat
    BY DEF TypeOK, ReceiverRecord, Messages
  <1>5. ChainStep'
    <2>1. rcv.pc # "idle" => snd'[rcv.msg.file].pc \notin {"queued", "meta"}
      BY <1>0 DEF ChainStep
    <2>2. Busy => rcv.msg.index < snd'[rcv.msg.file].index
      <3>1. Busy => rcv.msg.file \in Files /\ rcv.msg.index < snd[rcv.msg.file].index
        BY DEF ChainStep, Busy
      <3> QED
        BY <1>2, <1>4, <3>1
    <2>3. Busy' = Busy
      BY <1>1 DEF Busy
    <2> QED
      BY <1>1, <2>1, <2>2, <2>3 DEF ChainStep, Begun
  <1>6. Current'
    <2> SUFFICES ASSUME rcv.current # NoFile
                 PROVE  Current'
      BY <1>1 DEF Current
    <2> DEFINE c == rcv.current
    <2>1. c \in Files /\ c \in Nat /\ f \in Nat /\ Begun(c)
      BY <1>0, <1>4 DEF Current
    <2>2. snd'[c].pc \notin {"queued", "meta"} /\ snd'[c].index >= rcv.expected
      BY <1>0, <1>2, <1>4, <2>1 DEF Current
    <2>3. ASSUME NEW m, NewMessage(f, s, m)
          PROVE  /\ m.file >= c
                 /\ m.file = c /\ m.type = "chunk" => m.index >= rcv.expected
      <3>1. ~(c > f)
        BY <2>1, SendFacts DEF Begun
      <3> QED
        BY <2>1, <2>3, <3>1 DEF Current, NewMessage
    <2>4. ASSUME Missed(c)
          PROVE  /\ \A m \in Sent' : m.type = "chunk" /\ m.file = c
                                        => m.index # rcv.expected
                 /\ snd'[c].index > rcv.expected \/ snd'[c].pc \in Settled
      <3>1. snd'[c].index > rcv.expected \/ snd'[c].pc \in Settled
        BY <1>2, <1>3, <1>4, <2>1, <2>4 DEF Missed
      <3>2. ASSUME NEW m, NewMessage(f, s, m), m.type = "chunk", m.file = c
            PROVE  m.index # rcv.expected
        <4>1. f = c /\ m.index = snd[f].index /\ snd[f].pc = "reading"
          BY <3>2 DEF NewMessage
        <4>2. snd[f].index > rcv.expected
          BY <2>4, <4>1 DEF Missed, Settled
        <4> QED
          BY <1>2, <1>4, <4>1, <4>2
      <3> QED
        BY <1>0, <2>4, <3>1, <3>2 DEF Missed
    <2>5. \A m \in Sent' : /\ m.file >= c
                           /\ m.file = c /\ m.type = "chunk" =>
                                 m.index >= rcv.expected
      BY <1>0, <2>3 DEF Current
    <2>6. rcv.pc # "sink" =>
             \/ /\ rows[c].state = "open"
                /\ Len(rows[c].written) = rcv.expected
             \/ /\ rows[c].state = "error" /\ rcv.pc = "idle"
                /\ Missed(c)
      BY DEF Current
    <2> QED
      BY <1>1, <2>2, <2>4, <2>5, <2>6 DEF Current, Begun, Missed
  <1>7. Announced'
    <2>1. \A g \in Files : Unknown(g)' <=> Unknown(g)
      BY <1>1 DEF Unknown
    <2>2. \A g \in Files : snd'[g].pc \in {"queued", "meta"} => Unknown(g)
      BY <1>0 DEF Announced, Begun
    <2>3. ASSUME NEW m \in Sent', m.type = "file_meta"
          PROVE  m.file \in Files /\ Unknown(m.file)
      <3>1. CASE m \in Sent
        BY <2>3, <3>1 DEF Announced, Sent, WellFormed
      <3>2. CASE NewMessage(f, s, m)
        BY <2>3, <3>2 DEF NewMessage, Announced, Begun
      <3> QED
        BY <1>0, <3>1, <3>2
    <2> QED
      BY <2>1, <2>2, <2>3 DEF Announced, Begun
  <1> QED
    BY <1>5, <1>6, <1>7

LEMMA SendAcks ==
    ASSUME IInv, NEW f \in Files, NEW s, SendStep(f, s)
    PROVE  AckOfWrite' /\ AcksRise' /\ Window'
  <1> USE DEF IInv
  <1>0. /\ snd' \in [Files -> SendRecord] /\ snd'[f] = s
        /\ \A g \in Files : g # f => snd'[g] = snd[g]
        /\ s.index \in Nat /\ s.acked \in Int /\ s.index <= totalChunks(f)
        /\ s.pc \notin {"queued", "meta"} /\ Files \subseteq Nat
        /\ \A m \in Sent' : m \in Sent \/ NewMessage(f, s, m)
        /\ Answers' \subseteq Answers
    BY SendFacts
  <1>1. /\ UNCHANGED <<rcv, rows, back, sndOpen, rcvOpen>>
        /\ snd[f].pc \in {"meta"} \cup Listening
        /\ snd[f].aborted # "no" => s.aborted # "no"
        /\ Justified(f, s)
    BY DEF SendStep
  <1>2. /\ home \in Seq(Messages) /\ back \in Seq(Messages)
        /\ Len(home) \in Nat /\ Len(back) \in Nat
    BY DEF TypeOK
  <1>3. \A g \in Files : Told(g) => snd'[g].aborted # "no" \/ snd'[g].pc \in Settled
    BY <1>0, <1>1 DEF Told, Settled, Listening, Waiting
  <1>4. /\ snd[f].index \in Nat /\ snd[f].acked \in Int
        /\ totalChunks(f) \in Nat /\ WINDOW_SIZE \in Nat
    BY SendTyped
  <1>5. CASE home' = home /\ s.acked = snd[f].acked
    <2>1. AckOfWrite'
      <3>1. s.aborted = "no" => s.acked < Len(rows[f].written)
        BY <1>1, <1>5 DEF AckOfWrite
      <3>2. \A g \in Files :
              /\ snd'[g].aborted = "no" => snd'[g].acked < Len(rows[g].written)
              /\ snd'[g].pc = "sent" => snd'[g].aborted = "no"
                    /\ snd'[g].acked >= totalChunks(g) - 1
        BY <1>0, <1>1, <3>1 DEF AckOfWrite, Justified
      <3>3. \A m \in Answers : m.file \in Files
        BY DEF WellFormed
      <3>4. \A j \in 1..Len(home) : home[j].file \in Files
        BY <3>3 DEF Answers, Elems
      <3>5. \A j \in 1..Len(back) : back[j].file \in Files
        BY <3>3 DEF Answers, Elems
      <3>6. Busy => rcv.msg.file \in Files
        BY DEF ChainStep, Busy
      <3> QED
        BY <1>1, <1>3, <1>5, <3>2, <3>4, <3>5, <3>6
           DEF AckOfWrite, Told, AbortIn, Busy
    <2>2. AcksRise'
      <3>1. \A a \in Answers : a.type = "chunk_ack" =>
               /\ a.file \in Files /\ a.index \in Nat
               /\ a.index > snd'[a.file].acked
               /\ a.index < snd'[a.file].index
        <4> SUFFICES ASSUME NEW a \in Answers, a.type = "chunk_ack"
                     PROVE  /\ a.file \in Files /\ a.index \in Nat
                            /\ a.index > snd'[a.file].acked
                            /\ a.index < snd'[a.file].index
          OBVIOUS
        <4>1. /\ a.file \in Files /\ a.index \in Nat
              /\ a.index > snd[a.file].acked /\ a.index < snd[a.file].index
          BY QueuesTyped DEF AcksRise, WellFormed
        <4>2. s.index = snd[f].index \/ s.index = snd[f].index + 1
          BY DEF SendStep
        <4> QED
          BY <1>0, <1>4, <1>5, <4>1, <4>2
      <3>2. \A m, a : NewMessage(f, s, m) /\ m.type = "chunk" /\ a \in Answers
                 /\ a.type = "chunk_ack" /\ m.file = a.file => a.index < m.index
        BY DEF AcksRise, NewMessage
      <3>3. \A m \in Sent' : m.type = "chunk" =>
               /\ m.file \in Files /\ m.index > snd'[m.file].acked
        <4> SUFFICES ASSUME NEW m \in Sent', m.type = "chunk"
                     PROVE  m.file \in Files /\ m.index > snd'[m.file].acked
          OBVIOUS
        <4>1. CASE m \in Sent
          BY <1>0, <1>5, <4>1 DEF AcksRise, WellFormed, Sent
        <4>2. CASE NewMessage(f, s, m)
          BY <1>0, <1>4, <1>5, <4>2 DEF NewMessage, Window
        <4> QED
          BY <1>0, <4>1, <4>2
      <3>4. Busy => rcv.msg.index > snd'[rcv.msg.file].acked
        BY <1>0, <1>5 DEF AcksRise, ChainStep, Busy
      <3>5. \A a \in Answers, m \in Sent' : a.type = "chunk_ack" /\ m.type = "chunk"
               /\ m.file = a.file => a.index < m.index
        BY <1>0, <3>2 DEF AcksRise
      <3>6. /\ home' = home /\ back' = back /\ rcv' = rcv /\ Answers' = Answers
        BY <1>1, <1>5 DEF Answers
      <3> QED
        BY <3>1, <3>3, <3>4, <3>5, <3>6 DEF AcksRise, Rising, Busy
    <2>3. Window'
      <3>1. /\ s.acked < s.index /\ s.index - 1 - s.acked <= WINDOW_SIZE
            /\ s.pc = "reading" => /\ s.index - 1 - s.acked < WINDOW_SIZE
                                   /\ s.index < totalChunks(f)
        <4>1. CASE s.index = snd[f].index
          BY <1>1, <1>4, <1>5, <4>1 DEF Window, Justified
        <4>2. CASE s.index = snd[f].index + 1 /\ snd[f].pc = "reading"
          BY <1>1, <1>4, <1>5, <4>2 DEF Window, Justified
        <4> QED
          BY <4>1, <4>2 DEF SendStep
      <3> QED
        BY <1>0, <3>1 DEF Window, Begun
    <2> QED
      BY <2>1, <2>2, <2>3
  <1>6. CASE /\ home # <<>> /\ home' = Tail(home) /\ Head(home).file = f
             /\ snd[f].pc \in Listening /\ s.index = snd[f].index
             /\ Head(home).type = "chunk_ack" => s.acked = Head(home).index
             /\ Head(home).type = "file_abort" =>
                   s.aborted # "no" /\ s.acked = snd[f].acked
    <2> DEFINE h == home[1]
    <2>1. /\ 1 \in 1..Len(home) /\ h \in Answers /\ h.file = f
          /\ h.type \in {"chunk_ack", "file_abort"} /\ h.index \in Nat
          /\ h.type = "chunk_ack" => s.acked = h.index
          /\ h.type = "file_abort" =>
                s.aborted # "no" /\ s.acked = snd[f].acked
      <3>1. 1 \in 1..Len(home) /\ Head(home) = h
        BY <1>2, <1>6, Taken
      <3>2. h \in Answers
        BY <3>1 DEF Answers, Elems
      <3> QED
        BY <1>6, <3>1, <3>2, QueuesTyped DEF WellFormed
    <2>2. /\ Len(home') = Len(home) - 1
          /\ \A i \in 1..Len(home') : i + 1 \in 1..Len(home)
                                      /\ home'[i] = home[i + 1]
          /\ \A i \in 1..Len(home) : i = 1 \/ i - 1 \in 1..Len(home')
      BY <1>2, <1>6, Taken
    <2>3. ASSUME NEW n \in 0..Len(home), NEW g \in Files, AbortIn(home, n, g)
          PROVE  \/ snd'[g].aborted # "no" \/ snd'[g].pc \in Settled
                 \/ \E i \in 1..(n - 1) : isAbort(home'[i], g)
      <3>1. PICK i \in 1..n : isAbort(home[i], g)
        BY <2>3 DEF AbortIn
      <3>2. CASE i = 1
        BY <1>0, <2>1, <3>1, <3>2 DEF isAbort
      <3>3. CASE i # 1
        <4>1. /\ i - 1 \in 1..(n - 1) /\ i - 1 \in 1..Len(home')
              /\ (i - 1) + 1 = i
          BY <1>2, <2>2, <3>3
        <4>2. home'[i - 1] = home[i]
          BY <2>2, <4>1
        <4> QED
          BY <3>1, <4>1, <4>2
      <3> QED
        BY <3>2, <3>3
    <2>4. AckOfWrite'
      <3>1. sndOpen
        BY <1>6 DEF AckOfWrite
      <3>2. s.aborted = "no" => s.acked < Len(rows[f].written)
        <4>1. CASE h.type = "chunk_ack"
          <5>1. \/ h.index < Len(rows[f].written) \/ Told(f)
                \/ AbortIn(home, 0, f)
            BY <2>1, <4>1 DEF AckOfWrite
          <5>2. ~AbortIn(home, 0, f)
            BY DEF AbortIn
          <5>3. Told(f) => s.aborted # "no"
            BY <1>1, <1>6 DEF Told, Listening, Waiting, Settled
          <5> QED
            BY <2>1, <4>1, <5>1, <5>2, <5>3
        <4> QED
          BY <2>1, <4>1
      <3>3. \A g \in Files :
              /\ snd'[g].aborted = "no" => snd'[g].acked < Len(rows[g].written)
              /\ snd'[g].pc = "sent" => snd'[g].aborted = "no"
                    /\ snd'[g].acked >= totalChunks(g) - 1
        BY <1>0, <1>1, <3>2 DEF AckOfWrite, Justified
      <3>4. \A m \in Answers : m.file \in Files
        BY DEF WellFormed
      <3>5. ASSUME NEW j \in 1..Len(home'), home'[j].type = "chunk_ack"
            PROVE  \/ home'[j].index < Len(rows[home'[j].file].written)
                   \/ snd'[home'[j].file].aborted # "no"
                   \/ snd'[home'[j].file].pc \in Settled
                   \/ \E i \in 1..(j - 1) : isAbort(home'[i], home'[j].file)
        <4>1. /\ j + 1 \in 1..Len(home) /\ home'[j] = home[j + 1]
              /\ (j + 1) - 1 = j /\ j \in 0..Len(home)
          BY <1>2, <2>2
        <4>2. home[j + 1].file \in Files
          BY <3>4, <4>1 DEF Answers, Elems
        <4>3. \/ home[j + 1].index < Len(rows[home[j + 1].file].written)
              \/ Told(home[j + 1].file)
              \/ AbortIn(home, j, home[j + 1].file)
          BY <3>5, <4>1 DEF AckOfWrite
        <4> QED
          BY <1>3, <2>3, <4>1, <4>2, <4>3
      <3>6. ASSUME NEW g \in Files, AbortIn(home, Len(home), g)
            PROVE  \/ snd'[g].aborted # "no" \/ snd'[g].pc \in Settled
                   \/ \E i \in 1..Len(home') : isAbort(home'[i], g)
        <4>1. Len(home) \in 0..Len(home)
          BY <1>2
        <4> QED
          BY <2>2, <2>3, <3>6, <4>1
      <3>7. ASSUME NEW j \in 1..Len(back), back[j].type = "chunk_ack"
            PROVE  \/ back[j].index < Len(rows[back[j].file].written)
                   \/ snd'[back[j].file].aborted # "no"
                   \/ snd'[back[j].file].pc \in Settled
                   \/ AbortIn(back, j - 1, back[j].file)
                   \/ \E i \in 1..Len(home') : isAbort(home'[i], back[j].file)
        <4>1. back[j].file \in Files
          BY <3>4 DEF Answers, Elems
        <4> QED
          BY <1>3, <3>1, <3>6, <3>7, <4>1 DEF AckOfWrite
      <3>8. rcvOpen /\ Busy /\ rcv.current = NoFile =>
               \/ snd'[rcv.msg.file].aborted # "no"
               \/ snd'[rcv.msg.file].pc \in Settled
               \/ AbortIn(back, Len(back), rcv.msg.file)
               \/ \E i \in 1..Len(home') : isAbort(home'[i], rcv.msg.file)
        <4>1. Busy => rcv.msg.file \in Files
          BY DEF ChainStep, Busy
        <4> QED
          BY <1>3, <3>1, <3>6, <4>1 DEF AckOfWrite
      <3> QED
        BY <1>1, <3>1, <3>3, <3>5, <3>7, <3>8
           DEF AckOfWrite, Told, AbortIn, Busy
    <2>5. AcksRise'
      <3>1. \A a \in Answers : a.type = "chunk_ack" =>
               a.file \in Files /\ a.index \in Nat
        BY QueuesTyped DEF WellFormed
      <3>2. ASSUME NEW a \in Answers', a.type = "chunk_ack"
            PROVE  a.index > snd'[a.file].acked /\ a.index < snd'[a.file].index
        <4>1. a \in Answers /\ a.file \in Files
          BY <1>0, <3>1, <3>2
        <4>2. a.index > snd[a.file].acked /\ a.index < snd[a.file].index
          BY <3>2, <4>1 DEF AcksRise
        <4>3. h.type = "chunk_ack" /\ a.file = f => a.index > h.index
          <5>1. CASE a \in Elems(home')
            <6>1. PICK i \in 1..Len(home') : a = home'[i]
              BY <5>1 DEF Elems
            <6>2. i + 1 \in 1..Len(home) /\ a = home[i + 1] /\ 1 < i + 1
              BY <2>2, <6>1
            <6>3. Rising(h, a)
              BY <2>1, <6>2 DEF AcksRise
            <6> QED
              BY <2>1, <3>1, <3>2, <4>1, <6>3 DEF Rising
          <5>2. CASE a \in Elems(back')
            <6>1. PICK i \in 1..Len(back) : a = back[i]
              BY <1>1, <5>2 DEF Elems
            <6>2. Rising(h, a)
              BY <2>1, <6>1 DEF AcksRise
            <6> QED
              BY <2>1, <3>1, <3>2, <4>1, <6>2 DEF Rising
          <5> QED
            BY <5>1, <5>2 DEF Answers
        <4> QED
          BY <1>0, <1>6, <2>1, <4>1, <4>2, <4>3
      <3>3. \A m \in Sent' : m.type = "chunk" => m \in Sent
        BY <1>0, <1>4, <1>6 DEF NewMessage
      <3>4. \A m \in Sent' : m.type = "chunk" =>
               m.file \in Files /\ m.index > snd'[m.file].acked
        <4>1. \A m \in Sent : m.file \in Files
          BY DEF WellFormed, Sent
        <4>2. \A m \in Sent : m.type = "chunk" => m.index > snd[m.file].acked
          BY DEF AcksRise
        <4>3. h.type = "chunk_ack" => \A m \in Sent :
                 m.type = "chunk" /\ m.file = f => m.index > h.index
          <5>1. \A m \in Sent : m.index \in Nat
            BY QueuesTyped DEF Sent
          <5> QED
            BY <2>1, <5>1 DEF AcksRise
        <4> QED
          BY <1>0, <2>1, <3>3, <4>1, <4>2, <4>3
      <3>5. Busy => rcv.msg.index > snd'[rcv.msg.file].acked
        <4>1. /\ Busy => rcv.msg.file \in Files
              /\ Busy => rcv.msg.index > snd[rcv.msg.file].acked
          BY DEF ChainStep, Busy, AcksRise
        <4>2. h.type = "chunk_ack" /\ Busy /\ rcv.msg.file = f =>
                 rcv.msg.index > h.index
          <5>1. rcv.msg.index \in Nat
            BY DEF TypeOK, ReceiverRecord, Messages
          <5> QED
            BY <2>1, <5>1 DEF AcksRise
        <4> QED
          BY <1>0, <2>1, <4>1, <4>2
      <3>6. ASSUME NEW i \in 1..Len(home')
            PROVE  /\ \A j \in 1..Len(home') : i < j =>
                         Rising(home'[i], home'[j])
                   /\ \A j \in 1..Len(back) : Rising(home'[i], back[j])
        <4>1. i + 1 \in 1..Len(home) /\ home'[i] = home[i + 1]
          BY <2>2
        <4>2. ASSUME NEW j \in 1..Len(home'), i < j
              PROVE  Rising(home'[i], home'[j])
          <5>1. /\ j + 1 \in 1..Len(home) /\ home'[j] = home[j + 1]
                /\ i + 1 < j + 1
            BY <2>2, <4>2
          <5> QED
            BY <4>1, <5>1 DEF AcksRise
        <4>3. \A j \in 1..Len(back) : Rising(home'[i], back[j])
          BY <4>1 DEF AcksRise
        <4> QED
          BY <4>2, <4>3
      <3>7. \A a \in Answers' : a.type = "chunk_ack" =>
               /\ \A m \in Sent' : m.type = "chunk" /\ m.file = a.file
                                       => a.index < m.index
               /\ Busy /\ rcv.msg.file = a.file => a.index < rcv.msg.index
        BY <1>0, <3>3 DEF AcksRise
      <3>8. \A i, j \in 1..Len(back) : i < j => Rising(back[i], back[j])
        BY DEF AcksRise
      <3> QED
        BY <1>1, <3>2, <3>4, <3>5, <3>6, <3>7, <3>8 DEF AcksRise, Rising, Busy
    <2>6. Window'
      <3>1. s.acked >= snd[f].acked /\ s.acked < s.index
        <4>1. CASE h.type = "chunk_ack"
          BY <1>0, <1>4, <1>6, <2>1, <4>1 DEF AcksRise
        <4>2. CASE h.type = "file_abort"
          BY <1>0, <1>4, <1>6, <2>1, <4>2 DEF Window
        <4> QED
          BY <2>1, <4>1, <4>2
      <3>2. s.index - 1 - s.acked <= WINDOW_SIZE
        BY <1>0, <1>4, <1>6, <3>1 DEF Window
      <3> QED
        BY <1>0, <1>1, <3>1, <3>2 DEF Window, Begun, Justified
    <2> QED
      BY <2>4, <2>5, <2>6
  <1> QED
    BY <1>5, <1>6 DEF SendStep

LEMMA SendCount ==
    ASSUME IInv, NEW f \in Files, NEW s, SendStep(f, s)
    PROVE  TypeOK' /\ Counting'
  <1> USE DEF IInv
  <1>0. /\ snd' \in [Files -> SendRecord] /\ snd'[f] = s
        /\ \A g \in Files : g # f => snd'[g] = snd[g]
        /\ s.index \in Nat /\ s.index <= totalChunks(f)
        /\ \A g \in Files : Begun(g) => snd'[g].pc \notin {"queued", "meta"}
        /\ home' \in Seq(Messages) /\ Files \subseteq Nat
        /\ \A m \in Elems(up') : m \in Elems(up) \/ NewMessage(f, s, m)
    BY SendFacts
  <1>1. /\ UNCHANGED <<down, back, relay, rcv, rows, sndOpen, rcvOpen>>
        /\ up' \in Seq(Messages) /\ detached' = detached
        /\ up \in Seq(Messages) /\ Len(up) \in Nat /\ Len(up') \in Nat
        /\ Len(up) <= Len(up') /\ \A i \in 1..Len(up) : up'[i] = up[i]
    BY DEF SendStep, TypeOK
  <1>2. TypeOK'
    <2>1. \A g \in Files : snd'[g].index <= totalChunks(g)
      BY <1>0 DEF TypeOK
    <2> QED
      BY <1>0, <1>1, <2>1 DEF TypeOK
  <1>3. /\ relay.file \in Files \cup {NoFile}
        /\ relay.file # NoFile =>
              relay.file \in Files /\ relay.file \in Nat /\ relay.file <= f
    <2>1. relay.file \in Files \cup {NoFile}
      BY DEF TypeOK, RelayRecord
    <2>2. ASSUME relay.file # NoFile
          PROVE  relay.file \in Files /\ relay.file \in Nat /\ relay.file <= f
      <3>1. Begun(relay.file) /\ relay.file \in Files
        BY <2>1, <2>2 DEF Counting
      <3>2. ~(relay.file > f)
        BY <3>1, SendFacts DEF Begun
      <3>3. relay.file \in Nat /\ f \in Nat
        BY <1>0, <3>1
      <3>4. relay.file <= f
        BY <3>2, <3>3
      <3> QED
        BY <3>1, <3>3, <3>4
    <2> QED
      BY <2>1, <2>2
  <1>4. ASSUME NEW n \in 0..Len(up), NEW g, NEW i, Continues(n, g, i)
        PROVE  \/ \E k \in 1..n : isChunk(up'[k], g, i - 1)
               \/ /\ CountedTo(g, i)
                  /\ \A k \in 1..n : ~(up'[k].type = "chunk" /\ up'[k].file = g)
    <2>1. \A k \in 1..n : up'[k] = up[k]
      BY <1>1
    <2> QED
      BY <1>4, <2>1 DEF Continues
  <1>5. ASSUME NEW j \in 1..Len(up'), up'[j].type = "chunk"
        PROVE  \/ \E k \in 1..(j - 1) :
                     isChunk(up'[k], up'[j].file, up'[j].index - 1)
               \/ /\ CountedTo(up'[j].file, up'[j].index)
                  /\ \A k \in 1..(j - 1) :
                        ~(up'[k].type = "chunk" /\ up'[k].file = up'[j].file)
    <2>1. CASE j \in 1..Len(up)
      <3>1. Continues(j - 1, up[j].file, up[j].index) /\ up'[j] = up[j]
        BY <1>1, <1>5, <2>1 DEF Counting
      <3>2. j - 1 \in 0..Len(up)
        BY <1>1, <2>1
      <3> QED
        BY <1>4, <3>1, <3>2
    <2>2. CASE j \notin 1..Len(up)
      <3>1. j \in (Len(up) + 1)..Len(up')
        BY <1>1, <2>2
      <3>2. /\ up'[j].file = f /\ up'[j].index = snd[f].index /\ sndOpen
            /\ snd[f].pc = "reading"
        BY <1>5, <3>1 DEF SendStep, NewMessage
      <3>3. snd[f].index # totalChunks(f)
        BY <3>2, SendTyped DEF Window
      <3>4. Continues(Len(up), f, snd[f].index)
        BY <3>2, <3>3 DEF Counting, Listening
      <3>5. Len(up) \in 0..Len(up)
        BY <1>1
      <3>6. j - 1 = Len(up)
        <4>1. ASSUME j # Len(up) + 1 PROVE FALSE
          <5>1. /\ Len(up) + 1 \in (Len(up) + 1)..Len(up')
                /\ j \in ((Len(up) + 1) + 1)..Len(up')
            BY <1>1, <3>1, <4>1
          <5>2. up'[j].type = "file_abort"
            BY <5>1 DEF SendStep
          <5> QED
            BY <1>5, <5>2
        <4> QED
          BY <1>1, <4>1
      <3> QED
        BY <1>4, <3>2, <3>4, <3>5, <3>6
    <2> QED
      BY <2>1, <2>2
  <1>6. ASSUME sndOpen, NEW g \in Files, snd'[g].pc \in Listening
        PROVE  \/ snd'[g].index = totalChunks(g)
               \/ \E k \in 1..Len(up') : isChunk(up'[k], g, snd'[g].index - 1)
               \/ /\ CountedTo(g, snd'[g].index)
                  /\ \A k \in 1..Len(up') :
                        ~(up'[k].type = "chunk" /\ up'[k].file = g)
    <2>0. /\ Len(up) \in 0..Len(up)
          /\ \A k \in 1..Len(up) : k \in 1..Len(up')
          /\ \A k \in 1..Len(up') : k \in 1..Len(up)
                                    \/ NewMessage(f, s, up'[k])
      <3>1. \A k \in 1..Len(up') : k \in 1..Len(up)
                                    \/ k \in (Len(up) + 1)..Len(up')
        BY <1>1
      <3> QED
        BY <1>1, <3>1 DEF SendStep
    <2>1. CASE snd[g].pc \in Listening /\ snd'[g].index = snd[g].index
      <3>1. snd[g].index = totalChunks(g) \/ Continues(Len(up), g, snd[g].index)
        BY <1>6, <2>1 DEF Counting
      <3>2. ASSUME NEW k \in 1..Len(up'), NewMessage(f, s, up'[k])
            PROVE  ~(up'[k].type = "chunk" /\ up'[k].file = g)
        BY <1>0, <2>1, <3>2, SendTyped DEF NewMessage
      <3> QED
        BY <1>4, <2>0, <2>1, <3>1, <3>2
    <2>2. CASE g = f /\ s.index = snd[f].index /\ snd[f].pc = "meta"
      <3>0. f # NoFile
        BY DEF Files, NoFile
      <3>1. s.index = 0
        BY <2>2 DEF Window, Begun
      <3>2. relay.file # f
        BY <2>2, <3>0 DEF Begun, Counting
      <3>3. ASSUME NEW k \in 1..Len(up') PROVE ~(up'[k].type = "chunk" /\ up'[k].file = g)
        <4>1. CASE k \in 1..Len(up)
          <5>1. up[k] \in Sent /\ up'[k] = up[k]
            BY <1>1, <4>1 DEF Sent, Elems, WellFormed
          <5> QED
            BY <2>2, <5>1 DEF SenderAhead, Begun
        <4>2. CASE NewMessage(f, s, up'[k])
          BY <2>2, <4>2 DEF NewMessage, Listening, Waiting
        <4> QED
          BY <2>0, <4>1, <4>2
      <3> QED
        BY <1>0, <2>2, <3>1, <3>2, <3>3 DEF CountedTo
    <2>3. CASE g = f /\ s.index = snd[f].index + 1
      <3>1. \E i \in 1..Len(up') : isChunk(up'[i], f, snd[f].index)
        BY <1>6, <2>3, SendTyped DEF SendStep
      <3>2. s.index - 1 = snd[f].index
        BY <2>3, SendTyped
      <3> QED
        BY <1>0, <2>3, <3>1, <3>2
    <2> QED
      BY <1>0, <1>6, <2>1, <2>2, <2>3 DEF SendStep
  <1>7. Counting'
    <2>1. relay.file # NoFile =>
             /\ snd'[relay.file].pc \notin {"queued", "meta"}
             /\ \A m \in Elems(up') : m.file >= relay.file
      <3>1. ASSUME relay.file # NoFile, NEW m \in Elems(up')
            PROVE  m.file >= relay.file
        <4>1. CASE m \in Elems(up)
          BY <3>1, <4>1 DEF Counting
        <4>2. CASE NewMessage(f, s, m)
          BY <1>0, <1>3, <3>1, <4>2 DEF NewMessage
        <4> QED
          BY <1>0, <4>1, <4>2
      <3>2. relay.file # NoFile => snd'[relay.file].pc \notin {"queued", "meta"}
        BY <1>0, <1>3 DEF Counting
      <3> QED
        BY <3>1, <3>2
    <2>2. /\ relay.file = NoFile => relay.bytes = 0 /\ ~relay.blocked
          /\ ~relay.blocked => relay.bytes <= MaxFileSize
      BY DEF Counting
    <2> QED
      BY <1>1, <1>5, <1>6, <2>1, <2>2 DEF Counting, CountedTo, Continues, Begun
  <1> QED
    BY <1>2, <1>7

LEMMA SendStepIInv ==
    ASSUME IInv, NEW f \in Files, NEW s, SendStep(f, s)
    PROVE  IInv'
  <1>1. WrittenInOrder' /\ SavedWhole'
    BY DEF IInv, SendStep, WrittenInOrder, SavedWhole
  <1>2. WithinLimit'
    BY DEF IInv, SendStep, WithinLimit, LimitEnforced, Busy
  <1> QED
    BY <1>1, <1>2, SendOrder, SendReceiver, SendAcks, SendCount DEF IInv


-----------------------------------------------------------------------------
(* The actions of the sender *)

LEMMA MessageFields ==
    ASSUME NEW f \in Files,
           NEW t \in {"file_meta", "chunk", "chunk_ack", "file_abort"}
    PROVE  /\ message(t, f) \in Messages
           /\ message(t, f).type = t /\ message(t, f).file = f
           /\ message(t, f).limit = FALSE
  BY DEF message, Messages

(* Q is q, or q with m after it: deliver.                                  *)
Grown(q, m, Q) == Q = q \/ Q = Append(q, m)

Extended(q, m, Q) ==
    /\ Q \in Seq(Messages) /\ Len(q) \in Nat /\ Len(Q) \in Nat
    /\ Len(q) <= Len(Q)
    /\ \A i \in 1..Len(q) : i \in 1..Len(Q) /\ Q[i] = q[i]
    /\ \A i \in (Len(q) + 1)..Len(Q) :
          Q # q /\ Q[i] = m /\ i = Len(Q) /\ i = Len(q) + 1
    /\ \A i \in 1..Len(Q) : i \in 1..Len(q) \/ i \in (Len(q) + 1)..Len(Q)
    /\ Q # q => Len(q) + 1 \in 1..Len(Q) /\ Q[Len(q) + 1] = m
    /\ \A e \in Elems(Q) : e \in Elems(q) \/ e = m
    /\ Q = Append(q, m) => Q # q

LEMMA Delivered ==
    ASSUME NEW q \in Seq(Messages), NEW m \in Messages, NEW Q, Grown(q, m, Q)
    PROVE  Extended(q, m, Q)
  <1>0. Append(q, m) # q
    OBVIOUS
  <1>1. CASE Q = Append(q, m)
    <2>2. /\ Q \in Seq(Messages) /\ Len(Q) = Len(q) + 1 /\ Q[Len(q) + 1] = m
          /\ \A i \in 1..Len(q) : Q[i] = q[i]
      BY <1>1, Appended
    <2>3. \A e \in Elems(Q) : e \in Elems(q) \/ e = m
      BY <1>1, Appended
    <2>4. Len(q) \in Nat
      OBVIOUS
    <2>5. /\ Len(q) <= Len(Q) /\ Len(Q) \in Nat
          /\ \A i \in 1..Len(q) : i \in 1..Len(Q)
          /\ \A i \in (Len(q) + 1)..Len(Q) : i = Len(Q) /\ i = Len(q) + 1
          /\ \A i \in 1..Len(Q) : i \in 1..Len(q) \/ i \in (Len(q) + 1)..Len(Q)
          /\ Len(q) + 1 \in 1..Len(Q)
      BY <2>2, <2>4
    <2> QED
      BY <1>0, <1>1, <2>2, <2>3, <2>4, <2>5 DEF Extended
  <1>2. CASE Q = q
    <2>1. Len(q) \in Nat
      OBVIOUS
    <2>2. \A i \in (Len(q) + 1)..Len(q) : FALSE
      BY <2>1
    <2> QED
      BY <1>0, <1>2, <2>1, <2>2 DEF Extended
  <1> QED
    BY <1>1, <1>2 DEF Grown

LEMMA AbortTold ==
    ASSUME NEW f \in Files, NEW s, NEW q, NEW Q, Q = tellAbort(f, s, q)
    PROVE  \/ Q = q
           \/ /\ s.pc = "canceled"
              /\ Q = deliver(q, sndOpen, message("file_abort", f))
  BY DEF tellAbort

LEMMA SendMetaIInv ==
    ASSUME IInv, NEW f \in Files, SendMeta(f)
    PROVE  IInv'
  <1> DEFINE s == runOn(f, snd[f])
             m == message("file_meta", f)
  <1>1. snd[f] \in SendRecord /\ up \in Seq(Messages) /\ Len(up) \in Nat
        /\ sndOpen \in BOOLEAN
    BY SendTyped DEF IInv, TypeOK
  <1>2. /\ s \in SendRecord /\ SameData(s, snd[f]) /\ Justified(f, s)
        /\ s.pc \in Listening \cup Settled
    BY <1>1, RunsOn DEF Listening, Waiting, Settled
  <1>3. snd' = [snd EXCEPT ![f] = s] /\ up' = deliver(up, sndOpen, m)
        /\ snd[f].pc = "meta"
    BY DEF SendMeta
  <1>4. m \in Messages /\ m.type = "file_meta" /\ m.file = f /\ ~m.limit
    BY MessageFields
  <1> HIDE DEF s, m
  <1>5. /\ up' \in Seq(Messages) /\ Len(up) <= Len(up')
        /\ \A i \in 1..Len(up) : up'[i] = up[i]
        /\ \A i \in (Len(up) + 1)..Len(up') :
              sndOpen /\ up'[i] = m /\ i = Len(up')
        /\ Len(up') \in Nat
    <2>1. Grown(up, m, up') /\ (up' # up => sndOpen)
      BY <1>3 DEF deliver, Grown
    <2>2. Extended(up, m, up')
      BY <1>1, <1>4, <2>1, Delivered
    <2> QED
      BY <2>1, <2>2 DEF Extended
  <1>6. \A i \in (Len(up) + 1)..Len(up') :
          /\ NewMessage(f, s, up'[i])
          /\ \A j \in (i + 1)..Len(up') :
                up'[i].type = "chunk" /\ up'[j].type = "file_abort"
    BY <1>3, <1>4, <1>5 DEF NewMessage
  <1>7. SendStep(f, s)
    BY <1>2, <1>3, <1>5, <1>6 DEF SendStep, SendMeta, SameData
  <1> QED
    BY <1>7, SendStepIInv

LEMMA SendChunkIInv ==
    ASSUME IInv, NEW f \in Files, SendChunk(f)
    PROVE  IInv'
  <1> DEFINE r == [snd[f] EXCEPT !.index = @ + 1]
             s == runOn(f, r)
             m == chunk(f, snd[f].index)
             a == message("file_abort", f)
             q == deliver(up, sndOpen, m)
  <1>1. snd[f] \in SendRecord /\ up \in Seq(Messages) /\ Len(up) \in Nat
        /\ snd[f].index \in Nat /\ sndOpen \in BOOLEAN
    BY SendTyped DEF IInv, TypeOK
  <1>2. r \in SendRecord /\ r.index = snd[f].index + 1
        /\ r.acked = snd[f].acked /\ r.aborted = snd[f].aborted
    BY <1>1 DEF SendRecord
  <1>3. /\ snd[f].pc = "reading"
        /\ snd' = [snd EXCEPT ![f] = s] /\ up' = tellAbort(f, s, q)
    BY DEF SendChunk
  <1> HIDE DEF r
  <1>4. /\ s \in SendRecord /\ SameData(s, r) /\ Justified(f, s)
        /\ s.pc \in Listening \cup Settled
        /\ s.pc = "canceled" => s.pc \in Settled
    BY <1>2, RunsOn DEF Listening, Waiting, Settled
  <1>5. /\ m \in Messages /\ m.type = "chunk" /\ m.file = f /\ ~m.limit
        /\ m.index = snd[f].index
        /\ a \in Messages /\ a.type = "file_abort" /\ a.file = f /\ ~a.limit
    <2>1. /\ m \in Messages /\ m.type = "chunk" /\ m.file = f /\ ~m.limit
          /\ m.index = snd[f].index
      BY <1>1 DEF chunk, message, Messages
    <2>2. a \in Messages /\ a.type = "file_abort" /\ a.file = f /\ ~a.limit
      BY MessageFields
    <2> QED
      BY <2>1, <2>2
  <1> HIDE DEF s, m, a
  <1>6. /\ q \in Seq(Messages) /\ Len(up) <= Len(q) /\ Len(q) \in Nat
        /\ \A i \in 1..Len(up) : i \in 1..Len(q) /\ q[i] = up[i]
        /\ \A i \in (Len(up) + 1)..Len(q) : sndOpen /\ q[i] = m /\ i = Len(q)
        /\ sndOpen => Len(up) + 1 \in 1..Len(q) /\ q[Len(up) + 1] = m
    <2>1. Grown(up, m, q) /\ (q # up => sndOpen) /\ (sndOpen => q = Append(up, m))
      BY <1>1 DEF deliver, Grown
    <2> HIDE DEF q
    <2>2. Extended(up, m, q)
      BY <1>1, <1>5, <2>1, Delivered
    <2> QED
      BY <2>1, <2>2 DEF Extended
  <1> HIDE DEF q
  <1>7. /\ NewMessage(f, s, m) <=> sndOpen
        /\ snd[f].pc \in Listening
        /\ s.index = snd[f].index + 1 /\ s.acked = snd[f].acked
        /\ s.aborted = snd[f].aborted
    BY <1>1, <1>2, <1>3, <1>4, <1>5 DEF NewMessage, SameData, Listening
  <1>8. /\ up' \in Seq(Messages) /\ Len(up) <= Len(up')
        /\ \A i \in 1..Len(up) : up'[i] = up[i]
        /\ sndOpen => Len(up) + 1 \in 1..Len(up') /\ up'[Len(up) + 1] = m
        /\ \A i \in (Len(up) + 1)..Len(up') :
              /\ NewMessage(f, s, up'[i])
              /\ \A j \in (i + 1)..Len(up') :
                    up'[i].type = "chunk" /\ up'[j].type = "file_abort"
    <2>1. CASE up' = q
      BY <1>1, <1>5, <1>6, <1>7, <2>1
    <2>2. CASE s.pc = "canceled" /\ up' = deliver(q, sndOpen, a)
      <3>1. /\ up' \in Seq(Messages) /\ Len(q) <= Len(up') /\ Len(up') \in Nat
            /\ \A i \in 1..Len(q) : i \in 1..Len(up') /\ up'[i] = q[i]
            /\ \A i \in (Len(q) + 1)..Len(up') :
                  sndOpen /\ up'[i] = a /\ i = Len(up')
        <4>1. Grown(q, a, up') /\ (up' # q => sndOpen)
          BY <2>2 DEF deliver, Grown
        <4>2. Extended(q, a, up')
          BY <1>5, <1>6, <4>1, Delivered
        <4> QED
          BY <4>1, <4>2 DEF Extended
      <3>2. sndOpen => NewMessage(f, s, a)
        BY <1>4, <1>5, <1>7, <2>2 DEF NewMessage
      <3>3. ASSUME NEW i \in (Len(up) + 1)..Len(up')
            PROVE  /\ NewMessage(f, s, up'[i])
                   /\ \A j \in (i + 1)..Len(up') :
                        up'[i].type = "chunk" /\ up'[j].type = "file_abort"
        <4>1. CASE i \in (Len(up) + 1)..Len(q)
          <5>1. i = Len(q) /\ i \in 1..Len(q) /\ q[i] = m /\ sndOpen
            BY <1>1, <1>6, <4>1
          <5>2. up'[i] = m /\ \A j \in (i + 1)..Len(up') : up'[j] = a
            BY <3>1, <5>1
          <5> QED
            BY <1>5, <1>7, <5>1, <5>2
        <4>2. CASE i \in (Len(q) + 1)..Len(up')
          BY <3>1, <3>2, <4>2
        <4> QED
          BY <1>1, <1>6, <3>1, <4>1, <4>2
      <3> QED
        BY <1>1, <1>6, <3>1, <3>3
    <2> QED
      BY <1>3, <2>1, <2>2, AbortTold DEF a
  <1>9. sndOpen => \E i \in 1..Len(up') : isChunk(up'[i], f, snd[f].index)
    BY <1>5, <1>8 DEF isChunk
  <1>10. SendStep(f, s)
    BY <1>3, <1>4, <1>7, <1>8, <1>9 DEF SendStep, SendChunk
  <1> QED
    BY <1>10, SendStepIInv

(* At most an abort of f is sent, by a send that is over.                  *)
LEMMA MayTell ==
    ASSUME IInv, NEW f \in Files, NEW s, snd[f].pc \in Listening,
           Grown(up, message("file_abort", f), up'),
           up' # up => sndOpen /\ s.pc \in Settled
    PROVE  /\ up' \in Seq(Messages) /\ Len(up) <= Len(up')
           /\ \A i \in 1..Len(up) : up'[i] = up[i]
           /\ \A i \in (Len(up) + 1)..Len(up') :
                 /\ NewMessage(f, s, up'[i])
                 /\ \A j \in (i + 1)..Len(up') :
                       up'[i].type = "chunk" /\ up'[j].type = "file_abort"
  <1> DEFINE a == message("file_abort", f)
  <1>1. up \in Seq(Messages) /\ Grown(up, a, up')
    BY DEF IInv, TypeOK
  <1>2. a \in Messages /\ a.type = "file_abort" /\ a.file = f /\ ~a.limit
    BY MessageFields
  <1> HIDE DEF a
  <1>3. Extended(up, a, up')
    BY <1>1, <1>2, Delivered
  <1>4. /\ up' \in Seq(Messages) /\ Len(up) <= Len(up') /\ Len(up) \in Nat
        /\ \A i \in 1..Len(up) : up'[i] = up[i]
        /\ \A i \in (Len(up) + 1)..Len(up') :
              up' # up /\ up'[i] = a /\ i = Len(up')
    BY <1>3 DEF Extended
  <1>5. ASSUME NEW i \in (Len(up) + 1)..Len(up')
        PROVE  NewMessage(f, s, up'[i]) /\ i = Len(up')
    BY <1>2, <1>4 DEF NewMessage
  <1>6. ASSUME NEW i \in (Len(up) + 1)..Len(up'), NEW j \in (i + 1)..Len(up')
        PROVE  FALSE
    BY <1>4, <1>5
  <1> QED
    BY <1>4, <1>5, <1>6

LEMMA ReadFailsIInv ==
    ASSUME IInv, NEW f \in Files, ReadFails(f)
    PROVE  IInv'
  <1> DEFINE s == [snd[f] EXCEPT !.pc = "error"]
  <1>1. snd[f] \in SendRecord /\ snd \in [Files -> SendRecord]
    BY SendTyped DEF IInv
  <1>2. /\ snd[f].pc = "reading" /\ snd' = [snd EXCEPT ![f] = s]
        /\ Grown(up, message("file_abort", f), up')
        /\ up' # up => sndOpen
    BY <1>1 DEF ReadFails, deliver, Grown
  <1>3. /\ s \in SendRecord /\ s.pc = "error" /\ s.index = snd[f].index
        /\ s.acked = snd[f].acked /\ s.aborted = snd[f].aborted
    BY <1>1 DEF SendRecord, Settled
  <1> HIDE DEF s
  <1>4. s.pc \in Settled /\ snd[f].pc \in Listening
    BY <1>2, <1>3 DEF Settled, Listening
  <1>5. /\ up' \in Seq(Messages) /\ Len(up) <= Len(up')
        /\ \A i \in 1..Len(up) : up'[i] = up[i]
        /\ \A i \in (Len(up) + 1)..Len(up') :
              /\ NewMessage(f, s, up'[i])
              /\ \A j \in (i + 1)..Len(up') :
                    up'[i].type = "chunk" /\ up'[j].type = "file_abort"
    BY <1>2, <1>4, MayTell
  <1>6. SendStep(f, s)
    BY <1>2, <1>3, <1>4, <1>5 DEF SendStep, ReadFails, Justified
  <1> QED
    BY <1>6, SendStepIInv

(* An event has changed sendFile's variables to r, without going on yet.   *)
LEMMA EventIInv ==
    ASSUME IInv, NEW f \in Files, snd[f].pc \in Listening,
           NEW r \in SendRecord, r.pc = snd[f].pc, r.index = snd[f].index,
           r.acked \in Int, r.acked >= snd[f].acked,
           snd[f].aborted # "no" => r.aborted # "no",
           snd' = [snd EXCEPT ![f] = wake(f, r)],
           up' = tellAbort(f, wake(f, r), up),
           \/ home' = home /\ r.acked = snd[f].acked
           \/ /\ home # <<>> /\ home' = Tail(home) /\ Head(home).file = f
              /\ Head(home).type = "chunk_ack" => r.acked = Head(home).index
              /\ Head(home).type = "file_abort" =>
                    r.aborted # "no" /\ r.acked = snd[f].acked,
           detached' = detached,
           UNCHANGED <<down, back, relay, rcv, rows, sndOpen, rcvOpen>>
    PROVE  IInv'
  <1> DEFINE s == wake(f, r)
  <1>0. /\ snd[f].index \in Nat /\ snd[f].acked \in Int
        /\ WINDOW_SIZE \in Nat \ {0}
    BY SendTyped DEF IInv
  <1>1. r.pc = "reading" => Justified(f, r)
    <2> SUFFICES ASSUME r.pc = "reading" PROVE Justified(f, r)
      OBVIOUS
    <2>1. /\ snd[f].index - 1 - snd[f].acked < WINDOW_SIZE
          /\ snd[f].index < totalChunks(f)
      BY DEF IInv, Window
    <2>2. r.index - 1 - r.acked < WINDOW_SIZE
      BY <1>0, <2>1
    <2> QED
      BY <2>1, <2>2 DEF Justified
  <1>2. /\ s \in SendRecord /\ SameData(s, r) /\ Justified(f, s)
        /\ s.pc \in Listening \cup Settled
    BY <1>1, Wakes
  <1>3. snd' = [snd EXCEPT ![f] = s] /\ up' = tellAbort(f, s, up)
    OBVIOUS
  <1> HIDE DEF s
  <1>4. /\ Grown(up, message("file_abort", f), up')
        /\ up' # up => sndOpen /\ s.pc \in Settled
    BY <1>3, AbortTold DEF deliver, Settled, Grown
  <1>5. /\ up' \in Seq(Messages) /\ Len(up) <= Len(up')
        /\ \A i \in 1..Len(up) : up'[i] = up[i]
        /\ \A i \in (Len(up) + 1)..Len(up') :
              /\ NewMessage(f, s, up'[i])
              /\ \A j \in (i + 1)..Len(up') :
                    up'[i].type = "chunk" /\ up'[j].type = "file_abort"
    BY <1>4, MayTell
  <1>6. SendStep(f, s)
    BY <1>2, <1>3, <1>5 DEF SendStep, SameData
  <1> QED
    BY <1>6, SendStepIInv

LEMMA HearsIInv ==
    ASSUME IInv, SenderHears, snd[Head(home).file].pc \in Listening
    PROVE  IInv'
  <1> DEFINE m == Head(home)
             f == m.file
             r == hear(snd[f], m)
  <1>1. /\ home # <<>> /\ home \in Seq(Messages) /\ home' = Tail(home)
    BY DEF SenderHears, IInv, TypeOK
  <1>2. m \in Answers /\ m \in Messages /\ m.index \in Nat
    BY <1>1, Taken, QueuesTyped DEF Answers, IInv
  <1>3. m.type \in {"chunk_ack", "file_abort"} /\ f \in Files
    BY <1>2 DEF IInv, WellFormed
  <1>4. /\ snd[f].pc \in Listening /\ snd' = [snd EXCEPT ![f] = wake(f, r)]
        /\ up' = tellAbort(f, wake(f, r), up)
    BY DEF SenderHears
  <1>5. /\ detached' = detached
        /\ UNCHANGED <<down, back, relay, rcv, rows, sndOpen, rcvOpen>>
    BY DEF SenderHears
  <1>6. snd[f] \in SendRecord /\ snd[f].acked \in Int
    BY <1>3, SendTyped DEF IInv
  <1>7. m.type = "chunk_ack" => m.index > snd[f].acked
    BY <1>2 DEF IInv, AcksRise
  <1> HIDE DEF m, f
  <1>8. CASE m.type = "chunk_ack"
    <2>1. r = [snd[f] EXCEPT !.acked = m.index]
      BY <1>8 DEF hear
    <2>2. /\ r \in SendRecord /\ r.pc = snd[f].pc /\ r.index = snd[f].index
          /\ r.acked = m.index /\ r.aborted = snd[f].aborted
      BY <1>2, <1>6, <2>1 DEF SendRecord
    <2> HIDE DEF r
    <2>3. r.acked \in Int /\ r.acked >= snd[f].acked
      BY <1>2, <1>6, <1>7, <1>8, <2>2
    <2>4. /\ home # <<>> /\ home' = Tail(home) /\ Head(home).file = f
          /\ Head(home).type = "chunk_ack" => r.acked = Head(home).index
          /\ Head(home).type # "file_abort"
      BY <1>1, <1>8, <2>2 DEF m, f
    <2> QED
      BY <1>3, <1>4, <1>5, <2>2, <2>3, <2>4, EventIInv
  <1>9. CASE m.type = "file_abort"
    <2>1. PICK a \in {"limit", "remote"} : r = [snd[f] EXCEPT !.aborted = a]
      BY <1>9 DEF hear
    <2>2. /\ r \in SendRecord /\ r.pc = snd[f].pc /\ r.index = snd[f].index
          /\ r.acked = snd[f].acked /\ r.aborted # "no"
      BY <1>6, <2>1 DEF SendRecord
    <2> HIDE DEF r
    <2>3. r.acked \in Int /\ r.acked >= snd[f].acked
      BY <1>6, <2>2
    <2>4. /\ home # <<>> /\ home' = Tail(home) /\ Head(home).file = f
          /\ Head(home).type # "chunk_ack"
      BY <1>1, <1>9 DEF m, f
    <2> QED
      BY <1>3, <1>4, <1>5, <2>2, <2>3, <2>4, EventIInv
  <1> QED
    BY <1>3, <1>8, <1>9

LEMMA CancelIInv ==
    ASSUME IInv, NEW f \in Files, CancelSend(f), snd[f].pc \in Listening
    PROVE  IInv'
  <1> DEFINE r == [snd[f] EXCEPT !.clicked = TRUE, !.aborted = "local"]
  <1>1. /\ snd' = [snd EXCEPT ![f] = wake(f, r)]
        /\ up' = tellAbort(f, wake(f, r), up)
    BY DEF CancelSend, Listening, Waiting
  <1>2. /\ detached' = detached /\ home' = home
        /\ UNCHANGED <<down, back, relay, rcv, rows, sndOpen, rcvOpen>>
    BY DEF CancelSend
  <1>3. snd[f] \in SendRecord /\ snd[f].acked \in Int
    BY SendTyped DEF IInv
  <1>4. /\ r \in SendRecord /\ r.pc = snd[f].pc /\ r.index = snd[f].index
        /\ r.acked = snd[f].acked /\ r.aborted # "no"
    BY <1>3 DEF SendRecord
  <1> HIDE DEF r
  <1>5. r.acked \in Int /\ r.acked >= snd[f].acked
    BY <1>3, <1>4
  <1> QED
    BY <1>1, <1>2, <1>4, <1>5, EventIInv

-----------------------------------------------------------------------------
(* Steps that only lose or take away *)

Prefix(p, q) ==
    /\ p \in Seq(Messages) /\ Len(p) \in 0..Len(q) /\ Len(q) \in Nat
    /\ \A i \in 1..Len(p) : i \in 1..Len(q) /\ p[i] = q[i]
    /\ Elems(p) \subseteq Elems(q)

(* Where the send of g stands before and after.                            *)
StaysOrEnds(g) ==
    \/ snd'[g].pc = snd[g].pc
    \/ {snd'[g].pc, snd[g].pc} \subseteq {"queued", "meta"}
    \/ /\ snd[g].pc \in Listening /\ snd'[g].pc \in Listening \cup Settled
       /\ Justified(g, snd'[g])

QuietStep ==
    /\ snd' \in [Files -> SendRecord]
    /\ \A g \in Files : SameData(snd'[g], snd[g]) /\ StaysOrEnds(g)
    /\ InTurn'
    /\ Prefix(up', up) /\ Prefix(down', down)
    /\ \/ up' = up /\ sndOpen' = sndOpen
       \/ ~sndOpen' /\ sndOpen' \in BOOLEAN
    /\ \/ home' = home /\ sndOpen' = sndOpen
       \/ home' = <<>> /\ ~sndOpen'
       \/ /\ home # <<>> /\ home' = Tail(home) /\ sndOpen' = sndOpen
          /\ snd[Head(home).file].pc \in Settled
    /\ rcv' \in ReceiverRecord
    /\ rcv'.pc = rcv.pc /\ rcv'.msg = rcv.msg
    /\ rcv'.current = rcv.current /\ rcv'.expected = rcv.expected
    /\ detached' \in BOOLEAN
    /\ UNCHANGED <<back, relay, rows, rcvOpen>>

LEMMA PrefixOfSelf ==
    ASSUME NEW q \in Seq(Messages)
    PROVE  Prefix(q, q)
  BY DEF Prefix

LEMMA PrefixCut ==
    ASSUME NEW q \in Seq(Messages), NEW c \in cut(q)
    PROVE  Prefix(c, q)
  BY CutOff DEF Prefix

LEMMA QuietFacts ==
    ASSUME IInv, QuietStep
    PROVE  /\ \A g \in Files :
                 /\ snd'[g].index = snd[g].index /\ snd'[g].acked = snd[g].acked
                 /\ snd'[g].aborted = snd[g].aborted
                 /\ Begun(g) <=> snd'[g].pc \notin {"queued", "meta"}
                 /\ snd[g].pc \in Settled => snd'[g].pc \in Settled
                 /\ snd'[g].pc \in Listening => snd[g].pc \in Listening
                 /\ snd'[g].pc \in {"reading", "sent"} =>
                       snd'[g].pc = snd[g].pc \/ Justified(g, snd'[g])
           /\ Elems(up') \subseteq Elems(up) /\ Elems(down') \subseteq Elems(down)
           /\ Sent' \subseteq Sent /\ Answers' \subseteq Answers
           /\ home' \in Seq(Messages) /\ Elems(home') \subseteq Elems(home)
  <1>1. ASSUME NEW g \in Files
        PROVE  /\ snd'[g].index = snd[g].index /\ snd'[g].acked = snd[g].acked
               /\ snd'[g].aborted = snd[g].aborted
               /\ Begun(g) <=> snd'[g].pc \notin {"queued", "meta"}
               /\ snd[g].pc \in Settled => snd'[g].pc \in Settled
               /\ snd'[g].pc \in Listening => snd[g].pc \in Listening
               /\ snd'[g].pc \in {"reading", "sent"} =>
                     snd'[g].pc = snd[g].pc \/ Justified(g, snd'[g])
    <2>1. SameData(snd'[g], snd[g]) /\ StaysOrEnds(g)
      BY DEF QuietStep
    <2> QED
      BY <2>1 DEF SameData, StaysOrEnds, Begun, Listening, Waiting, Settled
  <1>2. Elems(up') \subseteq Elems(up) /\ Elems(down') \subseteq Elems(down)
    BY DEF QuietStep, Prefix
  <1>3. Sent' \subseteq Sent
    BY <1>2 DEF Sent
  <1>4. home' \in Seq(Messages) /\ Elems(home') \subseteq Elems(home)
    <2>1. home \in Seq(Messages)
      BY DEF IInv, TypeOK
    <2>2. CASE home' = <<>>
      BY <2>2 DEF Elems
    <2>3. CASE home' = home
      BY <2>1, <2>3
    <2>4. CASE home # <<>> /\ home' = Tail(home)
      BY <2>1, <2>4, Taken
    <2> QED
      BY <2>2, <2>3, <2>4 DEF QuietStep
  <1>5. Answers' \subseteq Answers
    BY <1>4 DEF Answers, QuietStep
  <1> QED
    BY <1>1, <1>2, <1>3, <1>4, <1>5

LEMMA QuietOrder ==
    ASSUME IInv, QuietStep
    PROVE  TypeOK' /\ WellFormed' /\ InTurn' /\ SenderAhead' /\ InOrder'
  <1> USE DEF IInv
  <1>0. /\ \A g \in Files :
             /\ snd'[g].index = snd[g].index
             /\ Begun(g) <=> snd'[g].pc \notin {"queued", "meta"}
             /\ snd'[g].pc \in Listening => snd[g].pc \in Listening
        /\ Elems(up') \subseteq Elems(up) /\ Elems(down') \subseteq Elems(down)
        /\ Sent' \subseteq Sent /\ Answers' \subseteq Answers
        /\ home' \in Seq(Messages)
    BY QuietFacts
  <1>1. /\ Prefix(up', up) /\ Prefix(down', down)
        /\ UNCHANGED <<back, relay, rows, rcvOpen>>
        /\ rcv'.pc = rcv.pc /\ rcv'.msg = rcv.msg /\ rcv' \in ReceiverRecord
        /\ snd' \in [Files -> SendRecord] /\ detached' \in BOOLEAN
        /\ sndOpen' \in BOOLEAN /\ InTurn'
    BY DEF QuietStep, TypeOK
  <1>2. TypeOK'
    BY <1>0, <1>1 DEF TypeOK, Prefix
  <1>3. WellFormed'
    <2>1. relay.abort \in Files \cup {NoFile}
      BY DEF TypeOK, RelayRecord
    <2> QED
      BY <1>0, <1>1, <2>1 DEF WellFormed, Begun
  <1>4. SenderAhead'
    <2>1. \A m \in Sent : m.file \in Files
      BY DEF WellFormed, Sent
    <2> QED
      BY <1>0, <2>1 DEF SenderAhead, Begun
  <1>5. InOrder'
    <2>1. Ordered(up') /\ Ordered(down')
      BY <1>1 DEF InOrder, Ordered, Prefix
    <2>2. \A i \in 1..Len(down'), j \in 1..Len(up') :
             ~down'[i].limit => Before(down'[i], up'[j])
      BY <1>1 DEF InOrder, Prefix
    <2> QED
      BY <1>0, <1>1, <2>1, <2>2 DEF InOrder
  <1> QED
    BY <1>1, <1>2, <1>3, <1>4, <1>5

LEMMA QuietReceiver ==
    ASSUME IInv, QuietStep
    PROVE  /\ ChainStep' /\ Current' /\ Announced' /\ WrittenInOrder'
           /\ SavedWhole' /\ WithinLimit'
  <1> USE DEF IInv
  <1>0. /\ \A g \in Files :
             /\ snd'[g].index = snd[g].index
             /\ Begun(g) <=> snd'[g].pc \notin {"queued", "meta"}
             /\ snd[g].pc \in Settled => snd'[g].pc \in Settled
        /\ Elems(down') \subseteq Elems(down) /\ Sent' \subseteq Sent
    BY QuietFacts
  <1>1. /\ UNCHANGED rows /\ rcv'.pc = rcv.pc /\ rcv'.msg = rcv.msg
        /\ rcv'.current = rcv.current /\ rcv'.expected = rcv.expected
        /\ Busy' = Busy
    BY DEF QuietStep, Busy
  <1>2. rcv.current \in Files \cup {NoFile}
    BY DEF TypeOK, ReceiverRecord
  <1>3. ChainStep'
    <2>1. Busy => rcv.msg.file \in Files /\ rcv.pc # "idle"
      BY DEF ChainStep, Busy
    <2> QED
      BY <1>0, <1>1, <2>1 DEF ChainStep, Begun
  <1>4. Current'
    <2> SUFFICES ASSUME rcv.current # NoFile PROVE Current'
      BY <1>1 DEF Current
    <2>1. rcv.current \in Files
      BY <1>2
    <2>2. Missed(rcv.current) => Missed(rcv.current)'
      BY <1>0, <1>1, <2>1 DEF Missed
    <2> QED
      BY <1>0, <1>1, <2>1, <2>2 DEF Current, Begun
  <1>5. Announced'
    <2>1. \A g : Unknown(g)' <=> Unknown(g)
      BY <1>1 DEF Unknown
    <2> QED
      BY <1>0, <2>1 DEF Announced, Begun
  <1>6. WrittenInOrder' /\ SavedWhole'
    BY <1>1 DEF WrittenInOrder, SavedWhole
  <1>7. WithinLimit'
    <2>1. \A j \in 1..Len(down') : down'[j].type = "chunk" =>
             frameBytes(down'[j].file, down'[j].index) <= MaxFileSize
      BY DEF QuietStep, Prefix, WithinLimit, LimitEnforced
    <2> QED
      BY <1>1, <2>1 DEF WithinLimit, LimitEnforced
  <1> QED
    BY <1>3, <1>4, <1>5, <1>6, <1>7

(* Told, CountedTo and Continues of the next state.                        *)
ToldNext(g) == snd'[g].aborted # "no" \/ snd'[g].pc \in Settled

CountedToNext(f, i) ==
    \/ i = 0 /\ relay'.file # f
    \/ relay'.file = f /\ (relay'.blocked \/ relay'.bytes = frameBytes(f, i))

ContinuesNext(n, f, i) ==
    \/ \E k \in 1..n : isChunk(up'[k], f, i - 1)
    \/ /\ CountedToNext(f, i)
       /\ \A k \in 1..n : ~(up'[k].type = "chunk" /\ up'[k].file = f)

LEMMA QuietAcks ==
    ASSUME IInv, QuietStep
    PROVE  AckOfWrite' /\ AcksRise' /\ Window'
  <1> USE DEF IInv
  <1>0. /\ \A g \in Files :
             /\ snd'[g].index = snd[g].index /\ snd'[g].acked = snd[g].acked
             /\ snd'[g].aborted = snd[g].aborted
             /\ Begun(g) <=> snd'[g].pc \notin {"queued", "meta"}
             /\ snd[g].pc \in Settled => snd'[g].pc \in Settled
             /\ snd'[g].pc \in {"reading", "sent"} =>
                   snd'[g].pc = snd[g].pc \/ Justified(g, snd'[g])
        /\ Sent' \subseteq Sent /\ Answers' \subseteq Answers
    BY QuietFacts
  <1>1. /\ UNCHANGED <<back, rows, rcvOpen>>
        /\ rcv'.pc = rcv.pc /\ rcv'.msg = rcv.msg
        /\ rcv'.current = rcv.current /\ Busy' = Busy
    BY DEF QuietStep, Busy
  <1>2. home \in Seq(Messages) /\ Len(home) \in Nat
    BY DEF TypeOK
  <1>3. \A m \in Answers \cup Sent : m.file \in Files
    BY DEF WellFormed, Sent
  <1>4. Busy => rcv.msg.file \in Files
    BY DEF ChainStep, Busy
  <1>5. \A g \in Files : Told(g) => ToldNext(g)
    BY <1>0 DEF Told, ToldNext
  <1>6. Window'
    BY <1>0 DEF Window, Begun, Justified
  <1>7. \A g \in Files :
          /\ snd'[g].aborted = "no" => snd'[g].acked < Len(rows[g].written)
          /\ snd'[g].pc = "sent" =>
                snd'[g].aborted = "no" /\ snd'[g].acked >= totalChunks(g) - 1
    BY <1>0 DEF AckOfWrite, Justified
  <1>8. /\ \A i, j \in 1..Len(home') : i < j => Rising(home'[i], home'[j])
        /\ \A i \in 1..Len(home'), j \in 1..Len(back) : Rising(home'[i], back[j])
    <2>1. CASE home' = home
      BY <2>1 DEF AcksRise
    <2>2. CASE home' = <<>>
      BY <2>2
    <2>3. CASE home # <<>> /\ home' = Tail(home)
      <3>1. \A i \in 1..Len(home') : i + 1 \in 1..Len(home)
                                     /\ home'[i] = home[i + 1]
        BY <1>2, <2>3, Taken
      <3>2. \A i, j \in 1..Len(home') : i < j => i + 1 < j + 1
        OBVIOUS
      <3> QED
        BY <3>1, <3>2 DEF AcksRise
    <2> QED
      BY <2>1, <2>2, <2>3 DEF QuietStep
  <1>9. AcksRise'
    <2>1. \A a \in Answers' : a.type = "chunk_ack" =>
             a.index > snd'[a.file].acked /\ a.index < snd'[a.file].index
      BY <1>0, <1>3 DEF AcksRise
    <2>2. \A m \in Sent' : m.type = "chunk" => m.index > snd'[m.file].acked
      BY <1>0, <1>3 DEF AcksRise
    <2>3. Busy => rcv.msg.index > snd'[rcv.msg.file].acked
      BY <1>0, <1>4 DEF AcksRise
    <2>4. \A a \in Answers' : a.type = "chunk_ack" =>
            /\ \A m \in Sent' :
                  m.type = "chunk" /\ m.file = a.file => a.index < m.index
            /\ Busy /\ rcv.msg.file = a.file => a.index < rcv.msg.index
      BY <1>0 DEF AcksRise
    <2> QED
      BY <1>1, <1>8, <2>1, <2>2, <2>3, <2>4 DEF AcksRise
  <1>10. CASE home' = home /\ sndOpen' = sndOpen
    <2>1. /\ \A j \in 1..Len(home) : home[j].file \in Files
          /\ \A j \in 1..Len(back) : back[j].file \in Files
      BY <1>3 DEF Answers, Elems
    <2>2. /\ ~sndOpen => home = <<>>
          /\ \A j \in 1..Len(home) : home[j].type = "chunk_ack" =>
                \/ home[j].index < Len(rows[home[j].file].written)
                \/ ToldNext(home[j].file)
                \/ AbortIn(home, j - 1, home[j].file)
          /\ sndOpen => \A j \in 1..Len(back) : back[j].type = "chunk_ack" =>
                \/ back[j].index < Len(rows[back[j].file].written)
                \/ ToldNext(back[j].file)
                \/ AbortIn(back, j - 1, back[j].file)
                \/ AbortIn(home, Len(home), back[j].file)
          /\ sndOpen /\ rcvOpen /\ Busy /\ rcv.current = NoFile =>
                \/ ToldNext(rcv.msg.file)
                \/ AbortIn(back, Len(back), rcv.msg.file)
                \/ AbortIn(home, Len(home), rcv.msg.file)
      BY <1>4, <1>5, <2>1 DEF AckOfWrite
    <2>3. AckOfWrite'
      BY <1>1, <1>7, <1>10, <2>2 DEF AckOfWrite, AbortIn, Told, ToldNext
    <2> QED
      BY <1>6, <1>9, <2>3
  <1>11. CASE home' = <<>> /\ ~sndOpen'
    BY <1>1, <1>6, <1>7, <1>9, <1>11 DEF AckOfWrite
  <1>12. CASE /\ home # <<>> /\ home' = Tail(home) /\ sndOpen' = sndOpen
              /\ snd[Head(home).file].pc \in Settled
    <2>1. /\ \A i \in 1..Len(home') : i + 1 \in 1..Len(home)
                                      /\ home'[i] = home[i + 1]
          /\ \A i \in 1..Len(home) : i = 1 \/ i - 1 \in 1..Len(home')
          /\ Len(home') = Len(home) - 1 /\ Head(home) = home[1]
      BY <1>2, <1>12, Taken
    <2>2. /\ \A j \in 1..Len(home) : home[j].file \in Files
          /\ \A j \in 1..Len(back) : back[j].file \in Files
      BY <1>3 DEF Answers, Elems
    <2>3. ASSUME NEW n \in 0..Len(home), NEW g \in Files, AbortIn(home, n, g)
          PROVE  ToldNext(g) \/ \E i \in 1..(n - 1) : isAbort(home'[i], g)
      <3>1. PICK i \in 1..n : isAbort(home[i], g)
        BY <2>3 DEF AbortIn
      <3>2. CASE i = 1
        BY <1>0, <1>12, <2>1, <3>1, <3>2 DEF isAbort, ToldNext
      <3>3. CASE i # 1
        <4>1. i - 1 \in 1..(n - 1) /\ i - 1 \in 1..Len(home') /\ (i - 1) + 1 = i
          BY <1>2, <2>1, <3>3
        <4>2. home'[i - 1] = home[i]
          BY <2>1, <4>1
        <4> QED
          BY <3>1, <4>1, <4>2
      <3> QED
        BY <3>2, <3>3
    <2>4. sndOpen
      BY <1>12 DEF AckOfWrite
    <2>5. ASSUME NEW j \in 1..Len(home'), home'[j].type = "chunk_ack"
          PROVE  \/ home'[j].index < Len(rows[home'[j].file].written)
                 \/ ToldNext(home'[j].file)
                 \/ \E i \in 1..(j - 1) : isAbort(home'[i], home'[j].file)
      <3>1. /\ j + 1 \in 1..Len(home) /\ home'[j] = home[j + 1]
            /\ (j + 1) - 1 = j /\ j \in 0..Len(home)
        BY <1>2, <2>1
      <3>2. \/ home[j + 1].index < Len(rows[home[j + 1].file].written)
            \/ Told(home[j + 1].file)
            \/ AbortIn(home, j, home[j + 1].file)
        BY <2>5, <3>1 DEF AckOfWrite
      <3>3. home'[j].file \in Files
        BY <2>2, <3>1
      <3> QED
        BY <1>5, <2>3, <3>1, <3>2, <3>3
    <2>6. ASSUME NEW g \in Files, AbortIn(home, Len(home), g)
          PROVE  ToldNext(g) \/ \E i \in 1..Len(home') : isAbort(home'[i], g)
      BY <1>2, <2>1, <2>3, <2>6
    <2>7. ASSUME NEW j \in 1..Len(back), back[j].type = "chunk_ack"
          PROVE  \/ back[j].index < Len(rows[back[j].file].written)
                 \/ ToldNext(back[j].file)
                 \/ AbortIn(back, j - 1, back[j].file)
                 \/ \E i \in 1..Len(home') : isAbort(home'[i], back[j].file)
      BY <1>5, <2>2, <2>4, <2>6, <2>7 DEF AckOfWrite
    <2>8. rcvOpen /\ Busy /\ rcv.current = NoFile =>
             \/ ToldNext(rcv.msg.file)
             \/ AbortIn(back, Len(back), rcv.msg.file)
             \/ \E i \in 1..Len(home') : isAbort(home'[i], rcv.msg.file)
      BY <1>4, <1>5, <2>4, <2>6 DEF AckOfWrite
    <2>9. AckOfWrite'
      BY <1>1, <1>7, <1>12, <2>4, <2>5, <2>7, <2>8
         DEF AckOfWrite, AbortIn, Told, ToldNext
    <2> QED
      BY <1>6, <1>9, <2>9
  <1> QED
    BY <1>10, <1>11, <1>12 DEF QuietStep

LEMMA QuietCount ==
    ASSUME IInv, QuietStep
    PROVE  Counting'
  <1> USE DEF IInv
  <1>0. /\ \A g \in Files :
             /\ snd'[g].index = snd[g].index
             /\ Begun(g) <=> snd'[g].pc \notin {"queued", "meta"}
             /\ snd'[g].pc \in Listening => snd[g].pc \in Listening
        /\ Elems(up') \subseteq Elems(up)
    BY QuietFacts
  <1>1. /\ relay' = relay /\ Prefix(up', up)
        /\ (up' = up /\ sndOpen' = sndOpen) \/ ~sndOpen'
    BY DEF QuietStep
  <1>2. relay.file \in Files \cup {NoFile}
    BY DEF TypeOK, RelayRecord
  <1>3. relay.file # NoFile =>
          /\ snd'[relay.file].pc \notin {"queued", "meta"}
          /\ \A m \in Elems(up') : m.file >= relay.file
    BY <1>0, <1>2 DEF Counting
  <1>4. ASSUME NEW n \in 0..Len(up'), NEW g, NEW i, Continues(n, g, i)
        PROVE  ContinuesNext(n, g, i)
    <2>1. \A k \in 1..n : up'[k] = up[k]
      BY <1>1 DEF Prefix
    <2> QED
      BY <1>1, <1>4, <2>1 DEF Continues, CountedTo, ContinuesNext, CountedToNext
  <1>5. ASSUME NEW j \in 1..Len(up'), up'[j].type = "chunk"
        PROVE  ContinuesNext(j - 1, up'[j].file, up'[j].index)
    <2>1. /\ j \in 1..Len(up) /\ up'[j] = up[j] /\ j - 1 \in 0..Len(up')
      BY <1>1 DEF Prefix
    <2>2. Continues(j - 1, up[j].file, up[j].index)
      BY <1>5, <2>1 DEF Counting
    <2> QED
      BY <1>4, <2>1, <2>2
  <1>6. ASSUME sndOpen', NEW g \in Files, snd'[g].pc \in Listening
        PROVE  \/ snd'[g].index = totalChunks(g)
               \/ ContinuesNext(Len(up'), g, snd'[g].index)
    <2>1. Len(up') \in 0..Len(up')
      BY <1>1 DEF Prefix
    <2>2. \/ snd'[g].index = totalChunks(g)
          \/ Continues(Len(up'), g, snd'[g].index)
      BY <1>0, <1>1, <1>6 DEF Counting
    <2> QED
      BY <1>4, <2>1, <2>2
  <1>10. /\ relay.file = NoFile => relay.bytes = 0 /\ ~relay.blocked
         /\ ~relay.blocked => relay.bytes <= MaxFileSize
    BY DEF Counting
  <1> QED
    BY <1>1, <1>3, <1>5, <1>6, <1>10
       DEF Counting, Begun, Continues, CountedTo, ContinuesNext, CountedToNext

LEMMA QuietIInv ==
    ASSUME IInv, QuietStep
    PROVE  IInv'
  BY QuietOrder, QuietReceiver, QuietAcks, QuietCount DEF IInv

LEMMA QuietFrame ==
    ASSUME IInv
    PROVE  /\ up \in Seq(Messages) /\ down \in Seq(Messages)
           /\ Prefix(up, up) /\ Prefix(down, down)
           /\ rcv \in ReceiverRecord /\ detached \in BOOLEAN
           /\ sndOpen \in BOOLEAN /\ snd \in [Files -> SendRecord]
           /\ \A g \in Files : SameData(snd[g], snd[g])
  <1>1. /\ up \in Seq(Messages) /\ down \in Seq(Messages)
        /\ rcv \in ReceiverRecord /\ detached \in BOOLEAN
        /\ sndOpen \in BOOLEAN /\ snd \in [Files -> SendRecord]
    BY DEF IInv, TypeOK
  <1> QED
    BY <1>1, PrefixOfSelf DEF SameData

(* A send that has not begun: only its screen knows of it.                 *)
LEMMA StartIInv ==
    ASSUME IInv, NEW f \in Files, NEW s \in SendRecord,
           snd[f].pc \in {"queued", "meta"}, s.pc \in {"queued", "meta"},
           SameData(s, snd[f]), snd' = [snd EXCEPT ![f] = s],
           s.pc # "queued" =>
              \A g \in Files : g < f => snd[g].pc \in Settled,
           UNCHANGED <<detached, wires, relay, rcv, rows, sndOpen, rcvOpen>>
    PROVE  IInv'
  <1>1. /\ snd' \in [Files -> SendRecord] /\ snd'[f] = s
        /\ \A g \in Files : g # f => snd'[g] = snd[g]
    BY QuietFrame
  <1>2. UNCHANGED <<detached, up, down, back, home, relay, rcv, rows, sndOpen, rcvOpen>>
    BY DEF wires
  <1>3. \A g \in Files : SameData(snd'[g], snd[g]) /\ StaysOrEnds(g)
    BY <1>1, QuietFrame DEF StaysOrEnds
  <1>4. InTurn'
    <2> SUFFICES ASSUME NEW h \in Files, NEW g \in Files, g < h,
                        snd'[h].pc # "queued"
                 PROVE  snd'[g].pc \in Settled
      BY DEF InTurn
    <2>1. snd[f].pc \notin Settled
      BY DEF Settled
    <2>2. CASE h = f
      <3>1. snd[g].pc \in Settled
        BY <1>1, <2>2
      <3> QED
        BY <1>1, <2>1, <3>1
    <2>3. CASE h # f
      <3>1. snd[g].pc \in Settled
        BY <1>1, <2>3 DEF IInv, InTurn
      <3> QED
        BY <1>1, <2>1, <3>1
    <2> QED
      BY <2>2, <2>3
  <1>5. Prefix(up', up) /\ Prefix(down', down) /\ rcv' \in ReceiverRecord
        /\ detached' \in BOOLEAN
    BY <1>2, QuietFrame
  <1>6. QuietStep
    BY <1>1, <1>2, <1>3, <1>4, <1>5 DEF QuietStep
  <1> QED
    BY <1>6, QuietIInv

LEMMA StartFileIInv ==
    ASSUME IInv, NEW f \in Files, StartFile(f)
    PROVE  IInv'
  <1> DEFINE s == [snd[f] EXCEPT !.pc = "meta"]
  <1>1. snd[f] \in SendRecord
    BY SendTyped DEF IInv
  <1>2. s \in SendRecord /\ s.pc = "meta" /\ SameData(s, snd[f])
    BY <1>1 DEF SendRecord, SameData
  <1>3. snd' = [snd EXCEPT ![f] = s] /\ snd[f].pc = "queued"
        /\ UNCHANGED <<detached, wires, relay, rcv, rows, sndOpen, rcvOpen>>
    BY DEF StartFile
  <1> HIDE DEF s
  <1>4. \A g \in Files : g < f => snd[g].pc \in Settled
    <2>1. \A g \in Files : g < f => g \in 1..(f - 1)
      BY TransferAssumption DEF TransferAssumption, Files
    <2> QED
      BY <2>1 DEF StartFile
  <1> QED
    BY <1>2, <1>3, <1>4, StartIInv

LEMMA ClickIInv ==
    ASSUME IInv, NEW f \in Files, CancelSend(f), snd[f].pc \notin Listening
    PROVE  IInv'
  <1> DEFINE s == [snd[f] EXCEPT !.clicked = TRUE]
  <1>1. snd[f] \in SendRecord
    BY SendTyped DEF IInv
  <1>2. s \in SendRecord /\ s.pc = snd[f].pc /\ SameData(s, snd[f])
    BY <1>1 DEF SendRecord, SameData
  <1>3. snd' = [snd EXCEPT ![f] = s] /\ snd[f].pc = "meta"
        /\ UNCHANGED <<detached, wires, relay, rcv, rows, sndOpen, rcvOpen>>
    BY DEF CancelSend, wires
  <1> HIDE DEF s
  <1>4. \A g \in Files : g < f => snd[g].pc \in Settled
    BY <1>3 DEF IInv, InTurn
  <1> QED
    BY <1>2, <1>3, <1>4, StartIInv

LEMMA DeafIInv ==
    ASSUME IInv, SenderHears, snd[Head(home).file].pc \notin Listening
    PROVE  IInv'
  <1> DEFINE f == Head(home).file
  <1>1. /\ home # <<>> /\ home' = Tail(home) /\ UNCHANGED <<snd, up>>
        /\ UNCHANGED <<detached, down, back, relay, rcv, rows, sndOpen, rcvOpen>>
    BY DEF SenderHears
  <1>2. f \in Files /\ Begun(f)
    <2>1. Head(home) \in Answers
      BY <1>1, Taken DEF Answers, IInv, TypeOK
    <2> QED
      BY <2>1 DEF IInv, WellFormed
  <1>3. snd[f].pc \in Settled
    <2>1. snd[f].pc \in {"queued", "meta"} \cup Listening \cup Settled
      BY <1>2, SendTyped DEF IInv, SendRecord
    <2> QED
      BY <1>2, <2>1 DEF Begun
  <1>4. \A g \in Files : SameData(snd'[g], snd[g]) /\ StaysOrEnds(g)
    BY <1>1, QuietFrame DEF StaysOrEnds
  <1>5. /\ Prefix(up', up) /\ Prefix(down', down) /\ rcv' \in ReceiverRecord
        /\ detached' \in BOOLEAN /\ snd' \in [Files -> SendRecord]
    BY <1>1, QuietFrame
  <1>6. InTurn'
    BY <1>1 DEF IInv, InTurn
  <1>7. QuietStep
    BY <1>1, <1>3, <1>4, <1>5, <1>6 DEF QuietStep
  <1> QED
    BY <1>7, QuietIInv

LEMMA SenderDropsIInv ==
    ASSUME IInv, SenderDrops
    PROVE  IInv'
  <1>1. ASSUME NEW g \in Files
        PROVE  /\ snd'[g] \in SendRecord /\ SameData(snd'[g], snd[g])
               /\ StaysOrEnds(g) /\ (snd[g].pc \notin Listening => snd'[g] = snd[g])
    <2>0. snd[g] \in SendRecord
      BY SendTyped DEF IInv
    <2>1. CASE snd[g].pc \in Listening
      <3> DEFINE r == [snd[g] EXCEPT !.lost = TRUE]
      <3>1. /\ r \in SendRecord /\ r.pc = snd[g].pc /\ r.index = snd[g].index
            /\ r.acked = snd[g].acked /\ r.aborted = snd[g].aborted
        BY <2>0 DEF SendRecord
      <3>2. snd'[g] = wake(g, r)
        BY <2>1 DEF SenderDrops
      <3> HIDE DEF r
      <3>3. r.pc = "reading" => Justified(g, r)
        BY <3>1 DEF IInv, Window, Justified
      <3>4. /\ snd'[g] \in SendRecord /\ SameData(snd'[g], r)
            /\ Justified(g, snd'[g]) /\ snd'[g].pc \in Listening \cup Settled
        BY <2>1, <3>1, <3>2, <3>3, Wakes
      <3> QED
        BY <2>1, <3>1, <3>4 DEF SameData, StaysOrEnds
    <2>2. CASE snd[g].pc \notin Listening
      <3>1. snd'[g] = snd[g]
        BY <2>2 DEF SenderDrops
      <3> QED
        BY <2>0, <2>2, <3>1 DEF SameData, StaysOrEnds
    <2> QED
      BY <2>1, <2>2
  <1>2. snd' \in [Files -> SendRecord]
    <2>1. snd' = [g \in Files |-> snd'[g]]
      BY DEF SenderDrops
    <2> QED
      BY <1>1, <2>1
  <1>3. InTurn'
    <2> SUFFICES ASSUME NEW h \in Files, NEW g \in Files, g < h,
                        snd'[h].pc # "queued"
                 PROVE  snd'[g].pc \in Settled
      BY DEF InTurn
    <2>1. snd[h].pc # "queued"
      BY <1>1 DEF Listening, Waiting
    <2>2. snd[g].pc \in Settled
      BY <2>1 DEF IInv, InTurn
    <2> QED
      BY <1>1, <2>2 DEF Listening, Waiting, Settled
  <1>4. /\ ~sndOpen' /\ sndOpen' \in BOOLEAN /\ home' = <<>>
        /\ UNCHANGED <<detached, down, back, relay, rcv, rows, rcvOpen>>
        /\ up' \in cut(up)
    BY DEF SenderDrops
  <1>5. /\ Prefix(up', up) /\ Prefix(down', down) /\ rcv' \in ReceiverRecord
        /\ detached' \in BOOLEAN
    BY <1>4, QuietFrame, PrefixCut
  <1>6. QuietStep
    BY <1>1, <1>2, <1>3, <1>4, <1>5 DEF QuietStep
  <1> QED
    BY <1>6, QuietIInv

LEMMA DetachIInv ==
    ASSUME IInv, SenderDetach \/ ReceiverDetach
    PROVE  IInv'
  <1>1. /\ UNCHANGED <<snd, up, back, home, relay, rows, sndOpen, rcvOpen>>
        /\ detached' \in {detached, TRUE}
        /\ down' = down \/ down' \in cut(down)
        /\ rcv' = rcv \/ rcv' = [rcv EXCEPT !.attached = FALSE]
    BY DEF SenderDetach, ReceiverDetach, wires
  <1>2. /\ rcv' \in ReceiverRecord
        /\ rcv'.pc = rcv.pc /\ rcv'.msg = rcv.msg
        /\ rcv'.current = rcv.current /\ rcv'.expected = rcv.expected
    BY <1>1, QuietFrame DEF ReceiverRecord
  <1>3. /\ Prefix(up', up) /\ Prefix(down', down)
        /\ detached' \in BOOLEAN /\ snd' \in [Files -> SendRecord]
    BY <1>1, QuietFrame, PrefixCut
  <1>4. InTurn'
    BY <1>1 DEF IInv, InTurn
  <1>5. \A g \in Files : SameData(snd'[g], snd[g]) /\ StaysOrEnds(g)
    BY <1>1, QuietFrame DEF StaysOrEnds
  <1>6. QuietStep
    BY <1>1, <1>2, <1>3, <1>4, <1>5 DEF QuietStep
  <1> QED
    BY <1>6, QuietIInv

-----------------------------------------------------------------------------
(* The relay *)

(* What depends on the sender's and the receiver's variables only.         *)
LEMMA RelayFrame ==
    ASSUME IInv, UNCHANGED <<snd, detached, rcv, rows, sndOpen, rcvOpen>>,
           Sent' \subseteq Sent
    PROVE  /\ InTurn' /\ SenderAhead' /\ ChainStep' /\ Current' /\ Announced'
           /\ WrittenInOrder' /\ SavedWhole' /\ Window' /\ Busy' = Busy
           /\ \A g \in Files : Told(g)' <=> Told(g)
           /\ rcv.pc # "idle" => \A m \in Sent' : Before(rcv'.msg, m)
  <1> USE DEF IInv
  <1>1. InTurn' /\ Window' /\ WrittenInOrder' /\ SavedWhole' /\ Busy' = Busy
    BY DEF InTurn, Window, WrittenInOrder, SavedWhole, Busy, Begun
  <1>2. SenderAhead' /\ ChainStep'
    BY DEF SenderAhead, ChainStep, Busy, Begun
  <1>3. Current'
    BY DEF Current, Missed, Begun
  <1>4. Announced'
    BY DEF Announced, Unknown, Begun
  <1>5. \A g \in Files : Told(g)' <=> Told(g)
    BY DEF Told
  <1>6. rcv.pc # "idle" => \A m \in Sent' : Before(rcv'.msg, m)
    BY DEF InOrder
  <1> QED
    BY <1>1, <1>2, <1>3, <1>4, <1>5, <1>6

LEMMA RelayAbortIInv ==
    ASSUME IInv, RelayAbort
    PROVE  IInv'
  <1> USE DEF IInv
  <1> DEFINE f == relay.abort
             e == [message("file_abort", f) EXCEPT !.limit = TRUE]
  <1>1. /\ relay \in RelayRecord /\ down \in Seq(Messages)
        /\ home \in Seq(Messages) /\ Len(home) \in Nat /\ Len(down) \in Nat
        /\ f # NoFile
    BY DEF TypeOK, RelayAbort
  <1>2. f \in Files /\ Begun(f)
    BY <1>1 DEF RelayRecord, WellFormed
  <1>3. PICK m \in Messages : /\ m = e /\ m.type = "file_abort"
                              /\ m.file = f /\ m.limit = TRUE
    <2>1. e \in Messages /\ e.type = "file_abort" /\ e.file = f /\ e.limit = TRUE
      BY <1>2 DEF message, Messages
    <2> HIDE DEF e
    <2> QED
      BY <2>1
  <1>4. /\ UNCHANGED <<snd, detached, up, back, rcv, rows, sndOpen, rcvOpen>>
        /\ relay' = [relay EXCEPT !.abort = NoFile]
        /\ Grown(down, m, down') /\ Grown(home, m, home')
        /\ ~sndOpen => home' = home
    BY <1>3 DEF RelayAbort, deliver, Grown
  <1>5. /\ relay' \in RelayRecord /\ relay'.abort = NoFile
        /\ relay'.file = relay.file /\ relay'.bytes = relay.bytes
        /\ relay'.blocked = relay.blocked
    BY <1>1, <1>4 DEF RelayRecord
  <1> HIDE DEF e, f
  <1>6. /\ down' \in Seq(Messages) /\ Len(down') \in Nat
        /\ Elems(down') \subseteq Elems(down) \cup {m}
        /\ \A i \in 1..Len(down) : down'[i] = down[i]
        /\ \A i \in 1..Len(down') : i \in 1..Len(down) \/ down'[i] = m
    <2>1. Extended(down, m, down')
      BY <1>1, <1>4, Delivered
    <2> QED
      BY <2>1 DEF Extended
  <1>7. /\ home' \in Seq(Messages) /\ Len(home') \in Nat
        /\ Elems(home') \subseteq Elems(home) \cup {m}
        /\ \A i \in 1..Len(home) : i \in 1..Len(home') /\ home'[i] = home[i]
        /\ \A i \in 1..Len(home') : i \in 1..Len(home) \/ home'[i] = m
    <2>1. Extended(home, m, home')
      BY <1>1, <1>4, Delivered
    <2> QED
      BY <2>1 DEF Extended
  <1>8. Sent' \subseteq Sent
    BY <1>3, <1>4, <1>6 DEF Sent
  <1>9. /\ InTurn' /\ SenderAhead' /\ ChainStep' /\ Current' /\ Announced'
        /\ WrittenInOrder' /\ SavedWhole' /\ Window' /\ Busy' = Busy
        /\ rcv.pc # "idle" => \A n \in Sent' : Before(rcv'.msg, n)
    BY <1>4, <1>8, RelayFrame
  <1>10. TypeOK'
    BY <1>4, <1>5, <1>6, <1>7 DEF TypeOK
  <1>11. WellFormed'
    BY <1>2, <1>3, <1>4, <1>5, <1>6, <1>7 DEF WellFormed, Answers, Begun
  <1>12. InOrder'
    <2>1. Ordered(up')
      BY <1>4 DEF InOrder, Ordered
    <2>2. Ordered(down')
      BY <1>3, <1>6 DEF InOrder, Ordered
    <2>3. \A i \in 1..Len(down'), j \in 1..Len(up') :
             ~down'[i].limit => Before(down'[i], up'[j])
      BY <1>3, <1>4, <1>6 DEF InOrder
    <2> QED
      BY <1>4, <1>9, <2>1, <2>2, <2>3 DEF InOrder
  <1>13. AckOfWrite'
    <2>1. ASSUME NEW n \in 0..Len(home), NEW g, AbortIn(home, n, g)
          PROVE  \E i \in 1..n : isAbort(home'[i], g)
      <3>1. \A i \in 1..n : home'[i] = home[i]
        BY <1>1, <1>7
      <3> QED
        BY <2>1, <3>1 DEF AbortIn
    <2>2. ASSUME NEW g, AbortIn(home, Len(home), g)
          PROVE  \E i \in 1..Len(home') : isAbort(home'[i], g)
      BY <1>1, <1>7, <2>1, <2>2
    <2>3. ASSUME NEW j \in 1..Len(home'), home'[j].type = "chunk_ack"
          PROVE  \/ home'[j].index < Len(rows[home'[j].file].written)
                 \/ Told(home'[j].file)
                 \/ \E i \in 1..(j - 1) : isAbort(home'[i], home'[j].file)
      <3>1. j \in 1..Len(home) /\ home'[j] = home[j] /\ j - 1 \in 0..Len(home)
        BY <1>1, <1>3, <1>7, <2>3
      <3> QED
        BY <2>1, <2>3, <3>1 DEF AckOfWrite
    <2>4. /\ ~sndOpen => home' = <<>>
          /\ sndOpen => \A j \in 1..Len(back) : back[j].type = "chunk_ack" =>
                \/ back[j].index < Len(rows[back[j].file].written)
                \/ Told(back[j].file)
                \/ AbortIn(back, j - 1, back[j].file)
                \/ \E i \in 1..Len(home') : isAbort(home'[i], back[j].file)
          /\ sndOpen /\ rcvOpen /\ Busy /\ rcv.current = NoFile =>
                \/ Told(rcv.msg.file)
                \/ AbortIn(back, Len(back), rcv.msg.file)
                \/ \E i \in 1..Len(home') : isAbort(home'[i], rcv.msg.file)
          /\ \A g \in Files :
                /\ snd[g].aborted = "no" => snd[g].acked < Len(rows[g].written)
                /\ snd[g].pc = "sent" =>
                      snd[g].aborted = "no" /\ snd[g].acked >= totalChunks(g) - 1
      BY <1>4, <2>2 DEF AckOfWrite
    <2> QED
      BY <1>4, <1>9, <2>3, <2>4 DEF AckOfWrite, AbortIn, Told
  <1>14. AcksRise'
    <2>1. \A i \in 1..Len(home') : home'[i].type = "chunk_ack" =>
             i \in 1..Len(home) /\ home'[i] = home[i]
      BY <1>3, <1>7
    <2>2. /\ \A i, j \in 1..Len(home') : i < j => Rising(home'[i], home'[j])
          /\ \A i \in 1..Len(home'), j \in 1..Len(back) : Rising(home'[i], back[j])
      BY <2>1 DEF AcksRise, Rising
    <2>3. \A a \in Answers' : a.type = "chunk_ack" => a \in Answers
      BY <1>3, <1>4, <1>7 DEF Answers
    <2> QED
      BY <1>4, <1>8, <1>9, <2>2, <2>3 DEF AcksRise
  <1>15. Counting'
    BY <1>4, <1>5 DEF Counting, Continues, CountedTo, Begun
  <1>16. WithinLimit'
    <2>1. \A j \in 1..Len(down') : down'[j].type = "chunk" =>
             frameBytes(down'[j].file, down'[j].index) <= MaxFileSize
      BY <1>3, <1>6 DEF WithinLimit, LimitEnforced
    <2> QED
      BY <1>4, <1>9, <2>1 DEF WithinLimit, LimitEnforced
  <1> QED
    BY <1>9, <1>10, <1>11, <1>12, <1>13, <1>14, <1>15, <1>16

LEMMA RelayBackIInv ==
    ASSUME IInv, RelayBack
    PROVE  IInv'
  <1> USE DEF IInv
  <1>1. /\ back \in Seq(Messages) /\ home \in Seq(Messages) /\ back # <<>>
        /\ Len(back) \in Nat /\ Len(home) \in Nat /\ sndOpen \in BOOLEAN
    BY DEF TypeOK, RelayBack
  <1>0. PICK m \in Messages : m = Head(back)
    BY <1>1, Taken
  <1>2. /\ UNCHANGED <<snd, detached, up, down, relay, rcv, rows, sndOpen, rcvOpen>>
        /\ back' = Tail(back)
        /\ Grown(home, m, home')
        /\ sndOpen => home' = Append(home, m)
        /\ ~sndOpen => home' = home
    BY <1>0 DEF RelayBack, deliver, Grown
  <1>3. /\ 1 \in 1..Len(back) /\ m = back[1] /\ m \in Elems(back)
        /\ m \in Messages /\ back' \in Seq(Messages)
        /\ Len(back') = Len(back) - 1 /\ Elems(back') \subseteq Elems(back)
        /\ \A i \in 1..Len(back') : i + 1 \in 1..Len(back)
                                    /\ back'[i] = back[i + 1]
        /\ \A i \in 1..Len(back) : i = 1 \/ i - 1 \in 1..Len(back')
    BY <1>0, <1>1, <1>2, Taken
  <1>4. /\ home' \in Seq(Messages) /\ Len(home') \in Nat
        /\ Elems(home') \subseteq Elems(home) \cup {m}
        /\ \A i \in 1..Len(home) : i \in 1..Len(home') /\ home'[i] = home[i]
        /\ \A i \in 1..Len(home') :
              \/ i \in 1..Len(home)
              \/ i = Len(home) + 1 /\ home'[i] = m /\ sndOpen
        /\ sndOpen => Len(home) + 1 \in 1..Len(home') /\ home'[Len(home) + 1] = m
    <2>1. Extended(home, m, home')
      BY <1>1, <1>2, Delivered
    <2> QED
      BY <1>2, <2>1 DEF Extended
  <1>5. Answers' \subseteq Answers
    BY <1>3, <1>4 DEF Answers
  <1>6. Sent' \subseteq Sent
    BY <1>2 DEF Sent
  <1>7. /\ InTurn' /\ SenderAhead' /\ ChainStep' /\ Current' /\ Announced'
        /\ WrittenInOrder' /\ SavedWhole' /\ Window' /\ Busy' = Busy
    BY <1>2, <1>6, RelayFrame
  <1>8. TypeOK'
    BY <1>2, <1>3, <1>4 DEF TypeOK
  <1>9. WellFormed'
    BY <1>2, <1>5 DEF WellFormed, Begun
  <1>10. InOrder'
    BY <1>2 DEF InOrder, Ordered, Sent
  <1>11. AckOfWrite'
    <2>1. ASSUME NEW n \in 0..Len(home), NEW g, AbortIn(home, n, g)
          PROVE  \E i \in 1..n : isAbort(home'[i], g)
      <3>1. \A i \in 1..n : home'[i] = home[i]
        BY <1>1, <1>4
      <3> QED
        BY <2>1, <3>1 DEF AbortIn
    <2>2. ASSUME NEW g, AbortIn(home, Len(home), g)
          PROVE  \E i \in 1..Len(home') : isAbort(home'[i], g)
      BY <1>1, <1>4, <2>1, <2>2
    <2>3. ASSUME NEW n \in 0..Len(back), NEW g, AbortIn(back, n, g), sndOpen
          PROVE  \/ \E i \in 1..Len(home') : isAbort(home'[i], g)
                 \/ \E i \in 1..(n - 1) : isAbort(back'[i], g)
      <3>1. PICK i \in 1..n : isAbort(back[i], g)
        BY <2>3 DEF AbortIn
      <3>2. CASE i = 1
        BY <1>3, <1>4, <2>3, <3>1, <3>2
      <3>3. CASE i # 1
        <4>1. i - 1 \in 1..(n - 1) /\ i - 1 \in 1..Len(back') /\ (i - 1) + 1 = i
          BY <1>1, <1>3, <3>3
        <4>2. back'[i - 1] = back[i]
          BY <1>3, <4>1
        <4> QED
          BY <3>1, <4>1, <4>2
      <3> QED
        BY <3>2, <3>3
    <2>4. ASSUME NEW j \in 1..Len(home'), home'[j].type = "chunk_ack"
          PROVE  \/ home'[j].index < Len(rows[home'[j].file].written)
                 \/ Told(home'[j].file)
                 \/ \E i \in 1..(j - 1) : isAbort(home'[i], home'[j].file)
      <3>1. CASE j \in 1..Len(home)
        <4>1. j - 1 \in 0..Len(home) /\ home'[j] = home[j]
          BY <1>1, <1>4, <3>1
        <4> QED
          BY <2>1, <2>4, <3>1, <4>1 DEF AckOfWrite
      <3>2. CASE j = Len(home) + 1 /\ home'[j] = m /\ sndOpen
        <4>1. \/ m.index < Len(rows[m.file].written) \/ Told(m.file)
              \/ AbortIn(back, 1 - 1, m.file)
              \/ AbortIn(home, Len(home), m.file)
          BY <1>3, <2>4, <3>2 DEF AckOfWrite
        <4>2. ~AbortIn(back, 1 - 1, m.file)
          BY DEF AbortIn
        <4>3. j - 1 = Len(home) /\ Len(home) \in 0..Len(home)
          BY <1>1, <3>2
        <4> QED
          BY <2>1, <3>2, <4>1, <4>2, <4>3
      <3> QED
        BY <1>4, <3>1, <3>2
    <2>5. ASSUME NEW j \in 1..Len(back'), back'[j].type = "chunk_ack", sndOpen
          PROVE  \/ back'[j].index < Len(rows[back'[j].file].written)
                 \/ Told(back'[j].file)
                 \/ \E i \in 1..(j - 1) : isAbort(back'[i], back'[j].file)
                 \/ \E i \in 1..Len(home') : isAbort(home'[i], back'[j].file)
      <3>1. /\ j + 1 \in 1..Len(back) /\ back'[j] = back[j + 1]
            /\ (j + 1) - 1 = j /\ j \in 0..Len(back)
        BY <1>1, <1>3
      <3>2. \/ back'[j].index < Len(rows[back'[j].file].written)
            \/ Told(back'[j].file)
            \/ AbortIn(back, j, back'[j].file)
            \/ AbortIn(home, Len(home), back'[j].file)
        BY <2>5, <3>1 DEF AckOfWrite
      <3> QED
        BY <2>2, <2>3, <2>5, <3>1, <3>2
    <2>6. sndOpen /\ rcvOpen /\ Busy /\ rcv.current = NoFile =>
             \/ Told(rcv.msg.file)
             \/ \E i \in 1..Len(back') : isAbort(back'[i], rcv.msg.file)
             \/ \E i \in 1..Len(home') : isAbort(home'[i], rcv.msg.file)
      <3>1. Len(back) \in 0..Len(back) /\ Len(back') = Len(back) - 1
        BY <1>1, <1>3
      <3> QED
        BY <2>2, <2>3, <3>1 DEF AckOfWrite
    <2>7. /\ ~sndOpen => home' = <<>>
          /\ \A g \in Files :
                /\ snd[g].aborted = "no" => snd[g].acked < Len(rows[g].written)
                /\ snd[g].pc = "sent" =>
                      snd[g].aborted = "no" /\ snd[g].acked >= totalChunks(g) - 1
      BY <1>2 DEF AckOfWrite
    <2> QED
      BY <1>2, <1>7, <2>4, <2>5, <2>6, <2>7 DEF AckOfWrite, AbortIn, Told
  <1>12. AcksRise'
    <2>1. ASSUME NEW i \in 1..Len(home'), NEW j \in 1..Len(home'), i < j
          PROVE  Rising(home'[i], home'[j])
      <3>1. i \in 1..Len(home)
        BY <1>1, <1>4, <2>1
      <3> QED
        BY <1>3, <1>4, <2>1, <3>1 DEF AcksRise
    <2>2. ASSUME NEW i \in 1..Len(back'), NEW j \in 1..Len(back'), i < j
          PROVE  Rising(back'[i], back'[j])
      <3>1. i + 1 < j + 1
        BY <2>2
      <3> QED
        BY <1>3, <3>1 DEF AcksRise
    <2>3. ASSUME NEW i \in 1..Len(home'), NEW j \in 1..Len(back')
          PROVE  Rising(home'[i], back'[j])
      <3>1. j + 1 \in 1..Len(back) /\ back'[j] = back[j + 1] /\ 1 < j + 1
        BY <1>1, <1>3
      <3> QED
        BY <1>3, <1>4, <3>1 DEF AcksRise
    <2> QED
      BY <1>2, <1>5, <1>6, <1>7, <2>1, <2>2, <2>3 DEF AcksRise
  <1>13. Counting'
    BY <1>2 DEF Counting, Continues, CountedTo, Begun
  <1>14. WithinLimit'
    BY <1>2, <1>7 DEF WithinLimit, LimitEnforced
  <1> QED
    BY <1>7, <1>8, <1>9, <1>10, <1>11, <1>12, <1>13, <1>14

(* What the relay has counted once it has recorded m.                      *)
Recorded(m) ==
    /\ relay' \in RelayRecord
    /\ relay'.file \in {m.file, NoFile}
    /\ relay'.abort \in {relay.abort, m.file}
    /\ relay'.file = NoFile => relay'.bytes = 0 /\ ~relay'.blocked
    /\ ~relay'.blocked => relay'.bytes <= MaxFileSize
    /\ isLast(m) \/ CountedToNext(m.file, m.index + 1)

LEMMA RecordCounts ==
    ASSUME IInv, NEW m \in Messages, m.file \in Files,
           CountedTo(m.file, m.index), relay' = recordChunkBytes(m)
    PROVE  /\ Recorded(m)
           /\ metered(m).blocked \/ frameBytes(m.file, m.index) <= MaxFileSize
  <1> DEFINE f == m.file
             t == metered(m)
             total == t.bytes + frameLen(m)
  <1>1. /\ relay \in RelayRecord /\ m.index \in Nat /\ m.index + 1 \in Nat
        /\ MaxFileSize \in Nat /\ f # NoFile
    BY TransferAssumption
       DEF IInv, TypeOK, Messages, TransferAssumption, Files, NoFile
  <1>2. /\ frameBytes(f, m.index) \in Nat /\ frameBytes(f, m.index + 1) \in Nat
        /\ frameBytes(f, 0) = 0
    BY <1>1, FrameCount
  <1>3. /\ relay.bytes \in Nat /\ relay.blocked \in BOOLEAN
        /\ ~relay.blocked => relay.bytes <= MaxFileSize
    BY <1>1 DEF IInv, Counting, RelayRecord
  <1>4. /\ t \in RelayRecord /\ t.file = f /\ t.abort = relay.abort
        /\ t.blocked \/ (t.bytes = frameBytes(f, m.index) /\ t.bytes <= MaxFileSize)
    <2>1. CASE relay.file = f
      BY <1>1, <1>2, <1>3, <2>1 DEF metered, CountedTo
    <2>2. CASE relay.file # f
      <3>1. /\ t = [relay EXCEPT !.file = f, !.bytes = 0, !.blocked = FALSE]
            /\ m.index = 0
        BY <2>2 DEF metered, CountedTo
      <3>2. t \in RelayRecord /\ t.file = f /\ t.abort = relay.abort /\ t.bytes = 0
        BY <1>1, <3>1 DEF RelayRecord
      <3> QED
        BY <1>1, <1>2, <3>1, <3>2
    <2> QED
      BY <2>1, <2>2
  <1>5. frameLen(m) = frameBytes(f, m.index + 1) - frameBytes(f, m.index)
    BY DEF frameLen
  <1>6. relay' = CASE t.blocked -> t
          [] ~t.blocked /\ total > MaxFileSize ->
                [t EXCEPT !.bytes = total, !.blocked = TRUE, !.abort = f]
          [] ~t.blocked /\ total <= MaxFileSize /\ isLast(m) ->
                [t EXCEPT !.file = NoFile, !.bytes = 0]
          [] OTHER -> [t EXCEPT !.bytes = total]
    BY DEF recordChunkBytes
  <1> HIDE DEF t
  <1>7. t.blocked \in BOOLEAN /\ t.bytes \in Nat
    BY <1>4 DEF RelayRecord
  <1>8. CASE t.blocked
    <2>1. relay' = t
      BY <1>6, <1>8
    <2> QED
      BY <1>1, <1>4, <1>8, <2>1 DEF Recorded, CountedToNext, t
  <1>9. CASE ~t.blocked
    <2>1. total = frameBytes(f, m.index + 1) /\ total \in Nat
      BY <1>2, <1>4, <1>5, <1>7, <1>9
    <2> HIDE DEF total
    <2>2. frameBytes(f, m.index) <= MaxFileSize
      BY <1>4, <1>9
    <2>3. CASE total > MaxFileSize
      <3>1. relay' = [t EXCEPT !.bytes = total, !.blocked = TRUE, !.abort = f]
        BY <1>1, <1>6, <1>9, <2>1, <2>3
      <3>2. /\ relay' \in RelayRecord /\ relay'.file = f /\ relay'.blocked = TRUE
            /\ relay'.abort = f
        BY <1>4, <2>1, <3>1 DEF RelayRecord
      <3> QED
        BY <1>1, <2>2, <3>2 DEF Recorded, CountedToNext
    <2>4. CASE ~(total > MaxFileSize) /\ isLast(m)
      <3>0. total <= MaxFileSize
        BY <1>1, <2>1, <2>4
      <3>1. relay' = [t EXCEPT !.file = NoFile, !.bytes = 0]
        BY <1>6, <1>9, <2>4, <3>0
      <3>2. /\ relay' \in RelayRecord /\ relay'.file = NoFile
            /\ relay'.bytes = 0 /\ ~relay'.blocked
            /\ relay'.abort = relay.abort
        <4>1. /\ relay'.file = NoFile /\ relay'.bytes = 0
              /\ relay'.abort = relay.abort
          BY <1>4, <3>1 DEF RelayRecord
        <4>2. relay' \in RelayRecord
          <5>1. NoFile \in Files \cup {NoFile} /\ 0 \in Nat
            OBVIOUS
          <5>2. \A r \in RelayRecord, g \in Files \cup {NoFile}, n \in Nat :
                   [r EXCEPT !.file = g, !.bytes = n] \in RelayRecord
            BY DEF RelayRecord
          <5>3. t \in RelayRecord
            BY <1>4
          <5> HIDE DEF t
          <5> QED
            BY <3>1, <5>1, <5>2, <5>3
        <4>3. ~relay'.blocked
          BY <1>4, <1>9, <3>1 DEF RelayRecord
        <4> QED
          BY <4>1, <4>2, <4>3
      <3> QED
        BY <1>1, <1>9, <2>2, <2>4, <3>2 DEF Recorded
    <2>5. CASE ~(total > MaxFileSize) /\ ~isLast(m)
      <3>0. total <= MaxFileSize
        BY <1>1, <2>1, <2>5
      <3>1. relay' = [t EXCEPT !.bytes = total]
        BY <1>6, <1>9, <2>5
      <3>2. /\ relay' \in RelayRecord /\ relay'.file = f
            /\ relay'.bytes = total /\ ~relay'.blocked
            /\ relay'.abort = relay.abort
        <4>1. /\ relay'.file = f /\ relay'.bytes = total
              /\ relay'.abort = relay.abort
          BY <1>4, <3>1 DEF RelayRecord
        <4>2. relay' \in RelayRecord
          BY <1>4, <2>1, <3>1 DEF RelayRecord
        <4>3. ~relay'.blocked
          BY <1>4, <1>9, <3>1 DEF RelayRecord
        <4> QED
          BY <4>1, <4>2, <4>3
      <3> QED
        BY <1>1, <2>1, <2>2, <3>0, <3>2 DEF Recorded, CountedToNext
    <2> QED
      BY <2>3, <2>4, <2>5
  <1> QED
    BY <1>7, <1>8, <1>9

(* The message m that the relay takes up, and what it does with it.        *)
ForwardStep(m) ==
    /\ m \in Messages /\ m \in Sent /\ m.file \in Files /\ Begun(m.file)
    /\ up \in Seq(Messages) /\ Len(up) \in Nat
    /\ 1 \in 1..Len(up) /\ up[1] = m /\ up' \in Seq(Messages)
    /\ Len(up') = Len(up) - 1
    /\ \A i \in 1..Len(up') : i + 1 \in 1..Len(up) /\ up'[i] = up[i + 1]
    /\ \A i \in 1..Len(up) : i = 1 \/ i - 1 \in 1..Len(up')
    /\ Elems(up') \subseteq Elems(up)
    /\ \A e \in Elems(up') : Before(m, e)
    /\ Extended(down, m, down')
    /\ relay' = relay \/ (m.type = "chunk" /\ Recorded(m))
    /\ m.type = "chunk" => Recorded(m)
    /\ m.type = "chunk" /\ down' # down =>
          frameBytes(m.file, m.index) <= MaxFileSize
    /\ UNCHANGED <<snd, detached, back, home, rcv, rows, sndOpen, rcvOpen>>

LEMMA Forwards ==
    ASSUME IInv, RelayForward
    PROVE  \E m : ForwardStep(m)
  <1> USE DEF IInv
  <1>1. /\ up # <<>> /\ up \in Seq(Messages) /\ down \in Seq(Messages)
        /\ Len(up) \in Nat /\ up' = Tail(up)
        /\ UNCHANGED <<snd, detached, back, home, rcv, rows, sndOpen, rcvOpen>>
    BY DEF RelayForward, TypeOK
  <1>2. PICK m \in Messages : m = Head(up)
    BY <1>1, Taken
  <1>3. /\ 1 \in 1..Len(up) /\ up[1] = m /\ up' \in Seq(Messages)
        /\ m \in Elems(up)
        /\ Len(up') = Len(up) - 1
        /\ \A i \in 1..Len(up') : i + 1 \in 1..Len(up) /\ up'[i] = up[i + 1]
        /\ \A i \in 1..Len(up) : i = 1 \/ i - 1 \in 1..Len(up')
        /\ Elems(up') \subseteq Elems(up)
    BY <1>1, <1>2, Taken
  <1>4. m \in Sent /\ m.file \in Files /\ Begun(m.file)
    BY <1>3 DEF Sent, WellFormed, SenderAhead
  <1>5. \A e \in Elems(up') : Before(m, e)
    <2> SUFFICES ASSUME NEW j \in 1..Len(up') PROVE Before(m, up'[j])
      BY DEF Elems
    <2>1. j + 1 \in 1..Len(up) /\ up'[j] = up[j + 1] /\ 1 < j + 1
      BY <1>1, <1>3
    <2>2. ~up[1].limit /\ ~up[j + 1].limit
      BY <1>3, <2>1 DEF WellFormed, Elems
    <2> QED
      BY <1>3, <2>1, <2>2 DEF InOrder, Ordered
  <1>6. Extended(down, m, down')
    <2>1. Grown(down, m, down')
      BY <1>2 DEF RelayForward, deliver, Grown
    <2> QED
      BY <1>1, <2>1, Delivered
  <1>7. CASE m.type = "chunk"
    <2>1. /\ relay' = recordChunkBytes(m)
          /\ metered(m).blocked => down' = down
      BY <1>2, <1>7 DEF RelayForward
    <2>2. CountedTo(m.file, m.index)
      <3>1. Continues(1 - 1, m.file, m.index)
        BY <1>3, <1>7 DEF Counting
      <3> QED
        BY <3>1 DEF Continues
    <2>3. /\ Recorded(m)
          /\ metered(m).blocked \/ frameBytes(m.file, m.index) <= MaxFileSize
      BY <1>4, <2>1, <2>2, RecordCounts
    <2> QED
      BY <1>1, <1>3, <1>4, <1>5, <1>6, <1>7, <2>1, <2>3 DEF ForwardStep
  <1>8. CASE m.type # "chunk"
    <2>1. relay' = relay
      BY <1>2, <1>8 DEF RelayForward
    <2> QED
      BY <1>1, <1>3, <1>4, <1>5, <1>6, <1>8, <2>1 DEF ForwardStep
  <1> QED
    BY <1>7, <1>8

LEMMA ForwardOrder ==
    ASSUME IInv, NEW m, ForwardStep(m)
    PROVE  /\ TypeOK' /\ WellFormed' /\ InOrder' /\ AckOfWrite' /\ AcksRise'
           /\ WithinLimit' /\ Sent' \subseteq Sent
  <1> USE DEF IInv
  <1>1. /\ Elems(up') \subseteq Elems(up) /\ up' \in Seq(Messages)
        /\ m \in Sent /\ m.file \in Files /\ Begun(m.file) /\ m = up[1]
        /\ 1 \in 1..Len(up) /\ Len(up') = Len(up) - 1 /\ Len(up) \in Nat
        /\ \A i \in 1..Len(up') : i + 1 \in 1..Len(up) /\ up'[i] = up[i + 1]
        /\ UNCHANGED <<snd, detached, back, home, rcv, rows, sndOpen, rcvOpen>>
    BY DEF ForwardStep
  <1>2. /\ down' \in Seq(Messages) /\ Len(down) \in Nat /\ Len(down') \in Nat
        /\ \A i \in 1..Len(down) : i \in 1..Len(down') /\ down'[i] = down[i]
        /\ \A i \in 1..Len(down') :
              i \in 1..Len(down)
              \/ (down' # down /\ down'[i] = m /\ i = Len(down) + 1)
        /\ \A e \in Elems(down') : e \in Elems(down) \/ e = m
    BY DEF ForwardStep, Extended
  <1>3. m \in Elems(up) /\ ~m.limit
    BY <1>1 DEF Elems, WellFormed
  <1>4. Sent' \subseteq Sent
    BY <1>1, <1>2, <1>3 DEF Sent
  <1>5. /\ relay' \in RelayRecord
        /\ relay'.abort # NoFile => Begun(relay'.abort)
    BY <1>1 DEF ForwardStep, Recorded, WellFormed, TypeOK
  <1>6. TypeOK'
    BY <1>1, <1>2, <1>5 DEF TypeOK
  <1>7. WellFormed'
    <2>1. \A e \in Elems(up') \cup Elems(down') : e \in Elems(up) \cup Elems(down)
      BY <1>1, <1>2, <1>3
    <2>2. \A e \in Elems(down') : e.limit => e.type = "file_abort"
      BY <1>2, <1>3 DEF WellFormed
    <2>3. Answers' = Answers
      BY <1>1 DEF Answers
    <2> QED
      BY <1>1, <1>5, <2>1, <2>2, <2>3 DEF WellFormed, Begun
  <1>9. InOrder'
    <2>1. Ordered(up')
      <3> SUFFICES ASSUME NEW i \in 1..Len(up'), NEW j \in 1..Len(up'), i < j,
                          ~up'[i].limit, ~up'[j].limit
                   PROVE  Before(up'[i], up'[j])
        BY DEF Ordered
      <3>1. i + 1 < j + 1
        OBVIOUS
      <3> QED
        BY <1>1, <3>1 DEF InOrder, Ordered
    <2>2. Ordered(down')
      <3> SUFFICES ASSUME NEW i \in 1..Len(down'), NEW j \in 1..Len(down'), i < j,
                          ~down'[i].limit, ~down'[j].limit
                   PROVE  Before(down'[i], down'[j])
        BY DEF Ordered
      <3>1. i \in 1..Len(down) /\ down'[i] = down[i]
        BY <1>2
      <3>2. CASE j \in 1..Len(down)
        BY <1>2, <3>1, <3>2 DEF InOrder, Ordered
      <3>3. CASE down'[j] = m
        BY <1>1, <3>1, <3>3 DEF InOrder
      <3> QED
        BY <1>2, <3>2, <3>3
    <2>3. ASSUME NEW i \in 1..Len(down'), NEW j \in 1..Len(up'), ~down'[i].limit
          PROVE  Before(down'[i], up'[j])
      <3>1. CASE i \in 1..Len(down)
        BY <1>1, <1>2, <2>3, <3>1 DEF InOrder
      <3>2. CASE down'[i] = m
        BY <3>2 DEF ForwardStep, Elems
      <3> QED
        BY <1>2, <3>1, <3>2
    <2>4. rcv.pc # "idle" => \A e \in Sent' : Before(rcv'.msg, e)
      BY <1>1, <1>4, RelayFrame
    <2> QED
      BY <1>1, <2>1, <2>2, <2>3, <2>4 DEF InOrder
  <1>10. AckOfWrite'
    BY <1>1 DEF AckOfWrite, AbortIn, Told, Busy
  <1>11. AcksRise'
    BY <1>1, <1>4 DEF AcksRise, Answers, Busy
  <1>12. WithinLimit'
    <2>1. ASSUME NEW j \in 1..Len(down'), down'[j].type = "chunk"
          PROVE  frameBytes(down'[j].file, down'[j].index) <= MaxFileSize
      <3>1. CASE j \in 1..Len(down)
        BY <1>2, <2>1, <3>1 DEF WithinLimit, LimitEnforced
      <3>2. CASE down' # down /\ down'[j] = m
        BY <2>1, <3>2 DEF ForwardStep
      <3> QED
        BY <1>2, <3>1, <3>2
    <2> QED
      BY <1>1, <2>1 DEF WithinLimit, LimitEnforced, Busy
  <1> QED
    BY <1>4, <1>6, <1>7, <1>9, <1>10, <1>11, <1>12

LEMMA ForwardCount ==
    ASSUME IInv, NEW m, ForwardStep(m)
    PROVE  Counting'
  <1> USE DEF IInv
  <1>0. /\ up \in Seq(Messages) /\ Len(up) \in Nat
        /\ 1 \in 1..Len(up) /\ up[1] = m /\ up' \in Seq(Messages)
        /\ Len(up') = Len(up) - 1 /\ Len(up') \in Nat
        /\ \A i \in 1..Len(up') : i + 1 \in 1..Len(up) /\ up'[i] = up[i + 1]
        /\ \A i \in 1..Len(up) : i = 1 \/ i - 1 \in 1..Len(up')
        /\ Elems(up') \subseteq Elems(up)
        /\ \A e \in Elems(up') : Before(m, e)
    BY DEF ForwardStep
  <1>1. /\ m \in Messages /\ m \in Sent /\ m \in Elems(up)
        /\ m.file \in Files /\ Begun(m.file)
        /\ m.index \in Nat /\ m.file \in Nat /\ m.file # NoFile
        /\ Files \subseteq Nat /\ sndOpen' = sndOpen /\ snd' = snd
    BY <1>0, TransferAssumption
       DEF ForwardStep, Elems, Messages, TransferAssumption, Files, NoFile
  <1>2. \A e \in Elems(up) : /\ e.file \in Files /\ e.file \in Nat
                             /\ e.index \in Nat /\ e \in Sent
    <2>1. \A e \in Elems(up) : e.file \in Files /\ ~e.limit
      BY DEF WellFormed
    <2> QED
      BY <1>1, <2>1, QueuesTyped DEF Sent
  <1>3. \A j \in 1..Len(up) : up[j] \in Elems(up)
    BY DEF Elems
  <1>4. /\ relay'.file = NoFile => relay'.bytes = 0 /\ ~relay'.blocked
        /\ ~relay'.blocked => relay'.bytes <= MaxFileSize
    BY DEF ForwardStep, Recorded, Counting
  <1>5. relay'.file # NoFile =>
          Begun(relay'.file) /\ \A e \in Elems(up') : e.file >= relay'.file
    <2>1. CASE relay' = relay
      BY <1>0, <2>1 DEF Counting
    <2>2. CASE Recorded(m)
      <3>1. \A e \in Elems(up') : e.file >= m.file
        BY <1>0, <1>1, <1>2 DEF Before
      <3> QED
        BY <1>1, <2>2, <3>1 DEF Recorded
    <2> QED
      BY <2>1, <2>2 DEF ForwardStep
  (* The relay has not counted another file than m's before.               *)
  <1>6. ASSUME NEW f \in Files, NEW i, CountedTo(f, i),
               m.type = "chunk" => m.file < f
        PROVE  CountedToNext(f, i)
    <2>1. CASE m.type # "chunk"
      BY <1>6, <2>1 DEF ForwardStep, CountedTo, CountedToNext
    <2>2. CASE m.type = "chunk"
      <3>1. relay.file # f
        <4>1. ASSUME relay.file = f PROVE FALSE
          <5>1. m.file >= f
            BY <1>1, <4>1 DEF Counting, Files, NoFile
          <5> QED
            BY <1>1, <1>6, <2>2, <5>1
        <4> QED
          BY <4>1
      <3>2. relay'.file # f
        <4>1. m.file # f /\ f # NoFile
          BY <1>1, <1>6, <2>2 DEF Files, NoFile
        <4> QED
          BY <2>2, <4>1 DEF ForwardStep, Recorded
      <3> QED
        BY <1>6, <3>1, <3>2 DEF CountedTo, CountedToNext
    <2> QED
      BY <2>1, <2>2
  (* A run of the queue up to its n-th message loses its first.            *)
  <1>7. ASSUME NEW n \in 1..Len(up), NEW f \in Files, NEW i \in Nat,
               Continues(n, f, i), m.file <= f,
               i # totalChunks(f),
               \A k \in 1..n : up[k].type = "chunk" /\ up[k].file = f =>
                                  up[k].index < i
        PROVE  ContinuesNext(n - 1, f, i)
    <2>0. /\ \A k \in 1..(n - 1) : /\ k \in 1..Len(up') /\ k + 1 \in 1..n
                                   /\ up'[k] = up[k + 1]
          /\ \A k \in 1..n : k = 1 \/ (k - 1 \in 1..(n - 1) /\ (k - 1) + 1 = k)
      <3>1. \A k \in 1..(n - 1) : k \in 1..Len(up') /\ k + 1 \in 1..n
        BY <1>0
      <3>2. \A k \in 1..n : k = 1 \/ (k - 1 \in 1..(n - 1) /\ (k - 1) + 1 = k)
        BY <1>0
      <3> QED
        BY <1>0, <3>1, <3>2
    <2>1. CASE \E k \in 1..n : isChunk(up[k], f, i - 1)
      <3>1. PICK k \in 1..n : isChunk(up[k], f, i - 1)
        BY <2>1
      <3>2. CASE k # 1
        <4>1. k - 1 \in 1..(n - 1) /\ up'[k - 1] = up[k]
          BY <2>0, <3>2
        <4> QED
          BY <3>1, <4>1 DEF ContinuesNext
      <3>3. CASE k = 1
        <4>1. m.type = "chunk" /\ m.file = f /\ m.index = i - 1
          BY <1>0, <3>1, <3>3 DEF isChunk
        <4>2. ~isLast(m)
          <5>1. totalChunks(f) \in Nat
            BY ChunkCount
          <5> QED
            BY <1>7, <4>1, <5>1 DEF isLast
        <4>3. CountedToNext(f, i)
          <5>1. m.index + 1 = i
            BY <4>1
          <5> QED
            BY <4>1, <4>2, <5>1 DEF ForwardStep, Recorded
        <4>4. ASSUME NEW l \in 1..(n - 1), up'[l].type = "chunk", up'[l].file = f
              PROVE  FALSE
          <5>1. up'[l] \in Elems(up') /\ up'[l] \in Elems(up) /\ up'[l].index < i
            BY <1>0, <1>7, <2>0, <4>4 DEF Elems
          <5>2. Before(m, up'[l])
            BY <1>0, <5>1
          <5>3. m.index < up'[l].index /\ up'[l].index \in Nat
            BY <1>1, <1>2, <4>1, <4>4, <5>1, <5>2 DEF Before
          <5> QED
            BY <4>1, <5>1, <5>3
        <4> QED
          BY <4>3, <4>4 DEF ContinuesNext
      <3> QED
        BY <3>2, <3>3
    <2>2. CASE /\ CountedTo(f, i)
               /\ \A k \in 1..n : ~(up[k].type = "chunk" /\ up[k].file = f)
      <3>1. m.type = "chunk" => m.file < f
        <4>1. 1 \in 1..n
          BY <1>0
        <4>2. m.type = "chunk" => m.file # f
          BY <1>0, <2>2, <4>1
        <4> QED
          BY <1>1, <1>7, <4>2
      <3>2. CountedToNext(f, i)
        BY <1>6, <2>2, <3>1
      <3>3. \A k \in 1..(n - 1) : ~(up'[k].type = "chunk" /\ up'[k].file = f)
        BY <2>0, <2>2
      <3> QED
        BY <3>2, <3>3 DEF ContinuesNext
    <2> QED
      BY <1>7, <2>1, <2>2 DEF Continues
  <1>8. ASSUME NEW j \in 1..Len(up'), up'[j].type = "chunk"
        PROVE  ContinuesNext(j - 1, up'[j].file, up'[j].index)
    <2> DEFINE e == up[j + 1]
    <2>1. /\ j + 1 \in 1..Len(up) /\ up'[j] = e /\ (j + 1) - 1 = j
          /\ j \in 1..Len(up)
      BY <1>0
    <2>2. /\ e.file \in Files /\ e.index \in Nat /\ e \in Sent
          /\ e \in Elems(up') /\ e.file \in Nat
      BY <1>2, <1>3, <2>1 DEF Elems
    <2>3. Continues(j, e.file, e.index)
      BY <1>8, <2>1 DEF Counting
    <2>4. m.file <= e.file
      BY <1>0, <1>1, <2>2 DEF Before
    <2>5. e.index # totalChunks(e.file)
      <3>1. e.index < snd[e.file].index
        BY <1>8, <2>1, <2>2 DEF SenderAhead
      <3> QED
        BY <2>2, <3>1, SendTyped
    <2>6. ASSUME NEW k \in 1..j, up[k].type = "chunk", up[k].file = e.file
          PROVE  up[k].index < e.index
      <3>1. k \in 1..Len(up) /\ k < j + 1
        BY <1>0
      <3>2. ~up[k].limit /\ ~e.limit
        BY <1>3, <2>1, <3>1 DEF WellFormed
      <3>3. Before(up[k], e)
        BY <2>1, <3>1, <3>2 DEF InOrder, Ordered
      <3>4. up[k].file \in Nat
        BY <1>2, <1>3, <3>1
      <3> QED
        BY <1>8, <2>1, <2>2, <2>6, <3>3, <3>4 DEF Before
    <2> HIDE DEF e
    <2> QED
      BY <1>7, <2>1, <2>2, <2>3, <2>4, <2>5, <2>6
  <1>9. ASSUME sndOpen, NEW f \in Files, snd[f].pc \in Listening
        PROVE  \/ snd[f].index = totalChunks(f)
               \/ ContinuesNext(Len(up'), f, snd[f].index)
    <2> SUFFICES ASSUME snd[f].index # totalChunks(f)
                 PROVE  ContinuesNext(Len(up'), f, snd[f].index)
      OBVIOUS
    <2>1. Continues(Len(up), f, snd[f].index)
      BY <1>9 DEF Counting
    <2>2. m.file <= f
      <3>1. m.file > f => snd[f].pc \in Settled
        BY <1>1 DEF InTurn, Begun
      <3>2. Listening \cap Settled = {}
        BY DEF Listening, Waiting, Settled
      <3>3. ~(m.file > f) /\ f \in Nat
        BY <1>1, <1>9, <3>1, <3>2
      <3> QED
        BY <1>1, <3>3
    <2>3. \A k \in 1..Len(up) : up[k].type = "chunk" /\ up[k].file = f =>
                                   up[k].index < snd[f].index
      BY <1>2, <1>3 DEF SenderAhead
    <2>4. /\ Len(up) \in 1..Len(up) /\ Len(up) - 1 = Len(up')
          /\ snd[f].index \in Nat
      BY <1>0, SendTyped
    <2> QED
      BY <1>7, <2>1, <2>2, <2>3, <2>4
  <1> QED
    BY <1>1, <1>4, <1>5, <1>8, <1>9
       DEF Counting, Begun, Continues, CountedTo, ContinuesNext, CountedToNext

LEMMA RelayForwardIInv ==
    ASSUME IInv, RelayForward
    PROVE  IInv'
  <1>1. PICK m : ForwardStep(m)
    BY Forwards
  <1>2. /\ TypeOK' /\ WellFormed' /\ InOrder' /\ AckOfWrite' /\ AcksRise'
        /\ WithinLimit' /\ Sent' \subseteq Sent
    BY <1>1, ForwardOrder
  <1>3. UNCHANGED <<snd, detached, rcv, rows, sndOpen, rcvOpen>>
    BY <1>1 DEF ForwardStep
  <1> QED
    BY <1>1, <1>2, <1>3, ForwardCount, RelayFrame DEF IInv

-----------------------------------------------------------------------------
(* The receiver *)

(* A step that writes nothing and answers nothing.                         *)
TakeStep ==
    /\ UNCHANGED <<snd, detached, up, home, relay, sndOpen>>
    /\ down' \in Seq(Messages) /\ Elems(down') \subseteq Elems(down)
    /\ Ordered(down') /\ Prefix(back', back) /\ rcvOpen' \in BOOLEAN
    /\ rcv' \in ReceiverRecord /\ rows' \in [Files -> RowRecord]
    /\ \A f \in Files :
          /\ rows'[f].written = rows[f].written
          /\ rows'[f].state \in {"closing", "saved"} =>
                rows[f].state \in {"closing", "saved"}
    /\ rcv'.pc \in {"decrypt", "write"} =>
          \/ Busy /\ rcv'.msg = rcv.msg
          \/ rcv'.msg \in Elems(down) /\ rcv'.msg.type = "chunk"
    /\ rcvOpen' /\ rcv'.pc \in {"decrypt", "write"} /\ rcv'.current = NoFile =>
          /\ rcvOpen /\ Busy /\ rcv'.msg = rcv.msg /\ rcv.current = NoFile
          /\ back' = back
    /\ rcv'.pc # "idle" => \A m \in Sent' : Before(rcv'.msg, m)
    /\ ChainStep' /\ Current' /\ Announced'

(* What depends on the sender and on what is under way only.               *)
LEMMA ReceiverFrame ==
    ASSUME IInv, UNCHANGED <<snd, detached, up, home, relay, sndOpen>>,
           Elems(down') \subseteq Elems(down)
    PROVE  /\ InTurn' /\ SenderAhead' /\ Window' /\ Counting'
           /\ Sent' \subseteq Sent
           /\ \A m \in Elems(up') \cup Elems(down') :
                 /\ m.type \in {"file_meta", "chunk", "file_abort"}
                 /\ m.file \in Files
           /\ \A m \in Elems(up') : ~m.limit
           /\ \A m \in Elems(down') : m.limit => m.type = "file_abort"
           /\ (relay.abort # NoFile => Begun(relay.abort))'
  <1> USE DEF IInv
  <1>1. Sent' \subseteq Sent
    BY DEF Sent
  <1>2. InTurn' /\ Window' /\ SenderAhead'
    BY <1>1 DEF InTurn, Window, SenderAhead, Begun
  <1>3. Counting'
    BY DEF Counting, Continues, CountedTo, Begun
  <1>4. /\ \A m \in Elems(up') \cup Elems(down') :
              /\ m.type \in {"file_meta", "chunk", "file_abort"}
              /\ m.file \in Files
        /\ \A m \in Elems(up') : ~m.limit
        /\ \A m \in Elems(down') : m.limit => m.type = "file_abort"
        /\ (relay.abort # NoFile => Begun(relay.abort))'
    BY DEF WellFormed, Begun
  <1> QED
    BY <1>1, <1>2, <1>3, <1>4

LEMMA TakeIInv ==
    ASSUME IInv, TakeStep
    PROVE  IInv'
  <1> USE DEF IInv
  <1>1. /\ UNCHANGED <<snd, detached, up, home, relay, sndOpen>>
        /\ down' \in Seq(Messages) /\ Elems(down') \subseteq Elems(down)
        /\ Ordered(down') /\ Prefix(back', back) /\ rcvOpen' \in BOOLEAN
        /\ rcv' \in ReceiverRecord /\ rows' \in [Files -> RowRecord]
        /\ ChainStep' /\ Current' /\ Announced'
    BY DEF TakeStep
  <1>2. /\ InTurn' /\ SenderAhead' /\ Window' /\ Counting' /\ Sent' \subseteq Sent
        /\ \A m \in Elems(up') \cup Elems(down') :
              /\ m.type \in {"file_meta", "chunk", "file_abort"}
              /\ m.file \in Files
        /\ \A m \in Elems(up') : ~m.limit
        /\ \A m \in Elems(down') : m.limit => m.type = "file_abort"
        /\ (relay.abort # NoFile => Begun(relay.abort))'
    BY <1>1, ReceiverFrame
  <1>3. Answers' \subseteq Answers
    BY <1>1 DEF Answers, Prefix
  <1>4. TypeOK'
    BY <1>1 DEF TypeOK, Prefix
  <1>5. WellFormed'
    <2>1. \A m \in Answers' : /\ m.type \in {"chunk_ack", "file_abort"}
                              /\ m.file \in Files /\ Begun(m.file)'
      BY <1>1, <1>3 DEF WellFormed, Begun
    <2> QED
      BY <1>2, <2>1 DEF WellFormed
  <1>6. InOrder'
    <2>1. Ordered(up')
      BY <1>1 DEF InOrder, Ordered
    <2>2. \A i \in 1..Len(down'), j \in 1..Len(up') :
             ~down'[i].limit => Before(down'[i], up'[j])
      <3>1. \A a \in Elems(down), j \in 1..Len(up) : ~a.limit => Before(a, up[j])
        BY DEF InOrder, Elems
      <3>2. \A i \in 1..Len(down') : down'[i] \in Elems(down')
        BY DEF Elems
      <3> QED
        BY <1>1, <3>1, <3>2
    <2> QED
      BY <1>1, <2>1, <2>2 DEF InOrder, TakeStep
  <1>7. WrittenInOrder' /\ SavedWhole'
    BY DEF WrittenInOrder, SavedWhole, TakeStep
  <1>8. Busy' => rcv'.msg.file \in Files
    BY <1>1 DEF ChainStep, Busy
  <1>9. Busy' => \/ Busy /\ rcv'.msg = rcv.msg
                 \/ /\ rcv'.msg \in Elems(down) /\ rcv'.msg.type = "chunk"
                    /\ rcv'.msg \in Sent
    <2>1. \A e \in Elems(down) : e.type = "chunk" => e \in Sent
      BY DEF WellFormed, Sent, TypeOK
    <2> QED
      BY <2>1 DEF TakeStep, Busy
  <1>10. AckOfWrite'
    <2>1. \A f \in Files : rows'[f].written = rows[f].written
      BY DEF TakeStep
    <2>2. /\ \A j \in 1..Len(home) : home[j].file \in Files
          /\ \A j \in 1..Len(back) : back[j].file \in Files
      BY DEF WellFormed, Answers, Elems
    <2>3. \A j \in 1..Len(home) : home[j].type = "chunk_ack" =>
             \/ home[j].index < Len(rows'[home[j].file].written)
             \/ Told(home[j].file)
             \/ AbortIn(home, j - 1, home[j].file)
      BY <2>1, <2>2 DEF AckOfWrite
    <2>4. ASSUME sndOpen, NEW j \in 1..Len(back'), back'[j].type = "chunk_ack"
          PROVE  \/ back'[j].index < Len(rows'[back'[j].file].written)
                 \/ Told(back'[j].file)
                 \/ \E i \in 1..(j - 1) : isAbort(back'[i], back'[j].file)
                 \/ AbortIn(home, Len(home), back'[j].file)
      <3>1. j \in 1..Len(back) /\ back'[j] = back[j] /\ Len(back') \in Nat
        BY <1>1 DEF Prefix
      <3>2. \A i \in 1..(j - 1) : back'[i] = back[i]
        BY <1>1, <3>1 DEF Prefix
      <3>3. AbortIn(back, j - 1, back[j].file) =>
               \E i \in 1..(j - 1) : isAbort(back'[i], back'[j].file)
        BY <3>1, <3>2 DEF AbortIn
      <3> QED
        BY <2>1, <2>2, <2>4, <3>1, <3>3 DEF AckOfWrite
    <2>5. sndOpen /\ rcvOpen' /\ Busy' /\ rcv'.current = NoFile =>
             \/ Told(rcv'.msg.file)
             \/ \E i \in 1..Len(back') : isAbort(back'[i], rcv'.msg.file)
             \/ AbortIn(home, Len(home), rcv'.msg.file)
      <3>1. sndOpen /\ rcvOpen' /\ Busy' /\ rcv'.current = NoFile =>
               /\ rcvOpen /\ Busy /\ rcv'.msg = rcv.msg /\ rcv.current = NoFile
               /\ back' = back
        BY DEF TakeStep, Busy
      <3>2. rcvOpen /\ sndOpen /\ Busy /\ rcv.current = NoFile =>
               \/ Told(rcv.msg.file)
               \/ AbortIn(back, Len(back), rcv.msg.file)
               \/ AbortIn(home, Len(home), rcv.msg.file)
        BY DEF AckOfWrite
      <3> QED
        BY <3>1, <3>2 DEF AbortIn
    <2>6. /\ ~sndOpen => home = <<>>
          /\ \A f \in Files :
                /\ snd[f].aborted = "no" => snd[f].acked < Len(rows'[f].written)
                /\ snd[f].pc = "sent" =>
                      snd[f].aborted = "no" /\ snd[f].acked >= totalChunks(f) - 1
      BY <2>1 DEF AckOfWrite
    <2> QED
      BY <1>1, <2>3, <2>4, <2>5, <2>6 DEF AckOfWrite, AbortIn, Told
  <1>11. AcksRise'
    <2>1. /\ \A i, j \in 1..Len(back') : i < j => Rising(back'[i], back'[j])
          /\ \A i \in 1..Len(home), j \in 1..Len(back') : Rising(home[i], back'[j])
      BY <1>1 DEF AcksRise, Prefix
    <2>2. \A a \in Answers' : a.type = "chunk_ack" =>
             /\ a.index > snd[a.file].acked /\ a.index < snd[a.file].index
             /\ \A m \in Sent' :
                   m.type = "chunk" /\ m.file = a.file => a.index < m.index
             /\ Busy' /\ rcv'.msg.file = a.file => a.index < rcv'.msg.index
      BY <1>2, <1>3, <1>9 DEF AcksRise
    <2>3. \A m \in Sent' : m.type = "chunk" => m.index > snd[m.file].acked
      BY <1>2 DEF AcksRise
    <2>4. Busy' => rcv'.msg.index > snd[rcv'.msg.file].acked
      BY <1>9 DEF AcksRise
    <2>5. \A i, j \in 1..Len(home) : i < j => Rising(home[i], home[j])
      BY DEF AcksRise
    <2> QED
      BY <1>1, <2>1, <2>2, <2>3, <2>4, <2>5 DEF AcksRise
  <1>12. WithinLimit'
    <2>1. \A e \in Elems(down) : e.type = "chunk" =>
             frameBytes(e.file, e.index) <= MaxFileSize
      BY DEF WithinLimit, LimitEnforced, Elems
    <2>2. \A j \in 1..Len(down') : down'[j].type = "chunk" =>
             frameBytes(down'[j].file, down'[j].index) <= MaxFileSize
      <3>1. \A i \in 1..Len(down') : down'[i] \in Elems(down')
        BY DEF Elems
      <3> QED
        BY <1>1, <2>1, <3>1
    <2>3. Busy' => frameBytes(rcv'.msg.file, rcv'.msg.index) <= MaxFileSize
      BY <1>9, <2>1 DEF WithinLimit
    <2>4. \A f \in Files : Len(rows'[f].written) > 0 =>
             frameBytes(f, Len(rows'[f].written) - 1) <= MaxFileSize
      BY DEF WithinLimit, LimitEnforced, TakeStep
    <2> QED
      BY <2>2, <2>3, <2>4 DEF WithinLimit, LimitEnforced
  <1> QED
    BY <1>1, <1>2, <1>4, <1>5, <1>6, <1>7, <1>10, <1>11, <1>12

LEMMA ChainTakes ==
    ASSUME IInv, NEW t \in {"file_meta", "chunk", "file_abort"}, chainStep(t),
           up' = up
    PROVE  \E m \in Messages :
              /\ m = Head(down) /\ m \in Elems(down) /\ m.type = t
              /\ m.file \in Files
              /\ rcv.pc = "idle" /\ down' \in Seq(Messages)
              /\ Elems(down') \subseteq Elems(down) /\ Ordered(down')
              /\ Sent' \subseteq Sent
              /\ ~m.limit => m \in Sent /\ \A e \in Sent' : Before(m, e)
              /\ t # "file_abort" => ~m.limit
  <1> USE DEF IInv
  <1>1. /\ down # <<>> /\ down \in Seq(Messages) /\ Len(down) \in Nat
        /\ down' = Tail(down) /\ Head(down).type = t /\ rcv.pc = "idle"
    BY DEF chainStep, TypeOK
  <1>2. PICK m \in Messages : m = Head(down)
    BY <1>1, Taken
  <1>3. /\ 1 \in 1..Len(down) /\ down[1] = m /\ down' \in Seq(Messages)
        /\ m \in Elems(down) /\ Len(down') = Len(down) - 1
        /\ \A i \in 1..Len(down') : i + 1 \in 1..Len(down)
                                    /\ down'[i] = down[i + 1]
        /\ Elems(down') \subseteq Elems(down)
    BY <1>1, <1>2, Taken
  <1>4. Sent' \subseteq Sent
    BY <1>3 DEF Sent
  <1>5. Ordered(down')
    <2> SUFFICES ASSUME NEW i \in 1..Len(down'), NEW j \in 1..Len(down'), i < j,
                        ~down'[i].limit, ~down'[j].limit
                 PROVE  Before(down'[i], down'[j])
      BY DEF Ordered
    <2>1. i + 1 < j + 1
      OBVIOUS
    <2> QED
      BY <1>3, <2>1 DEF InOrder, Ordered
  <1>6. ASSUME ~m.limit
        PROVE  m \in Sent /\ \A e \in Sent' : Before(m, e)
    <2>1. m \in Sent
      BY <1>3, <1>6 DEF Sent
    <2>2. ASSUME NEW e \in Sent', e \in Elems(down')
          PROVE  Before(m, e)
      <3>1. PICK j \in 1..Len(down') : e = down'[j]
        BY <2>2 DEF Elems
      <3>2. j + 1 \in 1..Len(down) /\ e = down[j + 1] /\ 1 < j + 1
        BY <1>3, <3>1
      <3>3. ~e.limit
        BY DEF Sent
      <3> QED
        BY <1>3, <1>6, <3>2, <3>3 DEF InOrder, Ordered
    <2>3. ASSUME NEW e \in Elems(up) PROVE Before(m, e)
      BY <1>3, <1>6 DEF InOrder, Elems
    <2> QED
      BY <2>1, <2>2, <2>3 DEF Sent
  <1>7. m.type = t /\ m.file \in Files /\ (t # "file_abort" => ~m.limit)
    BY <1>1, <1>2, <1>3 DEF WellFormed
  <1> QED
    BY <1>1, <1>2, <1>3, <1>4, <1>5, <1>6, <1>7

LEMMA ReceiverTyped ==
    ASSUME IInv
    PROVE  /\ rcv \in ReceiverRecord /\ rows \in [Files -> RowRecord]
           /\ rcv.current \in Files \cup {NoFile} /\ rcv.expected \in Nat
           /\ rcv.msg \in Messages /\ rcv.msg.index \in Nat
           /\ rcv.pc \in {"idle", "sink", "decrypt", "write"}
           /\ back \in Seq(Messages) /\ down \in Seq(Messages)
           /\ Prefix(back, back) /\ rcvOpen \in BOOLEAN
           /\ \A f \in Files :
                 /\ f # NoFile /\ f \in Nat
                 /\ rows[f] \in RowRecord /\ rows[f].written \in Seq(Nat)
                 /\ Len(rows[f].written) \in Nat
  <1>1. /\ rcv \in ReceiverRecord /\ rows \in [Files -> RowRecord]
        /\ back \in Seq(Messages) /\ down \in Seq(Messages)
        /\ rcvOpen \in BOOLEAN
    BY DEF IInv, TypeOK
  <1>2. /\ rcv.current \in Files \cup {NoFile} /\ rcv.expected \in Nat
        /\ rcv.msg \in Messages
        /\ rcv.pc \in {"idle", "sink", "decrypt", "write"}
    BY <1>1 DEF ReceiverRecord
  <1>3. rcv.msg.index \in Nat
    BY <1>2 DEF Messages
  <1>4. ASSUME NEW f \in Files
        PROVE  /\ f # NoFile /\ f \in Nat
               /\ rows[f] \in RowRecord /\ rows[f].written \in Seq(Nat)
               /\ Len(rows[f].written) \in Nat
    <2>1. f # NoFile /\ f \in Nat
      BY TransferAssumption DEF Files, NoFile, TransferAssumption
    <2>2. rows[f] \in RowRecord
      BY <1>1
    <2>3. rows[f].written \in Seq(Nat)
      BY <2>2 DEF RowRecord
    <2> QED
      BY <2>1, <2>2, <2>3
  <1> QED
    BY <1>1, <1>2, <1>3, <1>4, PrefixOfSelf

LEMMA FileMetaIInv ==
    ASSUME IInv, HandleFileMeta
    PROVE  IInv'
  <1> USE DEF IInv
  <1>1. /\ UNCHANGED <<snd, detached, up, back, home, relay, rows, sndOpen, rcvOpen>>
        /\ chainStep("file_meta")
    BY DEF HandleFileMeta
  <1>2. PICK m \in Messages :
          /\ m = Head(down) /\ m \in Elems(down) /\ m.type = "file_meta"
          /\ m.file \in Files
          /\ rcv.pc = "idle" /\ down' \in Seq(Messages)
          /\ Elems(down') \subseteq Elems(down) /\ Ordered(down')
          /\ Sent' \subseteq Sent
          /\ m \in Sent /\ \A e \in Sent' : Before(m, e)
    BY <1>1, ChainTakes
  <1>3. rcv' = [rcv EXCEPT !.pc = "sink", !.msg = m, !.current = m.file,
                           !.expected = 0, !.status = "receiving",
                           !.receiving = TRUE]
    BY <1>2 DEF HandleFileMeta
  <1>4. /\ rcv' \in ReceiverRecord /\ rcv'.pc = "sink" /\ rcv'.msg = m
        /\ rcv'.current = m.file /\ rcv'.expected = 0
    BY <1>2, <1>3, ReceiverTyped DEF ReceiverRecord
  <1>5. Unknown(m.file) /\ Begun(m.file) /\ m.file # NoFile /\ m.file \in Nat
    BY <1>2, ReceiverTyped DEF Announced, SenderAhead
  <1>6. ChainStep'
    BY <1>1, <1>2, <1>4, <1>5 DEF ChainStep, Unknown, Busy, Begun
  <1>7. \A e \in Sent' : /\ e.file \in Files /\ e.file \in Nat /\ e.index \in Nat
                         /\ e.file >= m.file
                         /\ e.type = "file_meta" => e.file # m.file
    <2>1. \A e \in Sent' : e.file \in Files /\ e.index \in Nat
      BY <1>2, QueuesTyped DEF Sent, WellFormed
    <2>2. \A e \in Sent' : e.file \in Nat
      BY <2>1, ReceiverTyped
    <2> QED
      BY <1>2, <1>5, <2>1, <2>2 DEF Before
  <1>8. Current'
    <2>1. snd[m.file].index \in Nat
      BY <1>2, SendTyped
    <2> QED
      BY <1>1, <1>4, <1>5, <1>7, <2>1 DEF Current, Begun
  <1>9. Announced'
    <2>1. \A g : Unknown(g) /\ g # m.file => Unknown(g)'
      BY <1>1, <1>4 DEF Unknown
    <2>2. \A g \in Files : ~Begun(g) => g # m.file
      BY <1>5
    <2> QED
      BY <1>1, <1>2, <1>7, <2>1, <2>2 DEF Announced, Begun
  <1>10. Prefix(back', back) /\ rcvOpen' \in BOOLEAN /\ rows' \in [Files -> RowRecord]
    BY <1>1, ReceiverTyped
  <1>11. TakeStep
    BY <1>1, <1>2, <1>4, <1>6, <1>8, <1>9, <1>10 DEF TakeStep
  <1> QED
    BY <1>11, TakeIInv

LEMMA SinkReadyIInv ==
    ASSUME IInv, SinkReady
    PROVE  IInv'
  <1> USE DEF IInv
  <1> DEFINE f == rcv.msg.file
             e == [rows[f] EXCEPT !.state = "open"]
  <1>1. /\ UNCHANGED <<snd, detached, up, down, back, home, relay, sndOpen, rcvOpen>>
        /\ rcv.pc = "sink" /\ rcv' = [rcv EXCEPT !.pc = "idle"]
        /\ rows' = [rows EXCEPT ![f] = e]
    BY DEF SinkReady, wires
  <1>2. /\ rcv' \in ReceiverRecord /\ rcv'.pc = "idle" /\ rcv'.msg = rcv.msg
        /\ rcv'.current = rcv.current /\ rcv'.expected = rcv.expected
    BY <1>1, ReceiverTyped DEF ReceiverRecord
  <1>3. /\ f \in Files /\ Begun(f) /\ rcv.current \in {NoFile, f}
        /\ rcv.current # NoFile => rcv.expected = 0
        /\ rows[f] = [state |-> "none", written |-> <<>>]
        /\ rows[f] \in RowRecord
    BY <1>1, ReceiverTyped DEF ChainStep
  <1>4. e \in RowRecord /\ e.state = "open" /\ e.written = <<>>
        /\ rows[f].written = <<>>
    <2>1. rows[f] \in RowRecord
      BY <1>3
    <2>2. e \in RowRecord /\ e.state = "open" /\ e.written = rows[f].written
      BY <2>1 DEF RowRecord
    <2>3. rows[f].written = <<>>
      BY <1>3
    <2> QED
      BY <2>2, <2>3
  <1> HIDE DEF e, f
  <1>5. /\ rows' \in [Files -> RowRecord] /\ rows'[f] = e
        /\ \A g \in Files : g # f => rows'[g] = rows[g]
    BY <1>1, <1>3, <1>4, ReceiverTyped
  <1>6. ChainStep'
    BY <1>2 DEF ChainStep, Busy
  <1>7. Current'
    <2>1. Len(e.written) = 0
      BY <1>4
    <2> QED
      BY <1>1, <1>2, <1>3, <1>4, <1>5, <2>1 DEF Current, Begun, Sent
  <1>8. Announced'
    <2>1. \A g \in Files : Unknown(g) => Unknown(g)'
      BY <1>1, <1>2, <1>5 DEF Unknown, f
    <2>2. Sent' = Sent /\ \A m \in Sent : m.file \in Files
      BY <1>1 DEF Sent, WellFormed
    <2> QED
      BY <1>1, <2>1, <2>2 DEF Announced, Begun
  <1>9. \A g \in Files : /\ rows'[g].written = rows[g].written
                         /\ rows'[g].state \in {"closing", "saved"} =>
                               rows[g].state \in {"closing", "saved"}
    BY <1>4, <1>5
  <1>10. /\ Prefix(back', back) /\ rcvOpen' \in BOOLEAN /\ down' \in Seq(Messages)
         /\ Ordered(down') /\ Elems(down') = Elems(down)
    BY <1>1, ReceiverTyped DEF InOrder, Ordered
  <1>11. TakeStep
    BY <1>1, <1>2, <1>5, <1>6, <1>7, <1>8, <1>9, <1>10 DEF TakeStep
  <1> QED
    BY <1>11, TakeIInv

(* onError's rows.                                                         *)
LEMMA RowsFail ==
    ASSUME IInv, rows' = rowsFailed
    PROVE  /\ rows' \in [Files -> RowRecord]
           /\ \A g \in Files :
                 /\ rows'[g].written = rows[g].written
                 /\ rows[g].state = "open" => rows'[g].state = "error"
                 /\ rows[g].state # "open" => rows'[g] = rows[g]
                 /\ rows'[g].state \in {"closing", "saved"} =>
                       rows[g].state \in {"closing", "saved"}
  <1>1. ASSUME NEW g \in Files
        PROVE  /\ rows'[g] \in RowRecord
               /\ rows'[g].written = rows[g].written
               /\ rows[g].state = "open" => rows'[g].state = "error"
               /\ rows[g].state # "open" => rows'[g] = rows[g]
               /\ rows'[g].state \in {"closing", "saved"} =>
                     rows[g].state \in {"closing", "saved"}
    <2>1. rows[g] \in RowRecord
      BY ReceiverTyped
    <2>2. CASE rows[g].state = "open"
      <3>1. rows'[g] = [rows[g] EXCEPT !.state = "error"]
        BY <2>2 DEF rowsFailed, isOpen
      <3> QED
        BY <2>1, <2>2, <3>1 DEF RowRecord
    <2>3. CASE rows[g].state # "open"
      <3>1. rows'[g] = rows[g]
        BY <2>3 DEF rowsFailed, isOpen
      <3> QED
        BY <2>1, <2>3, <3>1
    <2> QED
      BY <2>2, <2>3
  <1>2. rows' = [g \in Files |-> rows'[g]]
    BY DEF rowsFailed
  <1> QED
    BY <1>1, <1>2

LEMMA ChunkIInv ==
    ASSUME IInv, HandleChunkFrame
    PROVE  IInv'
  <1> USE DEF IInv
  <1>1. /\ UNCHANGED <<snd, detached, up, back, home, relay, sndOpen, rcvOpen>>
        /\ chainStep("chunk")
    BY DEF HandleChunkFrame
  <1>2. PICK m \in Messages :
          /\ m = Head(down) /\ m \in Elems(down) /\ m.type = "chunk"
          /\ m.file \in Files
          /\ rcv.pc = "idle" /\ down' \in Seq(Messages)
          /\ Elems(down') \subseteq Elems(down) /\ Ordered(down')
          /\ Sent' \subseteq Sent
          /\ m \in Sent /\ \A e \in Sent' : Before(m, e)
    BY <1>1, ChainTakes
  <1>3. /\ Begun(m.file) /\ m.file # NoFile /\ m.file \in Nat
        /\ m.index \in Nat /\ m.index < snd[m.file].index
        /\ snd[m.file].index \in Nat
    BY <1>2, ReceiverTyped, QueuesTyped, SendTyped DEF SenderAhead
  <1>4. \A e \in Sent : e.file \in Files /\ e.file \in Nat /\ e.index \in Nat
    <2>1. \A e \in Sent : e.file \in Files /\ e.index \in Nat
      BY QueuesTyped DEF Sent, WellFormed
    <2> QED
      BY <2>1, ReceiverTyped
  <1>5. Prefix(back', back) /\ rcvOpen' \in BOOLEAN
        /\ rcv.current \in Files \cup {NoFile} /\ rcv.expected \in Nat
    BY <1>1, ReceiverTyped
  <1>6. CASE rcv.current = NoFile /\ UNCHANGED <<rcv, rows>>
    <2>1. ChainStep' /\ Current' /\ Announced'
      BY <1>1, <1>2, <1>6 DEF ChainStep, Current, Announced, Unknown, Begun, Busy
    <2>2. TakeStep
      BY <1>1, <1>2, <1>5, <1>6, <2>1, ReceiverTyped DEF TakeStep
    <2> QED
      BY <2>2, TakeIInv
  <1>7. CASE rcv.current # NoFile /\ ~expects(m) /\ rcv' = failed(rcv)
             /\ rows' = rowsFailed
    <2> DEFINE c == rcv.current
    <2>1. /\ rcv' \in ReceiverRecord /\ rcv'.pc = "idle" /\ rcv'.msg = rcv.msg
          /\ rcv'.current = c /\ rcv'.expected = rcv.expected
      BY <1>2, <1>7, ReceiverTyped DEF failed, ReceiverRecord
    <2>2. /\ rows' \in [Files -> RowRecord]
          /\ \A g \in Files :
                /\ rows'[g].written = rows[g].written
                /\ rows[g].state = "open" => rows'[g].state = "error"
                /\ rows[g].state # "open" => rows'[g] = rows[g]
                /\ rows'[g].state \in {"closing", "saved"} =>
                      rows[g].state \in {"closing", "saved"}
      BY <1>7, RowsFail
    <2>3. /\ c \in Files /\ c \in Nat /\ Begun(c)
          /\ snd[c].index \in Nat /\ snd[c].index >= rcv.expected
          /\ \A e \in Sent :
                /\ e.file >= c
                /\ e.file = c /\ e.type = "chunk" => e.index >= rcv.expected
      BY <1>5, <1>7, SendTyped, ReceiverTyped DEF Current
    <2>4. /\ \A e \in Sent' : e.type = "chunk" /\ e.file = c
                                 => e.index # rcv.expected
          /\ snd[c].index > rcv.expected \/ snd[c].pc \in Settled
      <3>1. CASE m.file = c
        <4>1. m.index > rcv.expected
          BY <1>2, <1>3, <1>5, <1>7, <2>3, <3>1 DEF expects
        <4>2. snd[c].index > rcv.expected
          BY <1>3, <1>5, <2>3, <3>1, <4>1
        <4>3. ASSUME NEW e \in Sent', e.type = "chunk", e.file = c
              PROVE  e.index # rcv.expected
          <5>1. m.index < e.index /\ e.index \in Nat
            BY <1>2, <1>3, <1>4, <3>1, <4>3 DEF Before
          <5> QED
            BY <1>3, <1>5, <4>1, <5>1
        <4> QED
          BY <4>2, <4>3
      <3>2. CASE m.file # c
        <4>1. m.file > c
          BY <1>2, <1>3, <2>3, <3>2
        <4>2. snd[c].pc \in Settled
          BY <1>2, <1>3, <2>3, <4>1 DEF InTurn, Begun
        <4>3. ASSUME NEW e \in Sent', e.file = c PROVE FALSE
          <5>1. e.file >= m.file
            BY <1>2, <1>3, <1>4, <4>3 DEF Before
          <5> QED
            BY <1>3, <2>3, <4>1, <4>3, <5>1
        <4> QED
          BY <4>2, <4>3
      <3> QED
        BY <3>1, <3>2
    <2>5. /\ rows'[c].state = "error"
      <3>1. rows[c].state \in {"open", "error"}
        BY <1>2, <1>7 DEF Current
      <3> QED
        BY <2>2, <2>3, <3>1
    <2>6. Current'
      BY <1>1, <1>2, <2>1, <2>3, <2>4, <2>5 DEF Current, Missed, Begun
    <2>7. ChainStep'
      BY <2>1 DEF ChainStep, Busy
    <2>8. Announced'
      <3>1. \A g \in Files : Unknown(g) => Unknown(g)'
        BY <1>2, <2>1, <2>2 DEF Unknown
      <3> QED
        BY <1>1, <1>2, <1>4, <3>1 DEF Announced, Begun
    <2>9. TakeStep
      BY <1>1, <1>2, <1>5, <2>1, <2>2, <2>6, <2>7, <2>8 DEF TakeStep
    <2> QED
      BY <2>9, TakeIInv
  <1>8. CASE rcv.current # NoFile /\ expects(m)
             /\ rcv' = [rcv EXCEPT !.pc = "decrypt", !.msg = m] /\ rows' = rows
    <2>1. /\ rcv' \in ReceiverRecord /\ rcv'.pc = "decrypt" /\ rcv'.msg = m
          /\ rcv'.current = m.file /\ rcv'.expected = m.index
          /\ rcv.current = m.file /\ rcv.expected = m.index
      BY <1>2, <1>8, ReceiverTyped DEF expects, ReceiverRecord
    <2>2. /\ rows[m.file].state = "open"
          /\ Len(rows[m.file].written) = rcv.expected
      BY <1>2, <1>8, <2>1 DEF Current, Missed
    <2>3. ChainStep'
      BY <1>1, <1>2, <1>3, <1>8, <2>1, <2>2 DEF ChainStep, Begun, Busy
    <2>4. Current'
      <3>1. /\ snd[m.file].index >= rcv.expected
            /\ \A e \in Sent :
                /\ e.file >= m.file
                /\ e.file = m.file /\ e.type = "chunk" => e.index >= rcv.expected
        BY <1>8, <2>1 DEF Current
      <3> QED
        BY <1>1, <1>2, <1>3, <1>8, <2>1, <2>2, <3>1 DEF Current, Begun
    <2>5. Announced'
      <3>1. ASSUME NEW e \in Sent', e.type = "file_meta" PROVE e.file # m.file
        BY <1>2, <1>3, <1>4, <3>1 DEF Before
      <3>2. \A g \in Files : Unknown(g) /\ g # m.file => Unknown(g)'
        BY <1>8, <2>1 DEF Unknown
      <3> QED
        BY <1>1, <1>2, <1>3, <1>4, <3>1, <3>2 DEF Announced, Begun
    <2>6. TakeStep
      BY <1>1, <1>2, <1>3, <1>5, <1>8, <2>1, <2>3, <2>4, <2>5, ReceiverTyped
         DEF TakeStep
    <2> QED
      BY <2>6, TakeIInv
  <1> QED
    BY <1>2, <1>6, <1>7, <1>8 DEF HandleChunkFrame

LEMMA SinkClosedIInv ==
    ASSUME IInv, NEW f \in Files, SinkClosed(f)
    PROVE  IInv'
  <1> USE DEF IInv
  <1>1. /\ UNCHANGED <<snd, detached, up, down, back, home, relay, rcv, sndOpen, rcvOpen>>
        /\ rows[f].state = "closing"
    BY DEF SinkClosed, wires
  <1>2. PICK s \in {"saved", "unsaved"} : rows' = [rows EXCEPT ![f].state = s]
    BY DEF SinkClosed
  <1> DEFINE e == [rows[f] EXCEPT !.state = s]
  <1>3. rows' = [rows EXCEPT ![f] = e]
    BY <1>2
  <1>4. e \in RowRecord /\ e.state = s /\ e.written = rows[f].written
    BY ReceiverTyped DEF RowRecord
  <1> HIDE DEF e
  <1>5. /\ rows' \in [Files -> RowRecord] /\ rows'[f] = e
        /\ \A g \in Files : g # f => rows'[g] = rows[g]
    BY <1>3, <1>4, ReceiverTyped
  <1>6. /\ rcv.pc # "idle" => rcv.msg.file \in Files
        /\ rcv.current \in Files \cup {NoFile}
    BY ReceiverTyped DEF ChainStep
  <1>7. /\ rcv.current # NoFile => rcv.current # f
        /\ rcv.pc = "sink" => rcv.msg.file # f
        /\ Busy /\ rcv.current # NoFile => rcv.msg.file # f
    <2>1. rcv.pc = "sink" => rcv.msg.file # f
      BY <1>1 DEF ChainStep
    <2>2. rcv.current # NoFile => rcv.current # f
      <3>1. rcv.pc = "sink" /\ rcv.current # NoFile => rcv.current = rcv.msg.file
        BY DEF ChainStep
      <3>2. rcv.pc # "sink" /\ rcv.current # NoFile =>
               rows[rcv.current].state \in {"open", "error"}
        BY DEF Current
      <3> QED
        BY <1>1, <2>1, <3>1, <3>2
    <2>3. Busy /\ rcv.current # NoFile => rcv.msg.file # f
      BY <1>1 DEF ChainStep
    <2> QED
      BY <2>1, <2>2, <2>3
  <1>8. ChainStep'
    <2>1. Busy => rcv.pc # "idle" /\ rcv.pc # "sink"
      BY DEF Busy
    <2> QED
      BY <1>1, <1>5, <1>6, <1>7, <2>1 DEF ChainStep, Begun, Busy
  <1>9. Current'
    BY <1>1, <1>5, <1>6, <1>7 DEF Current, Missed, Begun, Sent
  <1>10. Announced'
    <2>1. \A g \in Files : Unknown(g) => g # f
      BY <1>1 DEF Unknown
    <2>2. \A g \in Files : Unknown(g) => Unknown(g)'
      BY <1>1, <1>5, <2>1 DEF Unknown
    <2>3. Sent' = Sent /\ \A m \in Sent : m.file \in Files
      BY <1>1 DEF Sent, WellFormed
    <2> QED
      BY <1>1, <2>2, <2>3 DEF Announced, Begun
  <1>11. \A g \in Files : /\ rows'[g].written = rows[g].written
                          /\ rows'[g].state \in {"closing", "saved"} =>
                                rows[g].state \in {"closing", "saved"}
    BY <1>1, <1>4, <1>5
  <1>12. /\ Prefix(back', back) /\ rcvOpen' \in BOOLEAN /\ down' \in Seq(Messages)
         /\ Ordered(down') /\ Elems(down') = Elems(down) /\ rcv' \in ReceiverRecord
    BY <1>1, ReceiverTyped DEF InOrder, Ordered
  <1>13. rcv'.pc # "idle" => \A m \in Sent' : Before(rcv'.msg, m)
    BY <1>1 DEF InOrder, Sent
  <1>14. TakeStep
    BY <1>1, <1>5, <1>8, <1>9, <1>10, <1>11, <1>12, <1>13 DEF TakeStep, Busy
  <1> QED
    BY <1>14, TakeIInv

(* Steps after which the receiver has no current file.                     *)
LEMMA ClearsIInv ==
    ASSUME IInv, UNCHANGED <<snd, detached, up, home, relay, sndOpen>>,
           down' \in Seq(Messages), Elems(down') \subseteq Elems(down),
           Ordered(down'), Prefix(back', back), rcvOpen' \in BOOLEAN,
           rcv' \in ReceiverRecord, rcv'.current = NoFile,
           rcv'.pc = "idle" \/ (rcv'.pc = rcv.pc /\ rcv'.msg = rcv.msg),
           rcvOpen' => \/ rcv'.pc = "idle"
                       \/ rcv.current = NoFile /\ back' = back /\ rcvOpen,
           rows' \in [Files -> RowRecord],
           \A g \in Files :
              /\ rows'[g].written = rows[g].written
              /\ rows[g].state = "none" => rows'[g] = rows[g]
              /\ rows'[g].state \in {"closing", "saved"} =>
                    rows[g].state \in {"closing", "saved"}
    PROVE  IInv'
  <1> USE DEF IInv
  <1>1. Sent' \subseteq Sent
    BY DEF Sent
  <1>2. Current'
    BY DEF Current
  <1>3. ChainStep'
    <2>1. CASE rcv'.pc = "idle"
      BY <2>1 DEF ChainStep, Busy
    <2>2. CASE rcv'.pc = rcv.pc /\ rcv'.msg = rcv.msg /\ rcv.pc # "idle"
      <3>1. rcv.msg.file \in Files /\ Begun(rcv.msg.file)
        BY <2>2 DEF ChainStep
      <3>2. rcv.pc = "sink" =>
               /\ rcv.msg.type = "file_meta"
               /\ rows[rcv.msg.file] = [state |-> "none", written |-> <<>>]
        BY DEF ChainStep
      <3>3. rcv.pc = "sink" => rows'[rcv.msg.file] = rows[rcv.msg.file]
        BY <3>1, <3>2
      <3>4. Busy => /\ rcv.msg.type = "chunk"
                    /\ rcv.msg.index < snd[rcv.msg.file].index
        BY DEF ChainStep
      <3> QED
        BY <2>2, <3>1, <3>2, <3>3, <3>4 DEF ChainStep, Busy, Begun
    <2> QED
      BY <2>1, <2>2
  <1>4. Announced'
    <2>1. \A g \in Files : g # NoFile
      BY ReceiverTyped
    <2>2. \A g \in Files : Unknown(g) => Unknown(g)'
      BY <2>1 DEF Unknown
    <2>3. \A m \in Sent : m.file \in Files
      BY DEF Sent, WellFormed
    <2> QED
      BY <1>1, <2>2, <2>3 DEF Announced, Begun
  <1>5. rcv'.pc # "idle" => \A m \in Sent' : Before(rcv'.msg, m)
    BY <1>1 DEF InOrder
  <1>6. TakeStep
    BY <1>2, <1>3, <1>4, <1>5 DEF TakeStep, Busy
  <1> QED
    BY <1>6, TakeIInv

(* Steps that change neither the receiver's variables nor its rows.        *)
LEMMA KeepsIInv ==
    ASSUME IInv, UNCHANGED <<snd, detached, up, home, relay, sndOpen, rcv, rows>>,
           down' \in Seq(Messages), Elems(down') \subseteq Elems(down),
           Ordered(down'), Prefix(back', back), rcvOpen' \in BOOLEAN,
           rcvOpen' => back' = back /\ rcvOpen
    PROVE  IInv'
  <1> USE DEF IInv
  <1>1. Sent' \subseteq Sent
    BY DEF Sent
  <1>2. ChainStep'
    BY DEF ChainStep, Busy, Begun
  <1>3. Current'
    BY <1>1 DEF Current, Missed, Begun
  <1>4. Announced'
    BY <1>1 DEF Announced, Unknown, Begun
  <1>5. rcv.pc # "idle" => \A m \in Sent' : Before(rcv.msg, m)
    BY <1>1 DEF InOrder
  <1>6. TakeStep
    BY <1>1, <1>2, <1>3, <1>4, <1>5, ReceiverTyped DEF TakeStep, Busy
  <1> QED
    BY <1>6, TakeIInv

LEMMA DecryptedIInv ==
    ASSUME IInv, Decrypted
    PROVE  IInv'
  <1> USE DEF IInv
  <1>1. /\ UNCHANGED <<snd, detached, up, down, back, home, relay, sndOpen, rcvOpen>>
        /\ rcv.pc = "decrypt"
    BY DEF Decrypted, wires
  <1>2. /\ Prefix(back', back) /\ rcvOpen' \in BOOLEAN /\ down' \in Seq(Messages)
        /\ Ordered(down') /\ Elems(down') = Elems(down) /\ Sent' = Sent
    BY <1>1, ReceiverTyped DEF InOrder, Ordered, Sent
  <1>3. CASE rcv.current = NoFile /\ rcv' = [failed(rcv) EXCEPT !.pc = "idle"]
             /\ rows' = rowsFailed
    <2>1. rcv' \in ReceiverRecord /\ rcv'.pc = "idle" /\ rcv'.current = NoFile
      BY <1>3, ReceiverTyped DEF failed, ReceiverRecord
    <2>2. /\ rows' \in [Files -> RowRecord]
          /\ \A g \in Files :
                /\ rows'[g].written = rows[g].written
                /\ rows[g].state = "none" => rows'[g] = rows[g]
                /\ rows'[g].state \in {"closing", "saved"} =>
                      rows[g].state \in {"closing", "saved"}
      BY <1>3, RowsFail
    <2> QED
      BY <1>1, <1>2, <2>1, <2>2, ClearsIInv
  <1>4. CASE rcv.current # NoFile /\ rcv' = [rcv EXCEPT !.pc = "write"]
             /\ rows' = rows
    <2>1. /\ rcv' \in ReceiverRecord /\ rcv'.pc = "write" /\ rcv'.msg = rcv.msg
          /\ rcv'.current = rcv.current /\ rcv'.expected = rcv.expected
      BY <1>4, ReceiverTyped DEF ReceiverRecord
    <2>2. ChainStep'
      BY <1>1, <1>4, <2>1 DEF ChainStep, Busy, Begun
    <2>3. Current'
      BY <1>1, <1>2, <1>4, <2>1 DEF Current, Missed, Begun
    <2>4. Announced'
      <3>1. \A g \in Files : Unknown(g) => Unknown(g)'
        BY <1>1, <1>4, <2>1 DEF Unknown
      <3>2. \A m \in Sent : m.file \in Files
        BY DEF Sent, WellFormed
      <3> QED
        BY <1>1, <1>2, <3>1, <3>2 DEF Announced, Begun
    <2>5. \A m \in Sent' : Before(rcv'.msg, m)
      BY <1>1, <1>2, <2>1 DEF InOrder
    <2>6. TakeStep
      BY <1>1, <1>2, <1>4, <2>1, <2>2, <2>3, <2>4, <2>5, ReceiverTyped
         DEF TakeStep, Busy
    <2> QED
      BY <2>6, TakeIInv
  <1> QED
    BY <1>3, <1>4 DEF Decrypted

LEMMA WriteFailsIInv ==
    ASSUME IInv, WriteFails
    PROVE  IInv'
  <1> USE DEF IInv
  <1> DEFINE c == rcv.current
  <1>1. /\ UNCHANGED <<snd, detached, up, down, back, home, relay, sndOpen, rcvOpen>>
        /\ rcv.pc = "write" /\ rows' = rowsFailed
        /\ rcv' = [failed(rcv) EXCEPT !.pc = "idle"]
    BY DEF WriteFails, wires
  <1>2. /\ Prefix(back', back) /\ rcvOpen' \in BOOLEAN /\ down' \in Seq(Messages)
        /\ Ordered(down') /\ Elems(down') = Elems(down) /\ Sent' = Sent
    BY <1>1, ReceiverTyped DEF InOrder, Ordered, Sent
  <1>3. /\ rcv' \in ReceiverRecord /\ rcv'.pc = "idle" /\ rcv'.current = c
        /\ rcv'.expected = rcv.expected
    BY <1>1, ReceiverTyped DEF failed, ReceiverRecord
  <1>4. /\ rows' \in [Files -> RowRecord]
        /\ \A g \in Files :
              /\ rows'[g].written = rows[g].written
              /\ rows[g].state = "open" => rows'[g].state = "error"
              /\ rows[g].state # "open" => rows'[g] = rows[g]
              /\ rows'[g].state \in {"closing", "saved"} =>
                    rows[g].state \in {"closing", "saved"}
    BY <1>1, RowsFail
  <1>5. CASE c = NoFile
    BY <1>1, <1>2, <1>3, <1>4, <1>5, ClearsIInv
  <1>6. CASE c # NoFile
    <2>1. /\ c = rcv.msg.file /\ c \in Files /\ Begun(c)
          /\ rcv.msg.type = "chunk" /\ rcv.msg.index = rcv.expected
          /\ rcv.msg.index < snd[c].index /\ rows[c].state = "open"
      BY <1>1, <1>6 DEF ChainStep, Busy
    <2>2. snd[c].index \in Nat /\ rcv.expected \in Nat /\ c \in Nat
      BY <2>1, SendTyped, ReceiverTyped
    <2>3. ASSUME NEW e \in Sent, e.type = "chunk", e.file = c
          PROVE  e.index # rcv.expected
      <3>1. Before(rcv.msg, e) /\ e.index \in Nat
        BY <1>1, QueuesTyped DEF InOrder, Sent
      <3> QED
        BY <2>1, <2>2, <2>3, <3>1 DEF Before
    <2>4. /\ snd[c].index >= rcv.expected
          /\ \A m \in Sent : /\ m.file >= c
                             /\ m.file = c /\ m.type = "chunk" =>
                                   m.index >= rcv.expected
      BY <1>6 DEF Current
    <2>5. Current'
      BY <1>1, <1>2, <1>3, <1>4, <2>1, <2>2, <2>3, <2>4
         DEF Current, Missed, Begun
    <2>6. ChainStep'
      BY <1>3 DEF ChainStep, Busy
    <2>7. Announced'
      <3>1. \A g \in Files : Unknown(g) => Unknown(g)'
        BY <1>3, <1>4 DEF Unknown
      <3>2. \A m \in Sent : m.file \in Files
        BY DEF Sent, WellFormed
      <3> QED
        BY <1>1, <1>2, <3>1, <3>2 DEF Announced, Begun
    <2>8. TakeStep
      BY <1>1, <1>2, <1>3, <1>4, <2>5, <2>6, <2>7 DEF TakeStep
    <2> QED
      BY <2>8, TakeIInv
  <1> QED
    BY <1>5, <1>6

(* onAborted's row.                                                        *)
LEMMA RowsCancel ==
    ASSUME IInv, NEW f \in Files, rows' = rowsCanceled(f)
    PROVE  /\ rows' \in [Files -> RowRecord]
           /\ \A g \in Files :
                 /\ rows'[g].written = rows[g].written
                 /\ rows[g].state = "none" => rows'[g] = rows[g]
                 /\ rows'[g].state \in {"closing", "saved"} =>
                       rows[g].state \in {"closing", "saved"}
  <1>1. CASE rows[f].state = "none"
    BY <1>1, ReceiverTyped DEF rowsCanceled
  <1>2. CASE rows[f].state # "none"
    <2> DEFINE e == [rows[f] EXCEPT !.state = "canceled"]
    <2>1. rows' = [rows EXCEPT ![f] = e]
      BY <1>2 DEF rowsCanceled
    <2>2. e \in RowRecord /\ e.state = "canceled" /\ e.written = rows[f].written
      BY ReceiverTyped DEF RowRecord
    <2> HIDE DEF e
    <2>3. /\ rows' \in [Files -> RowRecord] /\ rows'[f] = e
          /\ \A g \in Files : g # f => rows'[g] = rows[g]
      BY <2>1, <2>2, ReceiverTyped
    <2> QED
      BY <1>2, <2>2, <2>3
  <1> QED
    BY <1>1, <1>2

LEMMA FileAbortIInv ==
    ASSUME IInv, HandleFileAbort
    PROVE  IInv'
  <1>1. /\ UNCHANGED <<snd, detached, up, back, home, relay, sndOpen, rcvOpen>>
        /\ chainStep("file_abort")
    BY DEF HandleFileAbort
  <1>2. PICK m \in Messages :
          /\ m = Head(down) /\ m.file \in Files
          /\ rcv.pc = "idle" /\ down' \in Seq(Messages)
          /\ Elems(down') \subseteq Elems(down) /\ Ordered(down')
    BY <1>1, ChainTakes
  <1>3. Prefix(back', back) /\ rcvOpen' \in BOOLEAN
    BY <1>1, ReceiverTyped
  <1>4. CASE rcv' = abandoned(rcv) /\ rows' = rowsCanceled(m.file)
    <2>1. rcv' \in ReceiverRecord /\ rcv'.pc = "idle" /\ rcv'.current = NoFile
      BY <1>2, <1>4, ReceiverTyped DEF abandoned, ReceiverRecord
    <2>2. /\ rows' \in [Files -> RowRecord]
          /\ \A g \in Files :
                /\ rows'[g].written = rows[g].written
                /\ rows[g].state = "none" => rows'[g] = rows[g]
                /\ rows'[g].state \in {"closing", "saved"} =>
                      rows[g].state \in {"closing", "saved"}
      BY <1>2, <1>4, RowsCancel
    <2> QED
      BY <1>1, <1>2, <1>3, <2>1, <2>2, ClearsIInv
  <1>5. CASE UNCHANGED <<rcv, rows>>
    BY <1>1, <1>2, <1>3, <1>5, KeepsIInv
  <1> QED
    BY <1>2, <1>4, <1>5 DEF HandleFileAbort

LEMMA ReceiverDropsIInv ==
    ASSUME IInv, ReceiverDrops
    PROVE  IInv'
  <1>1. /\ UNCHANGED <<snd, detached, up, home, relay, sndOpen>>
        /\ ~rcvOpen' /\ rcvOpen' \in BOOLEAN
        /\ down' \in cut(down) /\ back' \in cut(back)
    BY DEF ReceiverDrops
  <1>2. Prefix(back', back) /\ Prefix(down', down)
    BY <1>1, ReceiverTyped, PrefixCut
  <1>3. /\ down' \in Seq(Messages) /\ Elems(down') \subseteq Elems(down)
        /\ Ordered(down')
    BY <1>2 DEF Prefix, Ordered, IInv, InOrder
  <1>4. CASE rcv' = [failed(rcv) EXCEPT !.current = NoFile] /\ rows' = rowsFailed
    <2>1. /\ rcv' \in ReceiverRecord /\ rcv'.pc = rcv.pc /\ rcv'.msg = rcv.msg
          /\ rcv'.current = NoFile
      BY <1>4, ReceiverTyped DEF failed, ReceiverRecord
    <2>2. /\ rows' \in [Files -> RowRecord]
          /\ \A g \in Files :
                /\ rows'[g].written = rows[g].written
                /\ rows[g].state = "none" => rows'[g] = rows[g]
                /\ rows'[g].state \in {"closing", "saved"} =>
                      rows[g].state \in {"closing", "saved"}
      BY <1>4, RowsFail
    <2> QED
      BY <1>1, <1>2, <1>3, <2>1, <2>2, ClearsIInv
  <1>5. CASE UNCHANGED <<rcv, rows>>
    BY <1>1, <1>2, <1>3, <1>5, KeepsIInv
  <1> QED
    BY <1>4, <1>5 DEF ReceiverDrops

(* A step that sends the answer a: the ack of the chunk the receiver is    *)
(* busy with, or an abort.                                                 *)
AnswerStep(a) ==
    /\ UNCHANGED <<snd, detached, up, down, home, relay, sndOpen, rcvOpen>>
    /\ a \in Messages /\ a.type \in {"chunk_ack", "file_abort"}
    /\ a.file \in Files /\ Begun(a.file)
    /\ back' = deliver(back, rcvOpen, a)
    /\ rcv' \in ReceiverRecord /\ rows' \in [Files -> RowRecord]
    /\ rcv'.pc # "idle" => rcv'.pc = rcv.pc /\ rcv'.msg = rcv.msg
    /\ \A f \in Files :
          /\ Len(rows'[f].written) \in Nat
          /\ Len(rows'[f].written) >= Len(rows[f].written)
          /\ Len(rows'[f].written) > 0 =>
                frameBytes(f, Len(rows'[f].written) - 1) <= MaxFileSize
    /\ a.type = "chunk_ack" =>
          /\ rcv.pc = "write" /\ rcv'.pc = "idle"
          /\ a.file = rcv.msg.file /\ a.index = rcv.msg.index
          /\ a.index < Len(rows'[a.file].written) \/ rcv.current = NoFile
    /\ rcv'.pc \in {"decrypt", "write"} => isAbort(a, rcv'.msg.file)
    /\ WrittenInOrder' /\ SavedWhole' /\ ChainStep' /\ Current' /\ Announced'

LEMMA AnswerIInv ==
    ASSUME IInv, NEW a, AnswerStep(a)
    PROVE  IInv'
  <1> USE DEF IInv
  <1>1. /\ UNCHANGED <<snd, detached, up, down, home, relay, sndOpen, rcvOpen>>
        /\ a \in Messages /\ a.type \in {"chunk_ack", "file_abort"}
        /\ a.file \in Files /\ Begun(a.file)
        /\ back' = deliver(back, rcvOpen, a)
        /\ rcv' \in ReceiverRecord /\ rows' \in [Files -> RowRecord]
        /\ rcv'.pc # "idle" => rcv'.pc = rcv.pc /\ rcv'.msg = rcv.msg
        /\ WrittenInOrder' /\ SavedWhole' /\ ChainStep' /\ Current' /\ Announced'
    BY DEF AnswerStep
  <1>2. Grown(back, a, back') /\ (back' # back => rcvOpen)
        /\ (rcvOpen => back' = Append(back, a))
    BY <1>1 DEF Grown, deliver
  <1>3. Extended(back, a, back')
    BY <1>1, <1>2, ReceiverTyped, Delivered
  <1>4. /\ InTurn' /\ SenderAhead' /\ Window' /\ Counting' /\ Sent' \subseteq Sent
        /\ \A m \in Elems(up') \cup Elems(down') :
              /\ m.type \in {"file_meta", "chunk", "file_abort"}
              /\ m.file \in Files
        /\ \A m \in Elems(up') : ~m.limit
        /\ \A m \in Elems(down') : m.limit => m.type = "file_abort"
        /\ (relay.abort # NoFile => Begun(relay.abort))'
    BY <1>1, ReceiverFrame
  <1>5. TypeOK'
    BY <1>1, <1>3 DEF TypeOK, Extended
  <1>6. \A e \in Answers' : e \in Answers \/ (e = a /\ back' # back)
    <2>1. \A e \in Elems(back') : e \in Elems(back) \/ (e = a /\ back' # back)
      BY <1>3 DEF Extended
    <2> QED
      BY <1>1, <2>1 DEF Answers
  <1>7. WellFormed'
    <2>1. \A m \in Answers' : /\ m.type \in {"chunk_ack", "file_abort"}
                              /\ m.file \in Files /\ Begun(m.file)'
      BY <1>1, <1>6 DEF WellFormed, Begun
    <2> QED
      BY <1>4, <2>1 DEF WellFormed
  <1>8. InOrder'
    BY <1>1 DEF InOrder, Ordered, Sent
  <1>9. /\ \A j \in 1..Len(home) : home[j] \in Answers /\ home[j].file \in Files
        /\ \A j \in 1..Len(back) : back[j] \in Answers /\ back[j].file \in Files
    BY DEF WellFormed, Answers, Elems
  <1>10. \A e \in Answers : e.file \in Files /\ e.index \in Nat
    BY QueuesTyped DEF WellFormed
  <1>11. a.index \in Nat
    BY <1>1 DEF Messages
  <1>12. \A f \in Files, n \in Int : n < Len(rows[f].written) =>
             n < Len(rows'[f].written)
    BY ReceiverTyped DEF AnswerStep
  <1>13. AckOfWrite'
    <2>1. \A j \in 1..Len(home) : home[j].type = "chunk_ack" =>
             \/ home[j].index < Len(rows'[home[j].file].written)
             \/ Told(home[j].file)
             \/ AbortIn(home, j - 1, home[j].file)
      BY SMTT(30), <1>9, <1>10, <1>12 DEF AckOfWrite
    <2>2. ASSUME sndOpen, NEW j \in 1..Len(back'), back'[j].type = "chunk_ack"
          PROVE  \/ back'[j].index < Len(rows'[back'[j].file].written)
                 \/ Told(back'[j].file)
                 \/ \E i \in 1..(j - 1) : isAbort(back'[i], back'[j].file)
                 \/ AbortIn(home, Len(home), back'[j].file)
      <3>1. CASE j \in 1..Len(back)
        <4>1. back'[j] = back[j] /\ \A i \in 1..(j - 1) : back'[i] = back[i]
          BY <1>3, <3>1 DEF Extended
        <4>2. AbortIn(back, j - 1, back[j].file) =>
                 \E i \in 1..(j - 1) : isAbort(back'[i], back'[j].file)
          BY <4>1 DEF AbortIn
        <4>3. \/ back[j].index < Len(rows[back[j].file].written)
              \/ Told(back[j].file)
              \/ AbortIn(back, j - 1, back[j].file)
              \/ AbortIn(home, Len(home), back[j].file)
          BY <2>2, <3>1, <4>1 DEF AckOfWrite
        <4> QED
          BY <1>9, <1>10, <1>12, <3>1, <4>1, <4>2, <4>3
      <3>2. CASE j \notin 1..Len(back)
        <4>1. /\ back'[j] = a /\ j = Len(back) + 1 /\ back' # back
              /\ Len(back) \in Nat /\ \A i \in 1..Len(back) : back'[i] = back[i]
          BY <1>3, <3>2 DEF Extended
        <4>2. CASE a.index < Len(rows'[a.file].written)
          BY <4>1, <4>2
        <4>3. CASE rcv.current = NoFile
          <5>1. /\ rcvOpen /\ Busy /\ a.file = rcv.msg.file
            BY <1>2, <2>2, <4>1 DEF AnswerStep, Busy
          <5>2. \/ Told(a.file) \/ AbortIn(back, Len(back), a.file)
                \/ AbortIn(home, Len(home), a.file)
            BY <2>2, <4>3, <5>1 DEF AckOfWrite
          <5>3. j - 1 = Len(back)
            BY <4>1
          <5> QED
            BY <4>1, <5>2, <5>3 DEF AbortIn
        <4> QED
          BY <2>2, <4>1, <4>2, <4>3 DEF AnswerStep
      <3> QED
        BY <3>1, <3>2
    <2>3. rcvOpen /\ Busy' =>
             \E i \in 1..Len(back') : isAbort(back'[i], rcv'.msg.file)
      <3>1. Busy' => isAbort(a, rcv'.msg.file)
        BY DEF AnswerStep, Busy
      <3>2. rcvOpen => Len(back) + 1 \in 1..Len(back') /\ back'[Len(back) + 1] = a
        BY <1>2, <1>3 DEF Extended
      <3> QED
        BY <3>1, <3>2
    <2>4. /\ ~sndOpen => home = <<>>
          /\ \A f \in Files :
                /\ snd[f].aborted = "no" => snd[f].acked < Len(rows'[f].written)
                /\ snd[f].pc = "sent" =>
                      snd[f].aborted = "no" /\ snd[f].acked >= totalChunks(f) - 1
      BY <1>12, SendTyped DEF AckOfWrite
    <2> QED
      BY <1>1, <2>1, <2>2, <2>3, <2>4 DEF AckOfWrite, AbortIn, Told
  <1>14. a.type = "chunk_ack" =>
            /\ a.index > snd[a.file].acked /\ a.index < snd[a.file].index
            /\ \A m \in Sent :
                  m.type = "chunk" /\ m.file = a.file => a.index < m.index
            /\ \A e \in Answers :
                  e.type = "chunk_ack" /\ e.file = a.file => e.index < a.index
    <2> SUFFICES ASSUME a.type = "chunk_ack"
                 PROVE  /\ a.index > snd[a.file].acked
                        /\ a.index < snd[a.file].index
                        /\ \A m \in Sent : m.type = "chunk" /\ m.file = a.file
                                              => a.index < m.index
                        /\ \A e \in Answers :
                              e.type = "chunk_ack" /\ e.file = a.file
                                 => e.index < a.index
      OBVIOUS
    <2>1. /\ rcv.pc = "write" /\ Busy
          /\ a.file = rcv.msg.file /\ a.index = rcv.msg.index
      BY DEF AnswerStep, Busy
    <2>2. /\ rcv.msg.type = "chunk" /\ rcv.msg.index < snd[a.file].index
      BY <2>1 DEF ChainStep
    <2>3. rcv.msg.index > snd[a.file].acked
      BY <2>1 DEF AcksRise
    <2>4. ASSUME NEW m \in Sent, m.type = "chunk", m.file = a.file
          PROVE  a.index < m.index
      <3>1. Before(rcv.msg, m)
        BY <2>1 DEF InOrder
      <3>2. a.file \in Nat
        BY <1>1, ReceiverTyped
      <3> QED
        BY <2>1, <2>2, <2>4, <3>1, <3>2 DEF Before
    <2>5. \A e \in Answers :
             e.type = "chunk_ack" /\ e.file = a.file => e.index < a.index
      BY <2>1 DEF AcksRise
    <2> QED
      BY <2>1, <2>2, <2>3, <2>4, <2>5
  <1>15. AcksRise'
    <2>1. ASSUME NEW i \in 1..Len(back'), NEW j \in 1..Len(back'), i < j
          PROVE  Rising(back'[i], back'[j])
      <3>1. i \in 1..Len(back) /\ back'[i] = back[i]
        <4>1. i \notin (Len(back) + 1)..Len(back')
          BY <1>3, <2>1 DEF Extended
        <4> QED
          BY <1>3, <4>1 DEF Extended
      <3>2. CASE j \in 1..Len(back)
        BY <1>3, <2>1, <3>1, <3>2 DEF AcksRise, Extended
      <3>3. CASE j \notin 1..Len(back)
        <4>1. back'[j] = a
          BY <1>3, <3>3 DEF Extended
        <4> QED
          BY <1>9, <1>14, <3>1, <4>1 DEF Rising
      <3> QED
        BY <3>2, <3>3
    <2>2. ASSUME NEW i \in 1..Len(home), NEW j \in 1..Len(back')
          PROVE  Rising(home[i], back'[j])
      <3>1. CASE j \in 1..Len(back)
        BY <1>3, <3>1 DEF AcksRise, Extended
      <3>2. CASE j \notin 1..Len(back)
        <4>1. back'[j] = a
          BY <1>3, <3>2 DEF Extended
        <4> QED
          BY <1>9, <1>14, <4>1 DEF Rising
      <3> QED
        BY <3>1, <3>2
    <2>3. Busy' => Busy /\ rcv'.msg = rcv.msg
      BY <1>1 DEF Busy
    <2>4. Busy' => a.type # "chunk_ack"
      BY DEF AnswerStep, Busy
    <2>5. \A e \in Answers' : e.type = "chunk_ack" =>
             /\ e.index > snd[e.file].acked /\ e.index < snd[e.file].index
             /\ \A m \in Sent' :
                   m.type = "chunk" /\ m.file = e.file => e.index < m.index
             /\ Busy' /\ rcv'.msg.file = e.file => e.index < rcv'.msg.index
      <3>1. ASSUME NEW e \in Answers', e.type = "chunk_ack", e \in Answers
            PROVE  /\ e.index > snd[e.file].acked /\ e.index < snd[e.file].index
                   /\ \A m \in Sent : m.type = "chunk" /\ m.file = e.file
                                         => e.index < m.index
                   /\ Busy' /\ rcv'.msg.file = e.file => e.index < rcv'.msg.index
        BY <2>3, <3>1 DEF AcksRise
      <3>2. ASSUME NEW e \in Answers', e.type = "chunk_ack", e = a
            PROVE  /\ e.index > snd[e.file].acked /\ e.index < snd[e.file].index
                   /\ \A m \in Sent : m.type = "chunk" /\ m.file = e.file
                                         => e.index < m.index
                   /\ ~Busy'
        BY <1>14, <2>4, <3>2
      <3> QED
        BY <1>4, <1>6, <3>1, <3>2
    <2>6. /\ \A m \in Sent' : m.type = "chunk" => m.index > snd[m.file].acked
          /\ Busy' => rcv'.msg.index > snd[rcv'.msg.file].acked
          /\ \A i, j \in 1..Len(home) : i < j => Rising(home[i], home[j])
      BY <1>4, <2>3 DEF AcksRise
    <2> QED
      BY <1>1, <2>1, <2>2, <2>5, <2>6 DEF AcksRise
  <1>16. WithinLimit'
    <2>1. Busy' => Busy /\ rcv'.msg = rcv.msg
      BY <1>1 DEF Busy
    <2>2. \A f \in Files : Len(rows'[f].written) > 0 =>
             frameBytes(f, Len(rows'[f].written) - 1) <= MaxFileSize
      BY DEF AnswerStep
    <2> QED
      BY <1>1, <2>1, <2>2 DEF WithinLimit, LimitEnforced
  <1> QED
    BY <1>1, <1>4, <1>5, <1>7, <1>8, <1>13, <1>15, <1>16

LEMMA CancelReceiveIInv ==
    ASSUME IInv, CancelReceive
    PROVE  IInv'
  <1> USE DEF IInv
  <1> DEFINE f == rcv.current
  <1>1. /\ UNCHANGED <<snd, detached, up, down, home, relay, sndOpen, rcvOpen>>
        /\ f # NoFile /\ rcv' = abandoned(rcv) /\ rows' = rowsCanceled(f)
        /\ back' = deliver(back, rcvOpen, message("file_abort", f))
    BY DEF CancelReceive
  <1>2. f \in Files /\ Begun(f)
    BY <1>1, ReceiverTyped DEF Current
  <1>3. PICK a \in Messages : /\ a = message("file_abort", f)
                              /\ a.type = "file_abort" /\ a.file = f
    BY <1>2, MessageFields
  <1>4. /\ rcv' \in ReceiverRecord /\ rcv'.pc = rcv.pc /\ rcv'.msg = rcv.msg
        /\ rcv'.current = NoFile
    BY <1>1, ReceiverTyped DEF abandoned, ReceiverRecord
  <1>5. /\ rows' \in [Files -> RowRecord]
        /\ \A g \in Files :
              /\ rows'[g].written = rows[g].written
              /\ rows[g].state = "none" => rows'[g] = rows[g]
              /\ rows'[g].state \in {"closing", "saved"} =>
                    rows[g].state \in {"closing", "saved"}
    BY <1>1, <1>2, RowsCancel
  <1>6. WrittenInOrder' /\ SavedWhole'
    BY <1>5 DEF WrittenInOrder, SavedWhole
  <1>7. Sent' = Sent
    BY <1>1 DEF Sent
  <1>8. Current'
    BY <1>4 DEF Current
  <1>9. rcv.pc # "idle" => rcv.msg.file = f
    BY <1>1 DEF ChainStep
  <1>10. ChainStep'
    <2>1. CASE rcv.pc = "idle"
      BY <1>4, <2>1 DEF ChainStep, Busy
    <2>2. CASE rcv.pc # "idle"
      <3>1. rcv.pc = "sink" =>
               /\ rcv.msg.type = "file_meta"
               /\ rows[f] = [state |-> "none", written |-> <<>>]
        BY <1>9, <2>2 DEF ChainStep
      <3>2. rcv.pc = "sink" => rows'[f] = rows[f]
        BY <1>2, <1>5, <3>1
      <3>3. Busy => rcv.msg.type = "chunk" /\ rcv.msg.index < snd[f].index
        BY <1>9, <2>2 DEF ChainStep
      <3> QED
        BY <1>1, <1>2, <1>4, <1>9, <2>2, <3>1, <3>2, <3>3
           DEF ChainStep, Busy, Begun
    <2> QED
      BY <2>1, <2>2
  <1>11. Announced'
    <2>1. \A g \in Files : g # NoFile
      BY ReceiverTyped
    <2>2. \A g \in Files : Unknown(g) => Unknown(g)'
      BY <1>4, <1>5, <2>1 DEF Unknown
    <2>3. \A m \in Sent : m.file \in Files
      BY DEF Sent, WellFormed
    <2> QED
      BY <1>1, <1>7, <2>2, <2>3 DEF Announced, Begun
  <1>12. \A g \in Files :
            /\ Len(rows'[g].written) \in Nat
            /\ Len(rows'[g].written) >= Len(rows[g].written)
            /\ Len(rows'[g].written) > 0 =>
                  frameBytes(g, Len(rows'[g].written) - 1) <= MaxFileSize
    BY <1>5, ReceiverTyped DEF WithinLimit, LimitEnforced
  <1>13. rcv'.pc \in {"decrypt", "write"} => isAbort(a, rcv'.msg.file)
    BY <1>3, <1>4, <1>9 DEF isAbort
  <1>14. AnswerStep(a)
    BY <1>1, <1>2, <1>3, <1>4, <1>5, <1>6, <1>8, <1>10, <1>11, <1>12, <1>13
       DEF AnswerStep
  <1> QED
    BY <1>14, AnswerIInv

LEMMA NextChunk ==
    ASSUME NEW w \in Seq(Nat), w = first(Len(w))
    PROVE  /\ Append(w, Len(w)) \in Seq(Nat)
           /\ Len(Append(w, Len(w))) = Len(w) + 1
           /\ Append(w, Len(w)) = first(Len(w) + 1)
  <1> DEFINE n == Len(w)
             W == Append(w, n)
  <1>1. n \in Nat
    OBVIOUS
  <1>2. /\ W \in Seq(Nat) /\ Len(W) = n + 1 /\ W[n + 1] = n
        /\ \A i \in 1..n : W[i] = w[i]
    BY <1>1
  <1>3. W = [i \in 1..(n + 1) |-> W[i]]
    <2>1. \A s \in Seq(Nat) : s = [i \in 1..Len(s) |-> s[i]]
      OBVIOUS
    <2> HIDE DEF W
    <2> QED
      BY <1>2, <2>1
  <1>4. \A i \in 1..n : w[i] = i - 1
    BY DEF first
  <1> HIDE DEF n, W
  <1>5. ASSUME NEW i \in 1..(n + 1) PROVE W[i] = i - 1
    <2>1. i \in 1..n \/ i = n + 1
      BY <1>1
    <2> QED
      BY <1>1, <1>2, <1>4, <2>1
  <1>6. W = first(n + 1)
    BY <1>3, <1>5 DEF first
  <1> QED
    BY <1>2, <1>6 DEF n, W

LEMMA WriteDoneIInv ==
    ASSUME IInv, WriteDone
    PROVE  IInv'
  <1> USE DEF IInv
  <1> DEFINE f == rcv.msg.file
             k == rcv.msg.index
  <1>1. /\ UNCHANGED <<snd, detached, up, down, home, relay, sndOpen, rcvOpen>>
        /\ rcv.pc = "write" /\ Busy
        /\ back' = deliver(back, rcvOpen, chunk_ack(f, k))
    BY DEF WriteDone, Busy
  <1>2. /\ f \in Files /\ Begun(f) /\ f \in Nat /\ f # NoFile /\ k \in Nat
        /\ rcv.msg.type = "chunk" /\ k < snd[f].index
        /\ rcv.current \in {NoFile, f}
    BY <1>1, ReceiverTyped DEF ChainStep
  <1>3. PICK a \in Messages : /\ a = chunk_ack(f, k) /\ a.type = "chunk_ack"
                              /\ a.file = f /\ a.index = k
    <2>1. /\ chunk_ack(f, k) \in Messages /\ chunk_ack(f, k).type = "chunk_ack"
          /\ chunk_ack(f, k).file = f /\ chunk_ack(f, k).index = k
      BY <1>2 DEF chunk_ack, message, Messages
    <2> QED
      BY <2>1
  <1>4. /\ snd[f].index \in Nat /\ totalChunks(f) \in Nat
        /\ k + 1 <= snd[f].index /\ k + 1 <= totalChunks(f)
    BY <1>2, SendTyped
  <1>5. Sent' = Sent /\ \A m \in Sent : m.file \in Files
    BY <1>1 DEF Sent, WellFormed
  <1>6. \A g \in Files : Unknown(g) => g # f
    BY <1>1 DEF Unknown
  <1>7. CASE rcv.current = NoFile /\ rows' = rowsFailed
             /\ rcv' = failed([rcv EXCEPT !.pc = "idle"])
    <2>1. rcv' \in ReceiverRecord /\ rcv'.pc = "idle" /\ rcv'.current = NoFile
      BY <1>7, ReceiverTyped DEF failed, ReceiverRecord
    <2>2. /\ rows' \in [Files -> RowRecord]
          /\ \A g \in Files :
                /\ rows'[g].written = rows[g].written
                /\ rows[g].state = "none" => rows'[g] = rows[g]
                /\ rows'[g].state \in {"closing", "saved"} =>
                      rows[g].state \in {"closing", "saved"}
      BY <1>7, RowsFail
    <2>3. WrittenInOrder' /\ SavedWhole'
      BY <2>2 DEF WrittenInOrder, SavedWhole
    <2>4. ChainStep' /\ Current'
      BY <2>1 DEF ChainStep, Current, Busy
    <2>5. Announced'
      <3>1. \A g \in Files : g # NoFile
        BY ReceiverTyped
      <3>2. \A g \in Files : Unknown(g) => Unknown(g)'
        BY <2>1, <2>2, <3>1 DEF Unknown
      <3> QED
        BY <1>1, <1>5, <3>2 DEF Announced, Begun
    <2>6. \A g \in Files :
             /\ Len(rows'[g].written) \in Nat
             /\ Len(rows'[g].written) >= Len(rows[g].written)
             /\ Len(rows'[g].written) > 0 =>
                   frameBytes(g, Len(rows'[g].written) - 1) <= MaxFileSize
      BY <2>2, ReceiverTyped DEF WithinLimit, LimitEnforced
    <2>7. AnswerStep(a)
      BY <1>1, <1>2, <1>3, <1>7, <2>1, <2>2, <2>3, <2>4, <2>5, <2>6 DEF AnswerStep
    <2> QED
      BY <2>7, AnswerIInv
  <1>8. CASE rcv.current # NoFile
    <2>1. /\ rcv.current = f /\ rcv.expected = k /\ rows[f].state = "open"
      BY <1>1, <1>2, <1>8 DEF ChainStep
    <2>2. Len(rows[f].written) = k
      BY <1>1, <1>8, <2>1 DEF Current
    <2>3. PICK w \in Seq(Nat) : /\ w = Append(rows[f].written, k)
                                /\ Len(w) = k + 1 /\ w = first(k + 1)
      <3>1. /\ rows[f].written \in Seq(Nat)
            /\ rows[f].written = first(Len(rows[f].written))
        BY <1>2, ReceiverTyped DEF WrittenInOrder
      <3> QED
        BY <2>2, <3>1, NextChunk
    <2>4. rows[f] \in RowRecord /\ rows \in [Files -> RowRecord]
      BY <1>2, ReceiverTyped
    <2>5. PICK s \in {"open", "closing"} :
             /\ rows' = [rows EXCEPT ![f] = [state |-> s, written |-> w]]
             /\ s = "closing" => isLast(rcv.msg)
             /\ rcv' \in ReceiverRecord /\ rcv'.pc = "idle"
             /\ s = "open" => rcv'.current = f /\ rcv'.expected = k + 1
             /\ s = "closing" => rcv'.current = NoFile
      <3> DEFINE rs == [rows EXCEPT ![f].written = Append(@, k)]
      <3>1. isOpen(f)
        BY <2>1 DEF isOpen
      <3>2. rs = [rows EXCEPT ![f] = [state |-> "open", written |-> w]]
        <4>1. [rows[f] EXCEPT !.written = Append(@, k)]
                 = [state |-> "open", written |-> w]
          BY <2>1, <2>3, <2>4 DEF RowRecord
        <4> QED
          BY <4>1
      <3>3. CASE ~isLast(rcv.msg)
        <4>1. /\ rows' = rs
              /\ rcv' = [[rcv EXCEPT !.pc = "idle"] EXCEPT !.expected = @ + 1]
          BY <1>8, <3>1, <3>3 DEF WriteDone
        <4>2. rcv \in ReceiverRecord /\ rcv.expected + 1 \in Nat
          BY ReceiverTyped
        <4>3. /\ rcv' \in ReceiverRecord /\ rcv'.pc = "idle"
              /\ rcv'.current = rcv.current /\ rcv'.expected = rcv.expected + 1
          BY <4>1, <4>2 DEF ReceiverRecord
        <4> QED
          BY <2>1, <3>2, <3>3, <4>1, <4>3
      <3>4. CASE isLast(rcv.msg)
        <4>1. /\ rows' = [rs EXCEPT ![f].state = "closing"]
              /\ rcv' = [[rcv EXCEPT !.pc = "idle"] EXCEPT
                            !.current = NoFile, !.expected = @ + 1,
                            !.receiving = FALSE]
          BY <1>8, <3>1, <3>4 DEF WriteDone
        <4>2. /\ rcv' \in ReceiverRecord /\ rcv'.pc = "idle"
              /\ rcv'.current = NoFile
          <5>1. rcv \in ReceiverRecord /\ rcv.expected + 1 \in Nat
            BY ReceiverTyped
          <5> QED
            BY <4>1, <5>1 DEF ReceiverRecord
        <4>3. rows' = [rows EXCEPT ![f] = [state |-> "closing", written |-> w]]
          BY <1>2, <2>4, <3>2, <4>1
        <4> QED
          BY <3>4, <4>2, <4>3
      <3> QED
        BY <3>3, <3>4
    <2> DEFINE e == [state |-> s, written |-> w]
    <2>6. e \in RowRecord /\ e.state = s /\ e.written = w
      BY DEF RowRecord
    <2>7. rows' = [rows EXCEPT ![f] = e]
      BY <2>5
    <2> HIDE DEF e
    <2>8. /\ rows' \in [Files -> RowRecord] /\ rows'[f] = e
          /\ \A g \in Files : g # f => rows'[g] = rows[g]
      BY <1>2, <2>4, <2>6, <2>7
    <2>9. WrittenInOrder'
      <3>1. ASSUME NEW g \in Files
            PROVE  /\ rows'[g].written = first(Len(rows'[g].written))
                   /\ Len(rows'[g].written) <= totalChunks(g)
        BY <1>4, <2>3, <2>6, <2>8 DEF WrittenInOrder
      <3> QED
        BY <3>1 DEF WrittenInOrder
    <2>10. SavedWhole'
      <3>1. s = "closing" => w = allChunks(f)
        <4>1. s = "closing" => k + 1 = totalChunks(f)
          BY <1>2, <1>4, <2>5 DEF isLast
        <4> QED
          BY <2>3, <4>1 DEF first, allChunks
      <3>2. ASSUME NEW g \in Files, rows'[g].state \in {"closing", "saved"}
            PROVE  rows'[g].written = allChunks(g)
        BY <2>5, <2>6, <2>8, <3>1, <3>2 DEF SavedWhole
      <3> QED
        BY <3>2 DEF SavedWhole
    <2>11. ChainStep'
      BY <2>5 DEF ChainStep, Busy
    <2>12. Current'
      <3>1. CASE s = "closing"
        BY <2>5, <3>1 DEF Current
      <3>2. CASE s = "open"
        <4>1. ASSUME NEW m \in Sent
              PROVE  /\ m.file >= f
                     /\ m.file = f /\ m.type = "chunk" => m.index >= k + 1
          <5>1. Before(rcv.msg, m) /\ m.file >= f
            BY <1>1, <1>8, <2>1 DEF InOrder, Current
          <5>2. m.index \in Nat
            BY QueuesTyped DEF Sent
          <5> QED
            BY <1>2, <5>1, <5>2 DEF Before
        <4> QED
          BY <1>1, <1>2, <1>4, <1>5, <2>3, <2>5, <2>6, <2>8, <3>2, <4>1
             DEF Current, Begun
      <3> QED
        BY <3>1, <3>2
    <2>13. Announced'
      <3>1. \A g \in Files : g # NoFile
        BY ReceiverTyped
      <3>2. \A g \in Files : Unknown(g) => Unknown(g)'
        BY <1>6, <2>1, <2>5, <2>8, <3>1 DEF Unknown
      <3> QED
        BY <1>1, <1>5, <3>2 DEF Announced, Begun
    <2>14. ASSUME NEW g \in Files
           PROVE  /\ Len(rows'[g].written) \in Nat
                  /\ Len(rows'[g].written) >= Len(rows[g].written)
                  /\ Len(rows'[g].written) > 0 =>
                        frameBytes(g, Len(rows'[g].written) - 1) <= MaxFileSize
      <3>1. CASE g = f
        <4>1. frameBytes(f, k) <= MaxFileSize
          BY <1>1 DEF WithinLimit
        <4>2. (k + 1) - 1 = k
          BY <1>2
        <4>3. Len(rows'[f].written) = k + 1
          BY <1>2, <2>3, <2>6, <2>8
        <4> QED
          BY <1>2, <2>2, <3>1, <4>1, <4>2, <4>3
      <3>2. CASE g # f
        BY <2>8, <3>2, ReceiverTyped DEF WithinLimit, LimitEnforced
      <3> QED
        BY <3>1, <3>2
    <2>15. a.index < Len(rows'[a.file].written)
      BY <1>2, <1>3, <2>3, <2>6, <2>8
    <2>16. AnswerStep(a)
      BY <1>1, <1>2, <1>3, <2>5, <2>8, <2>9, <2>10, <2>11, <2>12, <2>13, <2>14,
         <2>15 DEF AnswerStep
    <2> QED
      BY <2>16, AnswerIInv
  <1> QED
    BY <1>7, <1>8 DEF WriteDone

-----------------------------------------------------------------------------
(* The specification *)

LEMMA InitIInv ==
    ASSUME Init
    PROVE  IInv
  <1>1. /\ up = <<>> /\ down = <<>> /\ back = <<>> /\ home = <<>>
        /\ detached = FALSE /\ sndOpen = TRUE /\ rcvOpen = TRUE
        /\ relay = [file |-> NoFile, bytes |-> 0, blocked |-> FALSE,
                    abort |-> NoFile]
        /\ rows = [f \in Files |-> [state |-> "none", written |-> <<>>]]
    BY DEF Init
  <1>2. /\ \A q : q = <<>> => Len(q) = 0 /\ q \in Seq(Messages) /\ Elems(q) = {}
        /\ 1..0 = {}
    <2>1. 1..0 = {} /\ Len(<<>>) = 0 /\ <<>> \in Seq(Messages)
      OBVIOUS
    <2>2. Elems(<<>>) = {}
      BY <2>1 DEF Elems
    <2> QED
      BY <2>1, <2>2
  <1>3. Elems(up) = {} /\ Elems(down) = {} /\ Sent = {} /\ Answers = {}
    BY <1>1, <1>2 DEF Sent, Answers
  <1>4. \A f \in Files : f # NoFile /\ size[f] \in Nat
    BY TransferAssumption DEF Files, NoFile, TransferAssumption
  <1>5. ASSUME NEW f \in Files
        PROVE  /\ snd[f] \in SendRecord /\ snd[f].pc = "queued"
               /\ snd[f].index = 0 /\ snd[f].acked = -1
               /\ rows[f] = [state |-> "none", written |-> <<>>]
               /\ rows[f] \in RowRecord
    BY DEF Init, SendRecord, RowRecord
  <1>6. snd = [f \in Files |-> snd[f]] /\ rows = [f \in Files |-> rows[f]]
    BY DEF Init
  <1>7. /\ rcv \in ReceiverRecord /\ rcv.pc = "idle" /\ rcv.current = NoFile
    <2>1. message("none", NoFile) \in Messages
      BY DEF message, Messages
    <2> QED
      BY <2>1 DEF Init, ReceiverRecord
  <1>8. /\ relay \in RelayRecord /\ relay.file = NoFile /\ relay.bytes = 0
        /\ ~relay.blocked /\ relay.abort = NoFile
    BY <1>1 DEF RelayRecord
  <1>9. TypeOK
    <2>1. snd \in [Files -> SendRecord] /\ rows \in [Files -> RowRecord]
      BY <1>5, <1>6
    <2>2. \A f \in Files : snd[f].index <= totalChunks(f)
      BY <1>5, ChunkCount
    <2>3. /\ up \in Seq(Messages) /\ down \in Seq(Messages)
          /\ back \in Seq(Messages) /\ home \in Seq(Messages)
      BY <1>1, <1>2
    <2> QED
      BY <1>1, <1>7, <1>8, <2>1, <2>2, <2>3 DEF TypeOK
  <1>10. WellFormed /\ InTurn /\ SenderAhead
    BY <1>3, <1>5, <1>8 DEF WellFormed, InTurn, SenderAhead
  <1>11. InOrder
    BY <1>1, <1>2, <1>7 DEF InOrder, Ordered
  <1>12. ChainStep /\ Current
    BY <1>7 DEF ChainStep, Current, Busy
  <1>13. Announced
    BY <1>3, <1>4, <1>5, <1>7 DEF Announced, Unknown
  <1>14. \A f \in Files : /\ rows[f].written = <<>> /\ Len(rows[f].written) = 0
                          /\ rows[f].state = "none"
    BY <1>5
  <1>15. WrittenInOrder
    <2>1. first(0) = <<>>
      BY DEF first
    <2> QED
      BY <1>14, <2>1, ChunkCount DEF WrittenInOrder
  <1>16. SavedWhole
    BY <1>14 DEF SavedWhole
  <1>17. AckOfWrite
    BY <1>1, <1>2, <1>5, <1>7, <1>14 DEF AckOfWrite, Busy
  <1>18. AcksRise
    BY <1>1, <1>2, <1>3, <1>7 DEF AcksRise, Busy
  <1>19. Window
    BY <1>5, TransferAssumption DEF Window, Begun, TransferAssumption
  <1>20. Counting
    <2>1. 0 <= MaxFileSize
      BY TransferAssumption DEF TransferAssumption
    <2>2. \A f \in Files : snd[f].pc \notin Listening
      BY <1>5 DEF Listening, Waiting
    <2> QED
      BY <1>1, <1>2, <1>8, <2>1, <2>2 DEF Counting
  <1>21. WithinLimit
    BY <1>1, <1>2, <1>7, <1>14 DEF WithinLimit, LimitEnforced, Busy
  <1> QED
    BY <1>9, <1>10, <1>11, <1>12, <1>13, <1>15, <1>16, <1>17, <1>18, <1>19,
       <1>20, <1>21 DEF IInv

LEMMA NextIInv ==
    ASSUME IInv, [Next]_vars
    PROVE  IInv'
  <1>1. ASSUME NEW f \in Files, Sending(f) \/ SinkClosed(f)
        PROVE  IInv'
    BY <1>1, StartFileIInv, SendMetaIInv, SendChunkIInv, ReadFailsIInv,
       SinkClosedIInv DEF Sending
  <1>2. CASE SenderHears
    BY <1>2, HearsIInv, DeafIInv
  <1>3. CASE Relaying \/ RelayBack
    BY <1>3, RelayForwardIInv, RelayAbortIInv, RelayBackIInv DEF Relaying
  <1>4. CASE Receiving
    BY <1>4, FileMetaIInv, SinkReadyIInv, ChunkIInv, DecryptedIInv,
       WriteDoneIInv, WriteFailsIInv, FileAbortIInv DEF Receiving
  <1>5. CASE Disturbing
    <2>1. ASSUME NEW f \in Files, CancelSend(f) PROVE IInv'
      BY <2>1, CancelIInv, ClickIInv
    <2> QED
      BY <1>5, <2>1, CancelReceiveIInv, SenderDropsIInv, ReceiverDropsIInv
         DEF Disturbing
  <1>6. CASE SenderDetach \/ ReceiverDetach
    BY <1>6, DetachIInv
  <1>7. CASE UNCHANGED vars
    <2>1. UNCHANGED <<snd, detached, up, down, back, home, relay, rcv, rows,
                      sndOpen, rcvOpen>>
      BY <1>7 DEF vars, wires
    <2>2. /\ down' \in Seq(Messages) /\ Elems(down') \subseteq Elems(down)
          /\ Ordered(down') /\ Prefix(back', back) /\ rcvOpen' \in BOOLEAN
      BY <2>1, ReceiverTyped DEF IInv, InOrder, Ordered
    <2> QED
      BY <2>1, <2>2, KeepsIInv
  <1> QED
    BY <1>1, <1>2, <1>3, <1>4, <1>5, <1>6, <1>7 DEF Next

(* Everything under way between the two clients, from the chunk a sender   *)
(* reads next to the ack it last heard, stays in order and accounted for.  *)
THEOREM AlwaysIInv == Spec => []IInv
  <1>1. Init => IInv
    BY InitIInv
  <1>2. IInv /\ [Next]_vars => IInv'
    BY NextIInv
  <1> QED
    BY <1>1, <1>2, PTL DEF Spec

(* sendFile, Session.currentFile and attachReceiver keep their variables   *)
(* in range, and the for loop of sendFile ends at totalChunks.             *)
THEOREM TypesHold == Spec => []TypeOK
  <1>1. IInv => TypeOK
    BY DEF IInv
  <1> QED
    BY <1>1, AlwaysIInv, PTL

(* A file whose sink is closed by onFileComplete holds every chunk once    *)
(* and in order, for any number, size and fate of the files around it.     *)
THEOREM SavedAlwaysWhole == Spec => []SavedWhole
  <1>1. IInv => SavedWhole
    BY DEF IInv
  <1> QED
    BY <1>1, AlwaysIInv, PTL

(* When sendFile resolves as sent, every chunk has been given to the       *)
(* receiver's sink: its last wait is for an ack that followed the write.   *)
THEOREM SentAlwaysWritten == Spec => []SentIsWritten
  <1>1. ASSUME IInv PROVE SentIsWritten
    <2> SUFFICES ASSUME NEW f \in Files, snd[f].pc = "sent"
                 PROVE  rows[f].written = allChunks(f)
      BY DEF SentIsWritten
    <2>1. snd[f].acked >= totalChunks(f) - 1
          /\ snd[f].acked < Len(rows[f].written)
      BY <1>1 DEF IInv, AckOfWrite
    <2>2. /\ rows[f].written = first(Len(rows[f].written))
          /\ Len(rows[f].written) <= totalChunks(f)
      BY <1>1 DEF IInv, WrittenInOrder
    <2>3. /\ snd[f].acked \in Int /\ totalChunks(f) \in Nat
          /\ Len(rows[f].written) \in Nat
      BY <1>1, SendTyped, ReceiverTyped DEF IInv
    <2>4. Len(rows[f].written) = totalChunks(f)
      BY <2>1, <2>2, <2>3
    <2> QED
      BY <2>2, <2>4 DEF first, allChunks
  <1> QED
    BY <1>1, AlwaysIInv, PTL

(* sendFile never resolves as sent once it knows of an abort, by its       *)
(* AbortSignal, by a file_abort of the receiver or by one of the relay.    *)
THEOREM AbortsAlwaysHonoured == Spec => []AbortHonoured
  <1>1. IInv => AbortHonoured
    BY DEF IInv, AckOfWrite, AbortHonoured
  <1> QED
    BY <1>1, AlwaysIInv, PTL

(* recordChunkBytes lets no chunk of a file through after the one that     *)
(* crossed the limit, and so none is written.                              *)
THEOREM LimitAlwaysEnforced == Spec => []LimitEnforced
  <1>1. IInv => LimitEnforced
    BY DEF IInv, WithinLimit
  <1> QED
    BY <1>1, AlwaysIInv, PTL

(* The chunks of a file in a queue are as many as their numbers.           *)
LEMMA Numbered ==
    ASSUME NEW q \in Seq(Messages), NEW f \in Files, Ordered(q),
           \A j \in 1..Len(q) : q[j].type = "chunk" => ~q[j].limit
    PROVE  LET C == {e \in Elems(q) : e.type = "chunk" /\ e.file = f}
               I == {e.index : e \in C} IN
           IsFiniteSet(I) /\ Cardinality(I) = inFlight(f, q)
  <1> DEFINE C == {e \in Elems(q) : e.type = "chunk" /\ e.file = f}
             I == {e.index : e \in C}
             S == {j \in 1..Len(q) : q[j].type = "chunk" /\ q[j].file = f}
             F == [j \in S |-> q[j].index]
  <1>1. Len(q) \in Nat /\ f \in Nat
    BY TransferAssumption DEF Files, TransferAssumption
  <1>2. \A j \in 1..Len(q) : q[j].index \in Nat
    <2>1. \A j \in 1..Len(q) : q[j] \in Messages
      OBVIOUS
    <2> QED
      BY <2>1 DEF Messages
  <1>3. IsFiniteSet(S)
    <2>1. IsFiniteSet(1..Len(q)) /\ S \in SUBSET (1..Len(q))
      BY <1>1, FS_Interval
    <2> QED
      BY <2>1, FS_Subset
  <1>4. F \in [S -> I]
    BY DEF Elems
  <1>5. \A t \in I : \E j \in S : F[j] = t
    BY DEF Elems
  <1>6. ASSUME NEW i \in S, NEW j \in S, i < j PROVE F[i] < F[j]
    <2>1. Before(q[i], q[j])
      BY <1>6 DEF Ordered
    <2> QED
      BY <1>1, <1>6, <2>1 DEF Before
  <1>7. \A i, j \in S : F[i] = F[j] => i = j
    <2> SUFFICES ASSUME NEW i \in S, NEW j \in S, F[i] = F[j], i # j
                 PROVE  FALSE
      OBVIOUS
    <2>1. i < j \/ j < i
      BY <1>1
    <2>2. F[i] \in Nat /\ F[j] \in Nat
      BY <1>2
    <2> HIDE DEF F
    <2> QED
      BY <1>6, <2>1, <2>2
  <1>8. F \in Bijection(S, I)
    <2> HIDE DEF F, S, I
    <2> QED
      BY <1>4, <1>5, <1>7 DEF Bijection, Injection, Surjection, IsInjective
  <1>9. IsFiniteSet(I) /\ Cardinality(I) = Cardinality(S)
    <2> HIDE DEF F, S, I
    <2> QED
      BY <1>3, <1>8, FS_Bijection DEF ExistsBijection
  <1> QED
    BY <1>9 DEF inFlight

(* The window of sendFile bounds what one file has piled up in the relay   *)
(* and in processingChain, whatever is lost, canceled or refused.          *)
THEOREM BacklogAlwaysBounded == Spec => []BacklogBounded
  <1>1. ASSUME IInv PROVE BacklogBounded
    <2> SUFFICES ASSUME NEW f \in Files
                 PROVE  inFlight(f, up) + inFlight(f, down) +
                           (IF rcv.pc \in {"decrypt", "write"} /\ rcv.msg.file = f
                            THEN 1 ELSE 0) <= WINDOW_SIZE
      BY DEF BacklogBounded
    <2> USE <1>1 DEF IInv
    <2> DEFINE chunks(q) == {e \in Elems(q) : e.type = "chunk" /\ e.file = f}
               U == {e.index : e \in chunks(up)}
               D == {e.index : e \in chunks(down)}
               B == IF Busy /\ rcv.msg.file = f THEN {rcv.msg.index} ELSE {}
               s == snd[f]
               W == (s.acked + 1)..(s.index - 1)
    <2>1. /\ s.acked \in Int /\ s.index \in Nat /\ s.acked < s.index
          /\ s.index - 1 - s.acked <= WINDOW_SIZE /\ WINDOW_SIZE \in Nat
          /\ f \in Nat
      BY SendTyped, ReceiverTyped DEF Window
    <2>2. \A e \in chunks(up) \cup chunks(down) :
             /\ e \in Sent /\ e.index \in Nat /\ e.index \in W
      <3>1. \A e \in chunks(up) \cup chunks(down) : ~e.limit
        BY DEF WellFormed, TypeOK
      <3>2. \A e \in chunks(up) \cup chunks(down) : e \in Sent /\ e.index \in Nat
        BY <3>1, QueuesTyped DEF Sent
      <3>3. \A e \in chunks(up) \cup chunks(down) :
               e.index > s.acked /\ e.index < s.index
        BY <3>2 DEF AcksRise, SenderAhead
      <3> QED
        BY <2>1, <3>2, <3>3
    <2>3. Busy /\ rcv.msg.file = f =>
             /\ rcv.msg.index \in W /\ rcv.msg.index \in Nat
             /\ rcv.msg.type = "chunk" /\ rcv.pc # "idle"
      <3>1. Busy /\ rcv.msg.file = f =>
               /\ rcv.msg.index > s.acked /\ rcv.msg.index < s.index
               /\ rcv.msg.type = "chunk"
        BY DEF AcksRise, ChainStep
      <3>2. rcv.msg.index \in Nat
        BY ReceiverTyped
      <3>3. Busy => rcv.pc # "idle"
        BY DEF Busy
      <3> QED
        BY <2>1, <3>1, <3>2, <3>3
    <2>4. \A e \in chunks(down), m \in chunks(up) : e.index < m.index
      <3>1. \A e \in chunks(down), m \in chunks(up) : Before(e, m)
        BY <2>2 DEF InOrder, Elems, Sent
      <3> QED
        BY <2>1, <3>1 DEF Before
    <2>5. Busy /\ rcv.msg.file = f =>
             \A e \in chunks(up) \cup chunks(down) : rcv.msg.index < e.index
      BY <2>1, <2>2, <2>3 DEF InOrder, Before
    <2>6. U \cap D = {} /\ (U \cup D) \cap B = {}
      BY <2>2, <2>3, <2>4, <2>5
    <2>7. U \cup D \cup B \in SUBSET W
      BY <2>2, <2>3
    <2>8. /\ IsFiniteSet(U) /\ Cardinality(U) = inFlight(f, up)
          /\ IsFiniteSet(D) /\ Cardinality(D) = inFlight(f, down)
      <3>1. /\ up \in Seq(Messages) /\ down \in Seq(Messages)
            /\ Ordered(up) /\ Ordered(down)
            /\ \A j \in 1..Len(up) : up[j].type = "chunk" => ~up[j].limit
            /\ \A j \in 1..Len(down) : down[j].type = "chunk" => ~down[j].limit
        BY DEF TypeOK, InOrder, WellFormed, Elems
      <3> QED
        BY <3>1, Numbered
    <2>9. IsFiniteSet(B) /\ Cardinality(B) = IF Busy /\ rcv.msg.file = f
                                            THEN 1 ELSE 0
      BY FS_Singleton, FS_EmptySet
    <2>10. IsFiniteSet(W) /\ Cardinality(W) <= WINDOW_SIZE
      <3>1. s.acked + 1 \in Int /\ s.index - 1 \in Int
        BY <2>1
      <3>2. /\ IsFiniteSet(W)
            /\ Cardinality(W) = IF s.acked + 1 > s.index - 1 THEN 0
                                ELSE (s.index - 1) - (s.acked + 1) + 1
        BY <3>1, FS_Interval
      <3> HIDE DEF W
      <3> QED
        BY <2>1, <3>2
    <2> HIDE DEF U, D, B, W
    <2>11. /\ IsFiniteSet(U \cup D)
           /\ Cardinality(U \cup D) = Cardinality(U) + Cardinality(D)
      <3>1. /\ IsFiniteSet(U \cup D)
            /\ Cardinality(U \cup D)
                  = Cardinality(U) + Cardinality(D) - Cardinality(U \cap D)
        BY <2>8, FS_Union
      <3>2. Cardinality(U \cap D) = 0
        BY <2>6, FS_EmptySet
      <3>3. Cardinality(U) \in Nat /\ Cardinality(D) \in Nat
        BY <2>8, FS_CardinalityType
      <3> QED
        BY <3>1, <3>2, <3>3
    <2>12. Cardinality(U \cup D \cup B)
              = Cardinality(U) + Cardinality(D) + Cardinality(B)
      <3>1. Cardinality(U \cup D \cup B) = Cardinality(U \cup D)
               + Cardinality(B) - Cardinality((U \cup D) \cap B)
        BY <2>9, <2>11, FS_Union
      <3>2. Cardinality((U \cup D) \cap B) = 0
        BY <2>6, FS_EmptySet
      <3>3. /\ Cardinality(U) \in Nat /\ Cardinality(D) \in Nat
            /\ Cardinality(B) \in Nat
        BY <2>8, <2>9, FS_CardinalityType
      <3> QED
        BY <2>11, <3>1, <3>2, <3>3
    <2>13. Cardinality(U \cup D \cup B) <= WINDOW_SIZE
      <3>1. /\ IsFiniteSet(U \cup D \cup B)
            /\ Cardinality(U \cup D \cup B) <= Cardinality(W)
        BY <2>7, <2>10, FS_Subset
      <3>2. Cardinality(U \cup D \cup B) \in Nat /\ Cardinality(W) \in Nat
        BY <2>10, <3>1, FS_CardinalityType
      <3> QED
        BY <2>1, <2>10, <3>1, <3>2
    <2> QED
      BY <2>8, <2>9, <2>12, <2>13 DEF Busy
  <1> QED
    BY <1>1, AlwaysIInv, PTL

=============================================================================
