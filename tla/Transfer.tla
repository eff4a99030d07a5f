------------------------------ MODULE Transfer ------------------------------
(***************************************************************************)
(* One batch of files over a paired session: sendFile with its window of   *)
(* unacknowledged chunks, the relay's forwarding and per-file size meter,  *)
(* attachReceiver's chain of asynchronous steps, and the rows of the two   *)
(* transfer screens.                                                       *)
(*                                                                         *)
(*   web/transfer.js                     sendFile, attachReceiver          *)
(*   web/transfer-ui.js                  sendFiles, the receiver's rows    *)
(*   server/internal/session/session.go  recordChunkBytes                  *)
(*   server/internal/session/hub.go      Relay, abortOversizedFile         *)
(*                                                                         *)
(* A step of a client runs from one await to the next: nothing else runs   *)
(* in a browser tab in between.  WebSockets keep their order; a connection *)
(* that closes loses any suffix of what is under way in it.  A send on a   *)
(* closed WebSocket is ignored by the browser, it does not throw.          *)
(*                                                                         *)
(* The module covers one pair of sockets, up to the re-render that follows *)
(* a reconnect (SenderDetach, ReceiverDetach).                             *)
(***************************************************************************)
EXTENDS Integers, Sequences, FiniteSets

CONSTANTS
    FileCount,        \* the files of the batch are 1..FileCount
    size,             \* size[f]: File.size
    CHUNK_SIZE,
    WINDOW_SIZE,
    FrameOverhead,    \* frame header and GCM tag
    MaxFileSize,      \* QUICKSEND_MAX_FILE_SIZE_BYTES
    Faults            \* what users, disks and networks may do wrong

Files == 1..FileCount

ASSUME TransferAssumption ==
    /\ FileCount \in Nat
    /\ size \in [Files -> Nat]
    /\ CHUNK_SIZE \in Nat \ {0}
    /\ WINDOW_SIZE \in Nat \ {0}
    /\ FrameOverhead \in Nat
    /\ MaxFileSize \in Nat \ {0}

VARIABLES
    snd,        \* snd[f]: sendFile's locals, and the row it reports to
    detached,   \* the sender's screen has been rendered anew
    up,         \* sender to relay
    down,       \* relay to receiver, up to the end of processingChain
    back,       \* receiver to relay
    home,       \* relay to sender
    relay,      \* Session.currentFile, and the file_abort still to be sent
    rcv,        \* attachReceiver's locals, and the screen's status line
    rows,       \* rows[f]: the receiver's row and what its sink was given
    sndOpen,    \* the sender's socket
    rcvOpen     \* the receiver's socket

wires == <<up, down, back, home>>
vars  == <<snd, detached, wires, relay, rcv, rows, sndOpen, rcvOpen>>

NoFile == 0

totalChunks(f) ==
    IF size[f] = 0 THEN 1 ELSE (size[f] + CHUNK_SIZE - 1) \div CHUNK_SIZE

(* The end of chunk i in the file.                                         *)
chunkEnd(f, i) ==
    IF (i + 1) * CHUNK_SIZE < size[f] THEN (i + 1) * CHUNK_SIZE ELSE size[f]

(* Frame bytes of the first n chunks of f.                                 *)
frameBytes(f, n) ==
    n * FrameOverhead + (IF n = 0 THEN 0 ELSE chunkEnd(f, n - 1))

frameLen(m) == frameBytes(m.file, m.index + 1) - frameBytes(m.file, m.index)

message(type, f) == [type |-> type, file |-> f, index |-> 0, limit |-> FALSE]
chunk(f, i)      == [message("chunk", f) EXCEPT !.index = i]
chunk_ack(f, i)  == [message("chunk_ack", f) EXCEPT !.index = i]
isLast(m)        == m.index = totalChunks(m.file) - 1

(* What is left of a queue whose connection closes.                        *)
cut(q) == {SubSeq(q, 1, n) : n \in 0..Len(q)}

deliver(q, open, m) == IF open THEN Append(q, m) ELSE q

Init ==
    /\ snd = [f \in Files |->
                [pc |-> "queued", index |-> 0, acked |-> -1,
                 aborted |-> "no", lost |-> FALSE, clicked |-> FALSE]]
    /\ detached = FALSE
    /\ up = <<>> /\ down = <<>> /\ back = <<>> /\ home = <<>>
    /\ relay = [file |-> NoFile, bytes |-> 0, blocked |-> FALSE,
                abort |-> NoFile]
    /\ rcv = [pc |-> "idle", msg |-> message("none", NoFile),
              current |-> NoFile, expected |-> 0, status |-> "waiting",
              receiving |-> FALSE, attached |-> TRUE]
    /\ rows = [f \in Files |-> [state |-> "none", written |-> <<>>]]
    /\ sndOpen = TRUE
    /\ rcvOpen = TRUE

-----------------------------------------------------------------------------
(* The sender *)

Waiting   == {"window", "final"}          \* in ackWaiters
Listening == {"reading"} \cup Waiting     \* its event listeners are attached
Settled   == {"sent", "canceled", "error"}

(* Mutant: off by one.                                                     *)
windowFull_oneMore(s) == s.index - 1 - s.acked > WINDOW_SIZE

windowFull(s) == s.index - 1 - s.acked >= WINDOW_SIZE

(* Mutant: the for loop runs to totalChunks, not to totalChunks - 1.       *)
runOn_pastEnd(f, s) ==
    [s EXCEPT !.pc = IF windowFull(s) THEN "window"
                     ELSE IF s.aborted # "no" THEN "canceled"
                     ELSE IF s.index <= totalChunks(f) THEN "reading"
                     ELSE "sent"]

(* Mutant: the last wait is for an ack of totalChunks.                     *)
runOn_waitsForMore(f, s) ==
    [s EXCEPT !.pc = IF s.index < totalChunks(f) /\ windowFull(s)
                     THEN "window"
                     ELSE IF s.aborted # "no" THEN "canceled"
                     ELSE IF s.index < totalChunks(f) THEN "reading"
                     ELSE IF s.acked < totalChunks(f) THEN "final"
                     ELSE "sent"]

(* From the head of the for loop to the next await or to the end.  The     *)
(* window is looked at before the abort.                                   *)
runOn(f, s) ==
    [s EXCEPT !.pc =
        CASE s.index < totalChunks(f) /\ windowFull(s)    -> "window"
          [] s.index < totalChunks(f) /\ ~windowFull(s)
             /\ s.aborted = "no"                          -> "reading"
          [] s.index = totalChunks(f) /\ s.aborted = "no"
             /\ s.acked < totalChunks(f) - 1              -> "final"
          [] s.index = totalChunks(f) /\ s.aborted = "no"
             /\ s.acked >= totalChunks(f) - 1             -> "sent"
          [] OTHER                                        -> "canceled"]

(* Mutant: the last wait looks at the acks only.                           *)
wake_acksOnly(f, s) ==
    IF s.pc \notin Waiting THEN s
    ELSE IF s.lost THEN [s EXCEPT !.pc = "error"]
    ELSE [runOn(f, [s EXCEPT !.aborted = "no"]) EXCEPT !.aborted = s.aborted]

(* An event has set one of sendFile's variables and wakes its waiters;     *)
(* when it waits for nothing, it will see the variable when it next looks. *)
wake(f, s) ==
    IF s.pc \notin Waiting THEN s
    ELSE IF s.lost THEN [s EXCEPT !.pc = "error"]
    ELSE IF s.aborted # "no" THEN [s EXCEPT !.pc = "canceled"]
    ELSE runOn(f, s)

(* A cancel of our own is told to the receiver, a remote one is not.       *)
tellAbort(f, s, q) ==
    IF s.pc = "canceled" /\ s.aborted = "local"
    THEN deliver(q, sndOpen, message("file_abort", f)) ELSE q

(* sendFiles: one file after the other, until a new render.                *)
StartFile(f) ==
    /\ snd[f].pc = "queued"
    /\ ~detached
    /\ \A g \in 1..(f - 1) : snd[g].pc \in Settled
    /\ snd' = [snd EXCEPT ![f].pc = "meta"]
    /\ UNCHANGED <<detached, wires, relay, rcv, rows, sndOpen, rcvOpen>>

(* The key is derived and the metadata encrypted: send it, and only now    *)
(* attach the listeners.                                                   *)
SendMeta(f) ==
    /\ snd[f].pc = "meta"
    /\ up' = deliver(up, sndOpen, message("file_meta", f))
    /\ snd' = [snd EXCEPT ![f] = runOn(f, snd[f])]
    /\ UNCHANGED <<detached, down, back, home, relay, rcv, rows, sndOpen,
                   rcvOpen>>

(* The chunk has been read and encrypted.                                  *)
SendChunk(f) ==
    LET s == runOn(f, [snd[f] EXCEPT !.index = @ + 1]) IN
    /\ snd[f].pc = "reading"
    /\ snd' = [snd EXCEPT ![f] = s]
    /\ up' = tellAbort(f, s, deliver(up, sndOpen, chunk(f, snd[f].index)))
    /\ UNCHANGED <<detached, down, back, home, relay, rcv, rows, sndOpen,
                   rcvOpen>>

(* Mutant: without the catch block's file_abort.                           *)
ReadFails_silent(f) ==
    /\ "readFails" \in Faults
    /\ snd[f].pc = "reading"
    /\ snd' = [snd EXCEPT ![f].pc = "error"]
    /\ UNCHANGED <<detached, wires, relay, rcv, rows, sndOpen, rcvOpen>>

(* Reading or encrypting throws; the receiver is told to give up.          *)
ReadFails(f) ==
    /\ "readFails" \in Faults
    /\ snd[f].pc = "reading"
    /\ snd' = [snd EXCEPT ![f].pc = "error"]
    /\ up' = IF snd[f].lost THEN up
             ELSE deliver(up, sndOpen, message("file_abort", f))
    /\ UNCHANGED <<detached, down, back, home, relay, rcv, rows, sndOpen,
                   rcvOpen>>

(* The row's cancel button, which works once.  An AbortSignal that fires   *)
(* before sendFile listens is not seen.                                    *)
CancelSend(f) ==
    LET s == wake(f, [snd[f] EXCEPT !.clicked = TRUE, !.aborted = "local"])
    IN
    /\ "cancelSend" \in Faults
    /\ ~snd[f].clicked
    /\ \/ /\ snd[f].pc \in Listening
          /\ snd' = [snd EXCEPT ![f] = s]
          /\ up' = tellAbort(f, s, up)
       \/ /\ snd[f].pc = "meta"
          /\ snd' = [snd EXCEPT ![f].clicked = TRUE]
          /\ UNCHANGED up
    /\ UNCHANGED <<detached, down, back, home, relay, rcv, rows, sndOpen,
                   rcvOpen>>

(* sendFile's onMessage, for the file the message is about.                *)
hear(s, m) ==
    CASE m.type = "chunk_ack"  -> [s EXCEPT !.acked = m.index]
      [] m.type = "file_abort" ->
            [s EXCEPT !.aborted = IF m.limit THEN "limit" ELSE "remote"]

SenderHears ==
    LET m == Head(home)
        s == wake(m.file, hear(snd[m.file], m)) IN
    /\ home # <<>>
    /\ home' = Tail(home)
    /\ \/ /\ snd[m.file].pc \in Listening
          /\ snd' = [snd EXCEPT ![m.file] = s]
          /\ up' = tellAbort(m.file, s, up)
       \/ /\ snd[m.file].pc \notin Listening
          /\ UNCHANGED <<snd, up>>
    /\ UNCHANGED <<detached, down, back, relay, rcv, rows, sndOpen, rcvOpen>>

(* The sender's socket closes; onClose of the send that is listening.      *)
SenderDrops ==
    /\ "senderDrops" \in Faults
    /\ sndOpen
    /\ sndOpen' = FALSE
    /\ snd' = [f \in Files |->
                 IF snd[f].pc \in Listening
                 THEN wake(f, [snd[f] EXCEPT !.lost = TRUE]) ELSE snd[f]]
    /\ up' \in cut(up)
    /\ home' = <<>>
    /\ UNCHANGED <<detached, down, back, relay, rcv, rows, rcvOpen>>

(* A reconnect of either peer renders the sender's screen anew.            *)
SenderDetach ==
    /\ ~detached
    /\ ~sndOpen \/ ~rcvOpen
    /\ detached' = TRUE
    /\ UNCHANGED <<snd, wires, relay, rcv, rows, sndOpen, rcvOpen>>

-----------------------------------------------------------------------------
(* The relay *)

(* recordChunkBytes: the file being counted is the one of the frame.       *)
metered(m) ==
    IF relay.file = m.file THEN relay
    ELSE [relay EXCEPT !.file = m.file, !.bytes = 0, !.blocked = FALSE]

(* Mutant: the file that crossed the limit is not remembered.              *)
recordChunkBytes_forgets(m) ==
    LET total == metered(m).bytes + frameLen(m) IN
    IF total > MaxFileSize
    THEN [metered(m) EXCEPT !.file = NoFile, !.bytes = 0, !.abort = m.file]
    ELSE [metered(m) EXCEPT !.bytes = total]

recordChunkBytes(m) ==
    LET t     == metered(m)
        total == t.bytes + frameLen(m) IN
    CASE t.blocked -> t
      [] ~t.blocked /\ total > MaxFileSize ->
            [t EXCEPT !.bytes = total, !.blocked = TRUE, !.abort = m.file]
      [] ~t.blocked /\ total <= MaxFileSize /\ isLast(m) ->
            [t EXCEPT !.file = NoFile, !.bytes = 0]
      [] OTHER -> [t EXCEPT !.bytes = total]

(* Relay, from sender to receiver.  A frame of a blocked file is dropped;  *)
(* the one that crosses the limit still goes through.                      *)
RelayForward ==
    LET m == Head(up) IN
    /\ up # <<>>
    /\ relay.abort = NoFile
    /\ up' = Tail(up)
    /\ \/ /\ m.type = "chunk"
          /\ relay' = recordChunkBytes(m)
          /\ down' = IF metered(m).blocked THEN down
                     ELSE deliver(down, rcvOpen /\ rcv.attached, m)
       \/ /\ m.type # "chunk"
          /\ down' = deliver(down, rcvOpen /\ rcv.attached, m)
          /\ UNCHANGED relay
    /\ UNCHANGED <<snd, detached, back, home, rcv, rows, sndOpen, rcvOpen>>

(* abortOversizedFile, deferred until the frame has been sent.             *)
RelayAbort ==
    LET m == [message("file_abort", relay.abort) EXCEPT !.limit = TRUE] IN
    /\ relay.abort # NoFile
    /\ relay' = [relay EXCEPT !.abort = NoFile]
    /\ down' = deliver(down, rcvOpen /\ rcv.attached, m)
    /\ home' = deliver(home, sndOpen, m)
    /\ UNCHANGED <<snd, detached, up, back, rcv, rows, sndOpen, rcvOpen>>

(* Relay, from receiver to sender.                                         *)
RelayBack ==
    /\ back # <<>>
    /\ back' = Tail(back)
    /\ home' = deliver(home, sndOpen, Head(back))
    /\ UNCHANGED <<snd, detached, up, down, relay, rcv, rows, sndOpen,
                   rcvOpen>>

-----------------------------------------------------------------------------
(* The receiver *)

isOpen(f) == rows[f].state = "open"

(* onError: the status line, and every row that is not done.               *)
failed(r) == [r EXCEPT !.status = "error", !.receiving = FALSE]

rowsFailed ==
    [f \in Files |-> IF isOpen(f) THEN [rows[f] EXCEPT !.state = "error"]
                     ELSE rows[f]]

(* onAborted, once current has been cleared.                               *)
abandoned(r) ==
    [r EXCEPT !.current = NoFile, !.status = "waiting", !.receiving = FALSE]

rowsCanceled(f) ==
    IF rows[f].state = "none" THEN rows
    ELSE [rows EXCEPT ![f].state = "canceled"]

(* The next step of processingChain handles a message of this type.        *)
chainStep(type) ==
    /\ rcv.pc = "idle"
    /\ down # <<>>
    /\ Head(down).type = type
    /\ down' = Tail(down)

(* handleFileMeta, as far as the sink's save dialog.                       *)
HandleFileMeta ==
    /\ chainStep("file_meta")
    /\ rcv' = [rcv EXCEPT !.pc = "sink", !.msg = Head(down),
                          !.current = Head(down).file, !.expected = 0,
                          !.status = "receiving", !.receiving = TRUE]
    /\ UNCHANGED <<snd, detached, up, back, home, relay, rows, sndOpen,
                   rcvOpen>>

SinkReady ==
    /\ rcv.pc = "sink"
    /\ rcv' = [rcv EXCEPT !.pc = "idle"]
    /\ rows' = [rows EXCEPT ![rcv.msg.file].state = "open"]
    /\ UNCHANGED <<snd, detached, wires, relay, sndOpen, rcvOpen>>

(* Mutant: the chunk index is not compared.                                *)
expects_anyIndex(m) == m.file = rcv.current

expects(m) == m.file = rcv.current /\ m.index = rcv.expected

(* handleChunkFrame, as far as the decryption.                             *)
HandleChunkFrame ==
    LET m == Head(down) IN
    /\ chainStep("chunk")
    /\ \/ /\ rcv.current = NoFile
          /\ UNCHANGED <<rcv, rows>>
       \/ /\ rcv.current # NoFile
          /\ ~expects(m)
          /\ rcv' = failed(rcv)
          /\ rows' = rowsFailed
       \/ /\ rcv.current # NoFile
          /\ expects(m)
          /\ rcv' = [rcv EXCEPT !.pc = "decrypt", !.msg = m]
          /\ UNCHANGED rows
    /\ UNCHANGED <<snd, detached, up, back, home, relay, sndOpen, rcvOpen>>

(* Decrypted.  When current has been cleared meanwhile, reading its        *)
(* expectedIndex throws, and chainStep reports the TypeError.              *)
Decrypted ==
    /\ rcv.pc = "decrypt"
    /\ \/ /\ rcv.current = NoFile
          /\ rcv' = [failed(rcv) EXCEPT !.pc = "idle"]
          /\ rows' = rowsFailed
       \/ /\ rcv.current # NoFile
          /\ rcv' = [rcv EXCEPT !.pc = "write"]
          /\ UNCHANGED rows
    /\ UNCHANGED <<snd, detached, wires, relay, sndOpen, rcvOpen>>

(* onChunk has written the chunk (unless its row is done): acknowledge it, *)
(* and advance or complete.  Again current may be gone, and throw.         *)
WriteDone ==
    LET m  == rcv.msg
        rs == IF isOpen(m.file)
              THEN [rows EXCEPT ![m.file].written = Append(@, m.index)]
              ELSE rows
        r  == [rcv EXCEPT !.pc = "idle"] IN
    /\ rcv.pc = "write"
    /\ back' = deliver(back, rcvOpen, chunk_ack(m.file, m.index))
    /\ \/ /\ rcv.current = NoFile
          /\ rcv' = failed(r)
          /\ rows' = rowsFailed
       \/ /\ rcv.current # NoFile
          /\ ~isLast(m)
          /\ rcv' = [r EXCEPT !.expected = @ + 1]
          /\ rows' = rs
       \/ /\ rcv.current # NoFile
          /\ isLast(m)
          /\ rcv' = [r EXCEPT !.current = NoFile, !.expected = @ + 1,
                              !.receiving = FALSE]
          /\ rows' = [rs EXCEPT ![m.file].state = "closing"]
    /\ UNCHANGED <<snd, detached, up, down, home, relay, sndOpen, rcvOpen>>

(* Mutant: the ack is sent whether or not the write succeeds.              *)
WriteFails_acked ==
    /\ "writeFails" \in Faults
    /\ rcv.pc = "write"
    /\ rcv' = [failed(rcv) EXCEPT !.pc = "idle", !.expected = @ + 1]
    /\ rows' = rowsFailed
    /\ back' = deliver(back, rcvOpen, chunk_ack(rcv.msg.file, rcv.msg.index))
    /\ UNCHANGED <<snd, detached, up, down, home, relay, sndOpen, rcvOpen>>

(* The sink's write rejects: chainStep reports it, current stays.          *)
WriteFails ==
    /\ "writeFails" \in Faults
    /\ rcv.pc = "write"
    /\ rcv' = [failed(rcv) EXCEPT !.pc = "idle"]
    /\ rows' = rowsFailed
    /\ UNCHANGED <<snd, detached, wires, relay, sndOpen, rcvOpen>>

(* The sink's close, the end of onFileComplete.                            *)
SinkClosed(f) ==
    /\ rows[f].state = "closing"
    /\ \/ rows' = [rows EXCEPT ![f].state = "saved"]
       \/ /\ "writeFails" \in Faults
          /\ rows' = [rows EXCEPT ![f].state = "unsaved"]
    /\ UNCHANGED <<snd, detached, wires, relay, rcv, sndOpen, rcvOpen>>

HandleFileAbort ==
    LET f == Head(down).file IN
    /\ chainStep("file_abort")
    /\ \/ /\ f = rcv.current
          /\ rcv' = abandoned(rcv)
          /\ rows' = rowsCanceled(f)
       \/ /\ f # rcv.current
          /\ UNCHANGED <<rcv, rows>>
    /\ UNCHANGED <<snd, detached, up, back, home, relay, sndOpen, rcvOpen>>

(* abortCurrent, by the cancel button of an unfinished row.                *)
CancelReceive ==
    LET f == rcv.current IN
    /\ "cancelReceive" \in Faults
    /\ rcv.attached
    /\ f # NoFile
    /\ \E g \in Files : isOpen(g)
    /\ rcv' = abandoned(rcv)
    /\ rows' = rowsCanceled(f)
    /\ back' = deliver(back, rcvOpen, message("file_abort", f))
    /\ UNCHANGED <<snd, detached, up, down, home, relay, sndOpen, rcvOpen>>

(* The receiver's socket closes; attachReceiver's onClose.                 *)
ReceiverDrops ==
    /\ "receiverDrops" \in Faults
    /\ rcvOpen
    /\ rcvOpen' = FALSE
    /\ down' \in cut(down)
    /\ back' \in cut(back)
    /\ \/ /\ rcv.attached /\ rcv.current # NoFile
          /\ rcv' = [failed(rcv) EXCEPT !.current = NoFile]
          /\ rows' = rowsFailed
       \/ /\ ~rcv.attached \/ rcv.current = NoFile
          /\ UNCHANGED <<rcv, rows>>
    /\ UNCHANGED <<snd, detached, up, home, relay, sndOpen>>

(* A reconnect of either peer renders the receiver's screen anew: detach   *)
(* removes the listeners.                                                  *)
ReceiverDetach ==
    /\ rcv.attached
    /\ ~rcvOpen \/ (~sndOpen /\ up = <<>> /\ relay.abort = NoFile)
    /\ rcv' = [rcv EXCEPT !.attached = FALSE]
    /\ down' \in cut(down)
    /\ UNCHANGED <<snd, detached, up, back, home, relay, rows, sndOpen,
                   rcvOpen>>

-----------------------------------------------------------------------------

(* What the two programs and the relay do by themselves.                   *)
Sending(f) == StartFile(f) \/ SendMeta(f) \/ SendChunk(f) \/ ReadFails(f)

Relaying == RelayForward \/ RelayAbort

Receiving ==
    \/ HandleFileMeta
    \/ SinkReady
    \/ HandleChunkFrame
    \/ Decrypted
    \/ WriteDone
    \/ WriteFails
    \/ HandleFileAbort

(* What users and networks do to them.                                     *)
Disturbing ==
    \/ \E f \in Files : CancelSend(f)
    \/ CancelReceive
    \/ SenderDrops
    \/ ReceiverDrops

Next ==
    \/ \E f \in Files : Sending(f) \/ SinkClosed(f)
    \/ SenderHears
    \/ Relaying
    \/ RelayBack
    \/ Receiving
    \/ Disturbing
    \/ SenderDetach
    \/ ReceiverDetach

Spec == Init /\ [][Next]_vars

(* Promises settle, queued messages are delivered, the relay's goroutines  *)
(* run, and a screen that has lost its peer is rendered again or left.     *)
Fairness ==
    /\ \A f \in Files : WF_vars(Sending(f)) /\ WF_vars(SinkClosed(f))
    /\ WF_vars(SenderHears)
    /\ WF_vars(Relaying)
    /\ WF_vars(RelayBack)
    /\ WF_vars(Receiving)
    /\ WF_vars(SenderDetach)
    /\ WF_vars(ReceiverDetach)

FairSpec == Spec /\ Fairness

-----------------------------------------------------------------------------
(* Properties *)

Messages ==
    [type : {"none", "file_meta", "chunk", "chunk_ack", "file_abort"},
     file : Files \cup {NoFile}, index : Nat, limit : BOOLEAN]

SendRecord ==
    [pc : {"queued", "meta"} \cup Listening \cup Settled,
     index : Nat, acked : Nat \cup {-1},
     aborted : {"no", "local", "remote", "limit"},
     lost : BOOLEAN, clicked : BOOLEAN]

RelayRecord ==
    [file : Files \cup {NoFile}, bytes : Nat, blocked : BOOLEAN,
     abort : Files \cup {NoFile}]

ReceiverRecord ==
    [pc : {"idle", "sink", "decrypt", "write"}, msg : Messages,
     current : Files \cup {NoFile}, expected : Nat,
     status : {"waiting", "receiving", "error"}, receiving : BOOLEAN,
     attached : BOOLEAN]

RowRecord ==
    [state : {"none", "open", "canceled", "error", "closing", "saved",
              "unsaved"},
     written : Seq(Nat)]

(* Every field holds a value of its type, and no sender runs past the last *)
(* chunk of its file.                                                      *)
TypeOK ==
    /\ snd \in [Files -> SendRecord]
    /\ \A f \in Files : snd[f].index <= totalChunks(f)
    /\ detached \in BOOLEAN
    /\ up \in Seq(Messages) /\ down \in Seq(Messages)
    /\ back \in Seq(Messages) /\ home \in Seq(Messages)
    /\ relay \in RelayRecord
    /\ rcv \in ReceiverRecord
    /\ rows \in [Files -> RowRecord]
    /\ sndOpen \in BOOLEAN
    /\ rcvOpen \in BOOLEAN

allChunks(f) == [i \in 1..totalChunks(f) |-> i - 1]

(* A file the receiver closes as complete holds all of its chunks, each    *)
(* once and in order, whatever was canceled, failed or dropped before and  *)
(* after it.                                                               *)
SavedWhole ==
    \A f \in Files : rows[f].state \in {"closing", "saved"} =>
        rows[f].written = allChunks(f)

(* A row that says "Sent" has been handed to the receiver's sink whole:    *)
(* the ack of a chunk follows its write.                                   *)
SentIsWritten ==
    \A f \in Files : snd[f].pc = "sent" =>
        rows[f].written = allChunks(f)

(* An abort that sendFile has heard of, its own or a remote one, never     *)
(* ends as "Sent", whatever acks arrive before it is acted on.             *)
AbortHonoured ==
    \A f \in Files : snd[f].aborted # "no" => snd[f].pc # "sent"

inFlight(f, q) ==
    Cardinality({j \in 1..Len(q) : q[j].type = "chunk" /\ q[j].file = f})

(* "The sender keeps at most WINDOW_SIZE (8) chunks unacknowledged at      *)
(* once" (PROTOCOL.md): what one file can pile up in front of a slow       *)
(* receiver, in the relay and in its own chain together.                   *)
BacklogBounded ==
    \A f \in Files :
        inFlight(f, up) + inFlight(f, down) +
        (IF rcv.pc \in {"decrypt", "write"} /\ rcv.msg.file = f
         THEN 1 ELSE 0) <= WINDOW_SIZE

(* The relay passes no chunk of a file on after the one that crossed       *)
(* MaxFileSize, whatever other files it has been counting in between.      *)
LimitEnforced ==
    /\ \A j \in 1..Len(down) : down[j].type = "chunk" =>
          frameBytes(down[j].file, down[j].index) <= MaxFileSize
    /\ \A f \in Files : Len(rows[f].written) > 0 =>
          frameBytes(f, Len(rows[f].written) - 1) <= MaxFileSize

(* Every file whose send begins comes to an end on the sender's screen.    *)
SendSettles ==
    \A f \in Files : snd[f].pc = "meta" ~> snd[f].pc \in Settled

(* The receiver is not "left waiting for a chunk that's never coming"      *)
(* (transfer.js): every row that is opened is finished or discarded.       *)
ReceiveSettles == \A f \in Files : isOpen(f) ~> ~isOpen(f)
=============================================================================
