# Quicksend: TLA+ models, model checking and proofs

Quicksend sends files between two browsers through a small relay. The browsers
pair over a QR code (the URL carries the key) or a short code (PAKE), encrypt
everything end to end, and stream files in acknowledged chunks. The relay sees
only opaque frames; it pairs connections, forwards, limits and cleans up.

This directory models the parts of Quicksend whose correctness depends on the
order in which independent things happen. Source paths below are relative to
`src/`.

## 1. Inventory

| Component | Source | State it keeps | Operations | Talks to |
|---|---|---|---|---|
| Relay hub | `server/internal/session/hub.go` | `sessions`, `ipCounts`, `codes`, `guesses` (all under `h.mu`) | `CreateSession`, `CreateCodeSession`, `JoinSession`, `JoinByCode`, `attachGuest`, `RegisterReconnectToken`, `Reconnect`, `Relay`, `EndSession`, `HandleDisconnect`, `ReapOnce`/`reapSession` | sessions; connections through `Conn.Send`/`Close` |
| Session | `server/internal/session/session.go` | two peer slots, `lastActivity`, the size meter `currentFile` (under `s.mu`) | `attach`, `reattach`, `markDisconnected`, `snapshot`, `recordChunkBytes` | called by the hub |
| WebSocket handler | `server/internal/ws/handler.go` | one goroutine's locals per connection | first message, read loop, deferred `HandleDisconnect` | hub |
| WebSocket connection | `server/internal/ws/conn.go` | a write mutex, timeouts | `Send`, `Ping`, `Close`, `Read` | the network |
| File transfer | `web/transfer.js` | `sendFile`'s window, acks and abort flags; `attachReceiver`'s `current`, `expectedIndex` and promise chain | send, receive, cancel, fail | relay, by messages |
| Transfer screens | `web/transfer-ui.js` | a row per file, the status line, the open sinks, the chosen folder and the names used in it | `sendFiles`, `handlePicked`, rows, cancel buttons, `dedupeFilename` | file transfer, file sink, pairing client |
| File sink | `web/file-writer.js` | an open writable file or a buffer | choose a folder, open, write, close, discard | browser |
| Pairing client | `web/pairing.js` | `currentState`, `activeSocket`, `activeStopScan`, `activeTransferHandle`, `pendingSendFiles` | fifteen screens, four pairing flows, reconnect with retries, disconnect, role swap | relay; the other client through it; camera |
| QR scanner | `web/qr-scan.js` | a camera stream, a timer | start, decode, stop | pairing client |
| PAKE | `web/pake.js`, `wasm/pake/` | a module that is loaded once, handles | `init`, `update`, `sessionKey`, confirmation tags | pairing client |
| Cryptography | `web/crypto.js`, `server/internal/cryptoutil` | none | wrappers of libraries | pairing client, file transfer |
| Configuration, messages, entry points | `server/internal/config`, `.../proto`, `server/cmd` | constants | parse, encode, start | everything |

What is hard in this system, and hardly reached by its tests:

- **Lock release in mid-operation.** Almost every hub operation is two to four
  critical sections. Joins, reconnects, drops, `end_session` and the reaper
  interleave between them, holding session pointers and snapshots that may be
  stale.
- **Two releases of one charge.** The per-IP count is charged in three places
  and released in three others, by different goroutines.
- **Awaits in the browser.** `sendFile` and `attachReceiver` read shared
  variables before an await and use them after it, while acks, aborts, cancel
  clicks and close events arrive.
- **Windows of time.** Code expiry, guess windows, grace period and inactivity
  timeout are compared with clocks read at different moments.
- **Reconnects.** Both peers advance an epoch from notices that can be lost or
  overtaken; requests with timeouts (role swap) race their answers.
- **Callbacks of what is over.** Every flow of `pairing.js` leaves closures
  behind: message and close listeners of its socket, a camera permission, a
  retry timer, an exchange of keys, a file picker. They fire after the user has
  moved on, and most of them look at `currentState.screen` only.
- **Late listeners.** `runPakeExchange` listens for a message only once the await
  before it is over; nothing is sent twice.

`PROJECT.json` lists these as `hazards`, each at its line, with the properties
that cover them.

Correctness, component by component:

- *hub, sessions, handlers*: a slot belongs to exactly the handler that serves
  it and no live connection is displaced; an address is charged for what it
  has; an expired session is found; a code works once, for its own session,
  until it expires; guesses are rate limited.
- *file transfer*: what is saved is whole and in order; "Sent" means written;
  an abort is never reported as success; the backlog is bounded by the window;
  the relay stops an oversized file; a transfer ends on both screens.
- *pairing client*: epochs agree whenever both sides are in touch; exactly one
  side sends whenever no role swap is under way; a lost connection is regained
  or reported; its sockets stay in its hands, as does a camera that plays; a
  screen without a button is left again.
- *key exchange*: "paired" means one key on both sides, a reported mismatch is
  one, and of the two confirmation tags at most one is lost.
- *transfer screens*: a pick is given to no screen that cannot send it, no batch
  is sent twice or to another session than the one it was picked in; one render
  listens; names in a folder do not collide.

## 2. Modules

| Module | Role |
|---|---|
| `RelayHub` | The relay: hub, sessions, handlers, reaper |
| `SessionSlots` | Abstract: what the relay promises about a session's two slots |
| `RelayCodes` | `RelayHub` with history variables for pairing codes and guesses |
| `RelayHubProofs` | Theorems about `RelayHub` and their proofs |
| `RelayRefinement` | The proof that `RelayHub` implements `SessionSlots` |
| `RelayCodesProofs` | Theorems about `RelayCodes` and their proofs |
| `PairedClients` | Two paired browsers: reconnect, epochs, role swap, disconnect |
| `Transfer` | A batch of files: sender, relay meter, receiver, screens |
| `TransferProofs` | Theorems about `Transfer` and their proofs |
| `PairingScreens` | One page: screens, flows, sockets, camera scans, reconnects |
| `PairingScreensProofs` | Theorems about `PairingScreens` and their proofs |
| `PairedClientsProofs` | Theorems about `PairedClients` and their proofs |
| `PakeExchange` | Two pages: the key exchange after a code |
| `PakeProofs` | Theorems about `PakeExchange` and their proofs |
| `TransferScreens` | One page: successive renders of the paired screen |
| `TransferScreensProofs` | Theorems about `TransferScreens` and their proofs |
| `MCRelayHub`, `MCRelayCodes`, `MCTransfer`, `MCTransferScreens` | Instances for TLC |

### RelayHub

A step is one critical section of `h.mu` or of a session's `mu`, or one message
written. The variables are the fields of `Hub` and `Session`; `handler[c]` holds
the locals and the program counter of connection `c`'s `ServeHTTP`, `reaper`
those of `ReapOnce`; `closed` and `told` are the connections as their clients
see them.

| Code | Actions |
|---|---|
| `CreateSession`, `CreateCodeSession` | `CreateSession`, `CreateCodeSession`, `CreateRefused`, `FirstMessageInvalid` |
| `JoinSession`, `JoinByCode`, `checkAndRecordGuessLocked` | `JoinSession`, `JoinByCode`, `JoinByCodeBlocked` |
| `attachGuest` | `AttachFindHost`, `AttachGuest`, `AttachCount`, `PairHost`, `PairGuest` |
| `Reconnect` | `Reconnect`, `Reattach`, `ReattachCount`, `Announce`, `ConfirmReconnect` |
| `Relay`, `RegisterReconnectToken` | the same names |
| `EndSession` | `EndSession`, `EndNotify`, `EndRelease`, `EndRemove` |
| `HandleDisconnect` | `HandleDisconnect`, `DisconnectRelease`, `DisconnectNotify` |
| `ReapOnce`, `reapSession` | `ReapStart`, `ReapNext`, `ReapSnapshot`, `ReapCloseHost` ... `ReapRemove` |
| a connection that closes, a read that fails | `Drop`, `FirstReadFails` |

A session object stays usable after `removeByID`, as a `*Session` does in a
handler that still holds it. IDs are random and long: the model never reuses
one. Codes are short, so the model does reuse them. When *some* code is taken,
all of `newUniqueCodeLocked`'s draws may collide (`FirstMessageInvalid`).

A connection is served once (`Conns` bounds how many there are), and the clock
stops at `MaxTime`. Both are bounds of the model.

### SessionSlots

Four operations (create, enter, vacate, turn away) over who occupies which slot.
It states that a connection enters only an empty slot, at most once, and that a
slot is vacated only on behalf of its own occupant. `RelayHub` refines it with
*occupant = the connected peer of the slot*. The point of the refinement is
`markDisconnected`, which marks whoever is in the slot without comparing
connections, and `Session.attach`, which may replace a peer that is down.

### RelayCodes

The relay forgets: the reaper prunes codes and budgets, a match deletes a code.
`issued`, `matched` and `lookups` remember, so that properties can speak of what
the relay has done over time. Every step is a step of `RelayHub`.

### Transfer

A browser step runs from one await to the next. Four queues carry messages:
sender to relay, relay to receiver (including the receiver's promise chain),
and back. A closing socket loses any suffix of what is under way. `snd[f]`
holds `sendFile`'s locals with the state of its row, `rcv` those of
`attachReceiver`, `rows[f]` the receiver's row with the chunk indexes its sink
was given. `relay` is `Session.currentFile` together with the abort that
`Relay` defers until the frame has been sent.

| Code | Actions |
|---|---|
| `sendFiles`, `sendFile` | `StartFile`, `SendMeta`, `SendChunk`, `ReadFails`, `CancelSend`, `SenderHears` |
| `Hub.Relay`, `recordChunkBytes`, `abortOversizedFile` | `RelayForward`, `RelayAbort`, `RelayBack` |
| `handleFileMeta`, `handleChunkFrame`, `handleFileAbort`, `chainStep` | `HandleFileMeta`, `SinkReady`, `HandleChunkFrame`, `Decrypted`, `WriteDone`, `WriteFails`, `HandleFileAbort` |
| `onFileComplete`, `abortCurrent` | `SinkClosed`, `CancelReceive` |
| sockets, re-render | `SenderDrops`, `ReceiverDrops`, `SenderDetach`, `ReceiverDetach` |

Encryption is taken to work within one epoch, so a chunk is its file and index.
Sizes are numbers of bytes, and the meter counts whole frames, as the code does.
`Faults` selects what users, disks and networks do in a run.

### PairedClients

Two browsers on the paired screen and, between them, one session's worth of the
relay. A client's sockets are numbered as it opens them. `client[p]` is
`currentState` with the module's variables (`activeSocket`, the attempt,
`swapAwaitingResponse` and the swap timers that are running); `link[p][n]` is a
socket with what is under way in both directions and whether
`wirePairedSocket` has been called on it; `handler` and `slot` are the relay's
side. A broken connection is noticed by its two ends separately, in either
order, and what was under way when it broke may still be read. Here the relay's
lookup and attach are one step, and so are a disconnect and its notice: their
interleavings are `RelayHub`'s.

| Code | Actions |
|---|---|
| `finalizePaired` | `Init`, `DeriveToken` |
| `attemptReconnect` | `Opens`, `ConnectFails`, `CloseEvent`, `RetryTimer`, `HearReconnected`, `HearError`, `HearUnwired` |
| `wirePairedSocket` | `HearSessionEnded`, `HearPeerDisconnected`, `HearPeerReconnected`, `HearSwapRequest`, `HearSwapResponse`, `CloseEvent` |
| `requestRoleSwap`, `disconnectSession` | `RequestSwap`, `SwapTimeout`, `DisconnectSession` |
| `Reconnect` | `ReadReconnect`, `Announce`, `Confirm` |
| `Relay`, `RegisterReconnectToken`, `EndSession`, `HandleDisconnect`, `reapSession` | `ReadRelayed`, `ReadToken`, `ReadEnd`, `HandleDisconnect`, `Reap` |
| the network | `Break` |

`MaxConns` and `MaxSwaps` bound the sockets and swap requests of a client; a
socket breaks only if the attempts that may follow still fit. `cut` is a history
variable: a swap timer has ended a swap that was still waiting. A session that
has been left is not paired again.

### PairingScreens

One page, with the relay and its peer as an environment that answers, is silent
or closes as it likes. `cur` is `currentState` without its texts, `active` and
`stop` are `activeSocket` and `activeStopScan`; `socks` and `scans` are all
sockets and camera scans the page has ever started, since their callbacks stay;
`timers` are the retries that are due and `deriving` the reconnect tokens that
are being computed. A session is named by the socket it was made on.

| Code | Actions |
|---|---|
| the render functions' buttons | `RoleSelect`, `CodeRoleSelect`, `JoinDetected`, `CodeReceiverWaiting`, `CodeSenderEntry`, `ReceiverWaiting`, `SenderScanning`, `SenderPaste`, `DisconnectSession`, `TryAgain` |
| `startScanning` and its callbacks | `CameraGranted`, `CameraDenied`, `PlayFails`, `Plays`, `Decode`, `DecodeAtOnce` |
| the flows' message listeners | `HearCreated`, `HearPaired`, `HearPairedByCode`, `HearError` |
| `runPakeExchange` as one promise | `ExchangeHeard`, `ExchangeDone`, `ExchangeFails` |
| `finalizePaired`, `wirePairedSocket`, `attemptReconnect` | `TokenDerived`, `HearSessionEnded`, `RetryTimer`, `HearReconnected` |
| every close listener | `Closed` |

`stray` is a history variable: something abandoned (a scan, a reconnect attempt,
a timer, a token or an exchange of keys) has taken hold of the page after all.
The code lets that happen; what follows is in section 4, and `SocketsHeld` and
`PairedIsConnected` speak of everything before. A close event of an abandoned
flow is *not* stray: both hold through it.

A scan's record says whether no earlier one was under way when it started
(`alone`, history); `crowded` says that two have overlapped. `PlayingIsHeld`
speaks of every camera that is on (`lit`). One whose `startScanning` has not
returned yet has no stop function, and one whose `play()` was rejected never
gets any. Of one that plays, it says that `activeStopScan` is its own and that
no button had cancelled it, unless `crowded`: this holds after stray callbacks,
too, so a camera that is granted after a close event is still stopped by the next
change of screen. Until `stray` it plays on the scanning screen only.

### PakeExchange

`at[p]` is the await at which `p`'s `runPakeExchange` stands; a message is heard
only if that is where it listens for it, and is lost otherwise (`Missed`).
`engine` is `readyPromise`, which outlives an exchange. A derived key is the pair
of code and exchange, so that keys are equal exactly when the codes are; tags
are as good as keys. The codes of the two pages are arbitrary, although the relay
matches equal ones: confirmation exists because a code can be guessed. `Closed`
covers the network and the relay. `TryAgain` starts both pages over, whatever
their engines do meanwhile: an exchange that still waits for the engine is `left`
behind, and ends (`LeftoverEnds`) once `readyPromise` settles, before the
page's next exchange goes on. If it is refused, it puts `code_mismatch` over the
pairing the page is in by then.

### TransferScreens

Each element of `renders` is one call of `renderTransferUI` with the variables of
its closure: which socket and session it was made for, whether it is detached,
the batch it sends, the folder and the names it has used. `handle` and `pending`
are `activeTransferHandle` and `pendingSendFiles`; `page` is `currentState` with
`activeSocket`. A native picker is modal, as browsers make it: while it is open
the page cannot be clicked.

Sockets are numbered, and `sockets[n]` is the session that `n` was opened for: who
gets what is sent on it does not depend on what the page shows. Those that are
`open` listen. An attempt to reconnect is `asking`, then `answered`, or `due` for
its timer; none of the three ends when its session is left, so a late `error` or
`reconnected` acts on whatever screen is shown, as in the code
(`HearError`, `HearReconnected`). A paired page gets to the error screen through
a socket (`SessionEnded`) and without one (`CloseEvent`, `AttemptFails`,
`RetryTimer`, `HearError`).

`fate[b]` is what has become of a batch the user picked:

| Fate | What happened |
|---|---|
| started | given to the shown screen's UI, over an open socket of the session |
| queued, replaced, dropped | in `pendingSendFiles`; pushed out of it by a later pick; gone with the session |
| ignored | picked while another batch is being sent |
| stranded | taken from the queue by a UI whose socket is dead or that is not shown |
| broken off | begun, and detached before its last file |
| vanished | picked, and given to a UI that cannot send it or is not shown |
| twice, astray, misdirected | sent again; enciphered for another session; sent on another session's socket |

`PickedIsKept` excludes "vanished", `SentOnce` "twice", `FilesStayInSession` the
last two. "Stranded" and "broken off" happen in the code (section 4) and are only
recorded. `overlap` and `stray` are history variables: a render began while
another one still derived its key; an attempt for a session that had been left
has acted on the page. After either, a pick may vanish, and after the second
it may be misdirected: the code lets both happen, so the properties say so.

A file name is a sequence, its base and the numbers put after it, which is what
`dedupeFilename` looks at; where the extension goes makes no difference to it.

## 3. Runs

Passing runs:

| Run | Checks | Instance, and why it is enough |
|---|---|---|
| `hub_slots` | `TypeOK`, `SlotOwned`, `ImplementsSessionSlots` | Three connections and one session: a host, a guest and a third that contends with either of them by join or reconnect, while the session is ended or reaped. Slots of different sessions share nothing. |
| `hub_counts` | `CountExact` | Two sessions, one code, two addresses with a limit of one each, an empty token beside a real one. Neither `end_session` nor time: those break the count (section 4). |
| `hub_reaper` | `ExpiredIsReaped` | Two sessions, one of them kept alive by `relay`, with the clock past the later timeout. |
| `hub_codes` | `CodeMatchesOnce`, `CodeLeadsHome`, `GuessRateBounded` | Two sessions over a single code, so that every draw contends for it; four connections of one address against a budget of two; the clock passes the code's life and a guess window. |
| `transfer_safety` | `TypeOK`, `SavedWhole`, `SentIsWritten`, `AbortHonoured`, `BacklogBounded` | A file of three chunks (the last one short) and an empty one, window two: the window fills and moves, and a second file follows a failed first. All faults. |
| `transfer_settles` | `LimitEnforced`, `SendSettles`, `ReceiveSettles` | A file of three chunks that crosses the size limit with its second and one of two chunks that just fits, while both sockets live, with sender cancels and read failures. |
| `client_reconnect` | `TypeOK`, `EpochsAgree`, `ReconnectSettles` | One side's connections break up to twice, two attempts each, of which any may fail to open, be refused or be overtaken by the reaper, and either user may disconnect. |
| `client_swap` | `RolesComplement` | Two swap requests of each user on connections that live: at once, in turn, accepted, rejected or timed out. |
| `pairing_screens` | `TypeOK`, `SocketsHeld`, `PlayingIsHeld`, `PairedIsConnected`, `NoDeadEnd` | Three sockets and scans in any mixture, so a flow, one abandoned before it and a reconnect or a scan between them; two reconnect attempts. |
| `pake_exchange` | `PairedMeansAgreed`, `MismatchIsReal`, `OneTagArrives` | Two codes, equal or not, and three tries: one that leaves an exchange waiting for its engine, one that does so again or is hit by it, and one that finds the engines as the others left them. |
| `transfer_screens` | `PickedIsKept`, `SentOnce`, `FilesStayInSession`, `OneListener`, `NoOverwrite` | Three renders (one shown, one it replaced, one that comes late), three sockets (a session's, an attempt's that outlives it, the next session's), two batches of two files; one render receives three files with the names "a" and "a (1)", since each render's names are its own. |

Symmetry is used where all connections share one address, and between batches,
for safety only. `CHECK_DEADLOCK FALSE` is said for the browser's modules: a
batch ends, a session is left, an insecure page shows nothing to click, and the
bounds end the rest. The relay never stops, because its reaper goes on ticking.

What the properties say is written above their definitions. Each has a mutant
in `PROJECT.json`: a plausible slip in a modelled definition under which the
run fails.

### Fairness

`RelayHub!FairSpec`: weak fairness of each handler goroutine (Go schedules every
runnable goroutine), of the reaper (`Run`'s ticker runs as long as the
server) and of the clock. Nothing is assumed of clients: `Client(c)` is not
fair. Writes do not block for ever, because `Conn.Send` has a write timeout.

`Transfer!FairSpec`: weak fairness of each program's own steps, that is, promises
settle and queued messages are delivered, and of `SenderDetach` and
`ReceiverDetach`, the re-render after a reconnect. Cancels, drops and failures are
never required to happen. `WF(Receiving)` covers both outcomes of a write.

`PairedClients!FairSpec`: weak fairness of each client's own steps (a socket
that is opening opens or fails, events and timers are dispatched, a broken
connection is noticed) and of the relay's handlers of each client. Breaks, swaps,
disconnects and the reaper are never required to happen.

`PairingScreens!FairSpec`: a socket that is open while the page shows a screen
without a button is closed in the end. A connection opens or fails, and the relay closes a session of which it has
heard nothing for the inactivity timeout (`hub.go:463`); pings do not count as
activity. No click, message, permission or promise is required.

## 4. Where the code and its documentation part

One run is expected to end in a counterexample; `PROJECT.json` quotes the lines.

- `hub_slot_leak`: the peer that sends `end_session` is never released, since
  `EndSession` releases only the other one and `ServeHTTP` skips
  `HandleDisconnect`. Each session ended this way costs its address one unit.

Two more counterexamples come from runs above with wider constants:

- `Transfer`, `SendSettles` with drops among the `Faults`: a close event that
  arrives while `sendFile` reads or encrypts sets `connectionLost` but wakes
  nobody, and the window's wait that follows is never ended (`transfer.js:97`),
  although `PROTOCOL.md:482` says that both sides fail fast on a closed socket.
- `PairedClients`, `EpochsAgree` with breaks on both sides: the epoch is counted
  on `reconnected` by the one and on `peer_reconnected` by the other, and the
  relay sends the latter only to a peer that is connected (`hub.go:265`). When
  both sides drop, the first to return counts two and the second one. The same
  happens when a socket breaks after the relay has accepted its reconnect and
  before the client hears of it. `DECISIONS.md:107` has both peers observe the
  same sequence of reconnects. `client_reconnect` shows that neither happens as
  long as only established connections of one side break.

Seen while modelling, without a run of their own:

- `closeAndRelease` releases the address of a connection it closes, and that
  connection's own `HandleDisconnect` releases it again. With another connection
  of the same address open, the count is one too low and one session too many is
  admitted (`hub.go:477`).
- A guest that looked a session up before `EndSession` and attaches after it is
  served in a session no longer in the registry, which neither the reaper nor
  anybody else will close (`hub.go:367`).
- A user who disconnects while a reconnect is under way is taken back into the
  session: the `reconnected` handler does not look at the screen
  (`pairing.js:908`), although the comment at `pairing.js:747-749` says that
  `attemptReconnect`'s closures bail out. `HearReconnected` models it.
- A reconnect that reaches the relay before it has noticed the end of the old
  connection is refused, and the client shows the error at once instead of
  using its remaining attempts (`pairing.js:914`).
- A swap timer is not tied to its request: the timer of an answered request can
  cut a later one off, whose acceptance is then ignored, and both peers have the
  same role (`pairing.js:790`). A drop that loses a response does the same.
  `RolesComplement` excludes exactly these.
- A swap clicked while the connection is lost throws after
  `swapAwaitingResponse` is set and before the timer is; the button stays
  disabled until the next render (`pairing.js:788`).
- The same happens when the page has paired with somebody else by then: the
  late `reconnected` makes the old session's socket the active one under the new
  session's screen (`pairing.js:905-913`), and files picked there are enciphered
  for the new peer and sent to the old one, who cannot read them.
  `FilesStayInSession` holds of the key throughout, and of the socket until that
  message has come.
- `activeTransferHandle` is set in a promise's callback, so of two renders in
  quick succession one is never detached, and the one that resolves last is the
  active one (`pairing.js:729`). `PickedIsKept` and `OneListener` exclude exactly
  this.
- The queue of picked files is flushed without a look at the socket or the
  screen (`pairing.js:731`), although the comment at `pairing.js:90-97` has it
  flushed to "a transfer UI with a working socket": a socket that dies, or a
  `session_ended` that comes, while the render derives its key loses the files.
  In `TransferScreens` they are "stranded"; no property excludes it.
- A sender's render that is detached between two files of a batch drops the rest
  of it without a word (`transfer-ui.js:145`), "broken off" in
  `TransferScreens`; no property excludes it.
- The close listeners of the four flows do not look at whose socket closed. The
  close event of a flow the user has left ends the next one with
  `connection_lost`, if it comes once that is under way (`pairing.js:370`).
- An exchange of keys that resolves after its socket has closed still calls
  `finalizePaired`: the page shows "paired" with a socket that is gone, and no
  reconnect starts (`pairing.js:399`).
- A `pake_msg` that arrives while the engine loads, or a `pake_confirm` while the
  own tag is computed, is heard by nobody (`pairing.js:60`, `:69`). In the second
  case one side is paired and the other verifies until the relay closes the
  session.
- A module that failed to load is not fetched again, because the rejected
  `readyPromise` is kept, and every later exchange of the page is reported as
  `code_mismatch` (`pake.js:22`, `pairing.js:402`). So is an exchange the user
  has left while the module was loading: its catch puts the error over whatever
  flow the page is in by then. `MismatchIsReal` excepts both.
- A camera that is refused after the scanning screen was left shows its error
  over whatever screen there is (`pairing.js:592-594`).
- If `play` rejects, as it does when its element has left the page, nobody can
  stop the stream, and the camera stays on whatever screen follows
  (`qr-scan.js:25-26`, against the comment at `:8-11`); the rejection is not
  handled either. `PlayingIsHeld` claims nothing of such a stream.
- `cancelled` is set by the scanning screen's two buttons only, so a camera
  granted after a close event has taken the screen away plays under the next one
  until that is left (`pairing.js:595-601`).
- Of two scans that overlap one can lose its stop function, because the other's
  takes its place (`pairing.js:600`) or `startJoin` forgets it (`:631`), and its
  camera plays on. They overlap when the scanning screen is entered again, by the
  user or by a late `reconnected` that renders it, before the user has answered for
  the first one's camera. `PlayingIsHeld` excludes every overlap (`crowded`).
- A retry's timer is not cleared: it can fire in a later session and start a
  reconnect there although its socket lives (`pairing.js:925`). A reconnect token
  that is derived late is stored in the session the page is in by then
  (`pairing.js:815`). Both set `stray` in `PairingScreens`.
- A re-render forgets the chosen folder and the names used in it, as does
  choosing the same folder again, after which a file of the same name replaces
  the first (`transfer-ui.js:266`, `:279`); `DECISIONS.md:877-915` has the choice
  hold for the rest of the session. `NoOverwrite` speaks of one choice.
- A re-render detaches the receiver's listeners and leaves its open sink, and
  lets a send run on under the old epoch's key (`pairing.js:152`).
- The limit is checked in one critical section and charged in a later one, so
  joins and reconnects of one address that overlap all pass the check
  (`hub.go:126`).
- The reaper acts on a snapshot: a join or reconnect that happens after it is
  stranded in the same way (`hub.go:446`).
- `peer_disconnected` is written after the locks are released and can arrive
  after the `peer_reconnected` that answers it (`hub.go:391`).
- The guess limit is a tumbling window, so an address can make up to
  `2 * MaxPairingAttempts - 1` attempts within one TTL; that is the bound
  `GuessRateBounded` states.
- The comment at `config.go:41-42` speaks of attempts "before the session is
  invalidated"; the limit refuses the address and invalidates no session.
- A receiver's cancel does not end a send whose abort arrives while it reads or
  encrypts and which then finds the window full: the loop looks at the window
  before the abort, and no ack will come (`transfer.js:111`). `AbortHonoured`
  still holds, for the send never ends.
- A cancel click before `sendFile` has attached its listeners is lost
  (`transfer.js:107`).
- A socket that closes during the save dialog finds no row to discard, and the
  row and sink that are then made stay open (`transfer-ui.js:302`).
- A cancel during decryption or a write makes the chain report a `TypeError` as
  a transfer error (`transfer.js:232`).

## 5. Proofs

Each theorem holds for every value of the constants that the module's `ASSUME`
admits; the runs of section 3 check the same formulas on their instances.

| Module | Theorem | States | Under |
|---|---|---|---|
| `RelayHubProofs` | `TypeCorrect` | `Spec => []TypeOK` | |
| | `SlotsOwned` | `Spec => []SlotOwned` | |
| | `CountsExact` | `Spec => []CountExact` | `NothingEnds` |
| `RelayRefinement` | `RelayImplementsSlots` | `Spec => ImplementsSessionSlots` | |
| `RelayCodesProofs` | `CodesMatchOnce` | `CodesSpec => []CodeMatchesOnce` | |
| | `CodesLeadHome` | `CodesSpec => []CodeLeadsHome` | |
| | `GuessesAreRated` | `CodesSpec => []GuessRateBounded` | |
| `TransferProofs` | `TypesHold` | `Spec => []TypeOK` | |
| | `SavedAlwaysWhole` | `Spec => []SavedWhole` | |
| | `SentAlwaysWritten` | `Spec => []SentIsWritten` | |
| | `AbortsAlwaysHonoured` | `Spec => []AbortHonoured` | |
| | `LimitAlwaysEnforced` | `Spec => []LimitEnforced` | |
| | `BacklogAlwaysBounded` | `Spec => []BacklogBounded` | |
| `PairingScreensProofs` | `TypesHold` | `Spec => []TypeOK` | |
| | `SocketsAlwaysHeld` | `Spec => []SocketsHeld` | |
| | `PlayingIsAlwaysHeld` | `Spec => []PlayingIsHeld` | |
| | `PairedStaysConnected` | `Spec => []PairedIsConnected` | |
| `PairedClientsProofs` | `TypesHold` | `Spec => []TypeOK` | |
| | `NeverStranded` | `Spec => []StillTrying` | |
| | `RolesStayComplementary` | `Spec => []RolesComplement` | |
| | `EpochsStayEqual` | `Spec => []EpochsAgree` | `OneSideBreaks` |
| `PakeProofs` | `KeyConfirmed` | `Spec => []PairedMeansAgreed` | |
| | `MismatchIsTrue` | `Spec => []MismatchIsReal` | |
| | `OneTagAlwaysArrives` | `Spec => []OneTagArrives` | |
| | `PakeTypeCorrect` | `Spec => []TypeOK` | |
| `TransferScreensProofs` | `OneListenerAlways` | `Spec => []OneListener` | |
| | `PickedAlwaysKept` | `Spec => []PickedIsKept` | |
| | `AlwaysSentOnce` | `Spec => []SentOnce` | |
| | `FilesAlwaysStay` | `Spec => []FilesStayInSession` | |
| | `NeverOverwrites` | `Spec => []NoOverwrite` | |

### Assumptions

The relay's (`ConfigAssumption`, `ValuesAssumption`) say what `config.Load`
accepts, that every connection has an address, and that `Nil` is no value.
`TransferAssumption` says that sizes are natural, chunk size, window and limit
positive. `ClientsAssumption` says that a client makes at least one attempt to
reconnect and that the model has more sockets than one round of attempts needs.
`ScreensAssumption` and `RendersAssumption` say that the attempts to
reconnect and the files of a batch are at least one, the bounds (`MaxStarts`;
`MaxRenders`, `MaxSockets`, `MaxReceivers`, `MaxFiles`) natural, file names
sequences of characters (naturals), and no batch the value for "no batch". `NothingEnds`, the hypothesis of `CountsExact` alone, is
the condition under which the count is exact: nobody ends a session, and the
clock stops before a timeout passes. `hub_counts` is such an instance. Without
it the theorem is false (section 4, `hub_slot_leak` and `closeAndRelease`).
`OneSideBreaks`, the hypothesis of `EpochsStayEqual` alone, says that connections
of one side never break and those of the other only once they are established,
which is what `client_reconnect` has among its `Faults`; everything else may go
wrong on both sides. Without either half the theorem is false (section 4).

### The relay

The inductive invariant is `Inv == TypeOK /\ Located /\ SlotOwned`. `SlotOwned`
needs both of its halves: `HandlerHasSlot` gives that `markDisconnected` marks
its own caller, `SlotHasHandler` that an empty-handed connection is in no slot
when `attach` puts it into one. `Located` is needed because a handler's session
is `Nil` in some states and `peers[Nil]` means nothing; it says where it is not,
and that a joining handler goes for the guest slot.

The argument has three kinds of step, one lemma each, about any formula of that
shape: a *quiet* step leaves slots and every handler's claim alone
(`QuietStep`), an *occupying* step puts a connection without a slot into a free
one (`OccupyStep`), a *vacating* step marks the caller's own slot down
(`VacateStep`). `GotoStep`, `FinishStep`, `KeepSlotStep` and `RejectStep` reduce
the ways handlers move to these. Then there is one lemma per group of actions
(`CreateInv` to `ClockInv`), with a step per action, and `NextInv` puts them
together.

`CountInv` adds what the count needs. `Counted` also says that the set that is
counted is finite: there may be infinitely many connections, and a cardinality
means nothing otherwise. `AllMild` says that whoever releases an address
releases its own, `NothingDue` that the reaper never gets past its snapshot.
`CountMove` has the one argument: a handler's move into or out of the charged
program points goes with an increment or decrement, and any other with neither.

The refinement adds one conjunct, `HostFirst`: a session that can be found, in the
registry or by a lookup that has not attached yet, has had a host. Without it a
guest could enter a session that the abstract specification has never opened.
The proof goes as the invariant's does: a lemma for each kind of step seen
through the mapping (`StutterMove`, `TurnAwayMove`, `CreateMove`, `EnterMove`,
`VacateMove`), which use `Inv` to know whose slot it is, then one per group of
actions (`CreateSim` to `ReaperSim`), and `NextSim`.

For the codes, `CodesInv` relates the relay's map to the history: a code in the
map is the one its session was issued, with the same expiry, and nobody has used
it (`CodeIsIssued`); a session that was never created has no history
(`NoHistory`). Both are needed where a code is issued again: the session is new,
so nothing is known of it. All actions but `CreateCodeSession`, `JoinByCode` and
the reaper's pruning leave codes aside (`AsideStep`).

`GuessInv` is about one address's lookups and its budget. `Budgeted` says that the
budget's count is the number of lookups since, and including, the one that opened
its window, and that all but a full budget less one of those before are a code's
life older than that one. The second half is what a reset must find
true: a window that runs out leaves at most a full budget of lookups behind that
are not yet old, and the next one opens with a lookup that is a code's life after
the first of them. When the reaper prunes a budget, `Paced` still says that the
lookups are that old (`PacedPruned`). `LookUpPaced` shows that the one step that
charges keeps this; two full budgets in a row then span two windows (`Spread`).

### Transfers

`TransferProofs` reads what is under way as one stream: the chunk numbers of a
file rise from the last ack its sender has heard, through the acks on their way
back and the chunk the receiver is busy with, up to the chunk its sender reads
next. None of the five properties is inductive; `IInv` has, besides who sends
which message (`WellFormed`) and that files are sent one after the other
(`InTurn`):

- `SenderAhead`, `InOrder`: both queues towards the receiver, and the message its
  chain is busy with, are in the order in which `sendFile` sends. The relay's own
  `file_abort` is the one message that is not.
- `ChainStep`, `Current`, `Announced`: the row of the current file has exactly the
  chunks before the expected one, or it has failed and the expected chunk will
  not come any more (`Missed`). This is what makes a failed row stay failed
  although `current` is not cleared after an error: no later chunk is accepted,
  so the file is never closed as complete. `WrittenInOrder` follows the sink.
- `AckOfWrite`: an ack is of a chunk that has been written, or an abort of that
  file is ahead of it on its way to the sender, or the sender knows or is done.
  The exception is real: a cancel during a write clears `current`, and the ack is
  sent all the same. It is harmless only because `abortCurrent` has sent its
  `file_abort` on the same socket before.
- `AcksRise`, `Window`: acks are below everything not acknowledged yet, so `acked`
  only rises, and what is under way lies between `acked` and `index`.
- `Counting`, `WithinLimit`: each chunk on its way to the relay is preceded by
  the one before it, or the relay has counted up to it, or it has blocked the
  file (`Continues`). So the meter's sum is the size of what went before.

`SentIsWritten` follows from `AckOfWrite` and `WrittenInOrder`, `BacklogBounded`
from the order by counting: the numbers of a file's chunks under way are distinct
and lie in an interval no longer than the window (`Numbered`). The steps of the
model reduce to a few shapes, each with one proof that the invariant is kept:
`SendStep` (a sender moves and sends at most one message), `QuietStep` (nothing
but a sender's program point, or a queue cut short), `ForwardStep`, `TakeStep`
(the receiver takes a message and writes nothing), `AnswerStep` (the receiver
sends an ack or an abort). `NextIInv` has a case per action.

### Screens

`PairingScreensProofs`: `IInv == TypeOK /\ Shape /\ (~stray => Good)`. `Good` says
what every open socket is (`OpenSockets`), what the active one is
(`ActiveSocket`), that a paired page without a socket has exactly one attempt to
resume its session, timer or socket (`OneAttempt`), and that a camera that plays is
the shown one's (`Running`). `PairedIsConnected` needs `OneAttempt`'s "exactly
one": with two, the failure of the first would leave a page that is paired and
connected to nothing. `Shape` names each session after its socket, and holds
after something abandoned has taken hold of the page, too.

What `PlayingIsHeld` says after `stray` needs an invariant of its own, `Held`: as
long as scans have not overlapped, only the last one is under way, `activeStopScan`
is its stop function if it plays, and on the two screens from which a join forgets
`activeStopScan` without stopping it (`Forgetful`) everything under way has been
cancelled. `Winds` is the one relation that all steps keep which wind scans up
(`WindsHeld`); starting a scan and getting its camera have lemmas of their own
(`RenderedHeld`, `CameraStaysHeld`).

`TransferScreensProofs`: `IInv == Wired /\ Rendered`. `Wired` is about sockets alone
(`Connected`): until an abandoned attempt has acted on the page, only the active
socket is open, it is of the page's session, and at most one attempt to resume
that session is under way. The attempts of sessions that were left stay in the
picture, and are told apart by the session they were opened for. `Attached` ties
the shown render to the active socket, `Given` says that what a render sends has
been accounted for. `HandleLive`, `InTurn` and `SameSession` say that, as long
as renders do not overlap, the one handle is of the one render that listens, and
that picker and queue are of the session shown. `NoOverwrite` needs that a render
remembers the names it has used (`NamesRemembered`) and that `dedupeFilename`
finds a free one: `NewName` proves that by the pigeonhole principle, since a
finite set cannot hold all of "a (1)", "a (2)", and so on.

### Two paired clients

`PairedClientsProofs` proves `Inv == TypeOK /\ \A p \in Peers : PeerOK(p)`, which
relates a client to each of its sockets (`SocketOK`) and to its latest one
(`ClientOK`):

- only the latest socket is in use, so a message or a close event is never of an
  older one. `HearReconnected` and the close listeners do not ask which socket is
  the latest; this is why they need not;
- a paired client is connected on its latest socket, or sleeps between two
  attempts with the socket closed and an attempt left, or has an attempt under
  way (`StillTrying` follows), and there are sockets left for the attempts that
  remain, so that the bound `MaxConns` never stops one;
- a connection that the relay has ended holds `session_ended` or `error` as its
  last message until the client has heard it (`HearsWhy`). Without this a close
  event could find a paired client on a wired socket that had not broken, and
  attempts would start that the bound on sockets does not provide for;
- the first socket is the active one until it is closed, and its handler serves
  it as long as it carries anything.

Steps that only move queues have one proof (`MildStep`, `ToldPeer`, with `Stirred`
for what may happen to a socket), the relay's steps another (`RelayStep`), and
those that open or close sockets a lemma each.

`RolesComplement` needs `Swapping` on top: while both peers are on their first
connections and no timer has cut a swap off, a peer awaits an answer exactly if
one request or one answer of its swap is under way in one of four queues
(`Negotiating`), at most one of the two swaps has been accepted by one side and
not yet by the other (`HalfDone`), and the roles are equal exactly then. Two
requests that cross are covered: each side awaits an answer, so each rejects.
`LinksFade` and `CutStays` say that the condition, once lost, stays lost; under it
`OnFacts` leaves eight kinds of step, each with a lemma.

`EpochsAgree` is about two counters that are advanced by two messages on two
sockets, so the invariant `EpochInv` is a balance: the epoch of the peer whose
connections do not break, plus the `peer_reconnected` on their way to it, is the
epoch of the other peer, plus one if that one is *owed* a `reconnected`, because
its handler has announced it but not confirmed it yet (`"confirm"`) or because it
is in the queue (`Owed`). Three facts keep the balance:

- the steady peer stays on its first socket, served and in its slot, as long as
  the session lasts (`Anchor`), so no `peer_reconnected` is lost; if that socket
  has ended, the peers are never in touch again and nothing is claimed;
- a socket of the returning peer cannot break between the announcement and the
  arrival of `reconnected` (`Returning`), so no announcement stays unanswered;
- at most one socket is owed anything (`OwedAlone`), because only the latest one
  carries messages.

When both peers are in touch nothing is under way and nothing owed, so the epochs
are equal (`EpochMeets`). `IdleStep` covers the steps that the balance does not
notice; `Announce` and `HearReconnected`, and the steady peer's hearing of the
news, each move it on both sides. The reaper, a refusal and a disconnect end
connections (`EndStep`, `OverStep`).

### The key exchange

`OneTagArrives` is inductive together with the types (`OneTagStep`): both pages
wait only after the later of them has sent its tag to an open socket
(`TagAppended`); a page that waits for a tag throws away only other messages
(`TagStays`), and one that reads a tag waits no more. For the two others the
invariant is `IInv`. Neither is inductive: both rest on
the tag a page has heard being its peer's key *now*. So `TagTravels` says that
every tag on a wire is its sender's key, `TagHeard` the same of a tag that is
being compared, and `KeyKnown` that a page's key is absent before it has heard a
`pake_msg` and its own derived key while it confirms. The step that could break
this is `HearMsg`, which sets a key: it had none before, so no tag of its can be
under way (`NoTagTravels`). `TagsStep` and `ConfirmedStep` have a case per
action, `ReadWire` and `SentWire` say what reading and sending do to a wire.

### Only model-checked

Every invariant of a run that passes is stated by a theorem, and so is the
refinement. What is left:

- The liveness properties (`ExpiredIsReaped`, `SendSettles`, `ReceiveSettles`,
  `ReconnectSettles`, `NoDeadEnd`): the prover handles neither
  fairness nor `ENABLED`.
- `CountExact` without `NothingEnds`, and `EpochsAgree` without `OneSideBreaks`:
  they are false there, and TLC has the counterexamples of section 4.

## 6. What is not modelled

- `Ping` holding the connection's mutex while it waits for a pong, and the write
  timeout that runs meanwhile (`conn.go`): what happens depends on how the
  ten-second write timeout, the ping interval and the pong timeout compare with
  the network's delays, and the models of the relay have no such clock. A
  connection that a ping kills is a `Drop`.
- The order of `peer_disconnected` and `peer_reconnected` on the wire
  (`hub.go:391`): `RelayHub` writes them in separate steps, but what a late
  notice does to a page is one line of text.
- Chunks of two renders over one socket: `Transfer` ends at the re-render,
  `TransferScreens` has no chunks.
- SPAKE2, HKDF, HMAC and AES-GCM: libraries, taken to work.
- JSON, Base64 and environment parsing, HTTP, static files, health probe,
  texts, languages, themes and QR drawing: no state or no order to get wrong.
  `shareOrCopy` only reports what the clipboard did.

## 7. State of the plan

The modules were written in the order in which a user meets the system's parts:
`RelayHub` with `SessionSlots` and `RelayCodes`, `Transfer`, `PairedClients`,
`PairingScreens`, `PakeExchange`, `TransferScreens`; then the proofs of section 5.
All of it is done. What would come next needs a clock of the network in the relay's
model (`Ping`, the first point of section 6).
