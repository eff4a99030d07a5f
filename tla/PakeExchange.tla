---------------------------- MODULE PakeExchange -----------------------------
(***************************************************************************)
(* The key exchange after a pairing by code: runPakeExchange on both       *)
(* pages, the messages between them and the WebAssembly engine each page   *)
(* loads first.                                                            *)
(*                                                                         *)
(*   web/pairing.js   waitForType, runPakeExchange and the two code flows  *)
(*   web/pake.js      ensureLoaded, init, update, sessionKey,              *)
(*                    computeConfirmTag, verifyConfirmTag                  *)
(*                                                                         *)
(* A message is heard by the listener that waits for its type at that      *)
(* moment, or by nobody.  The relay delivers in order, and ends a session  *)
(* it finds idle.  The two pages may hold different codes: what confirms   *)
(* the key must not rest on the relay's having matched them.               *)
(***************************************************************************)
EXTENDS Integers, Sequences

CONSTANTS
    Codes,       \* the codes a page may have been given
    MaxTries     \* bound: pairings the two pages attempt in turn

ASSUME PakeAssumption ==
    /\ Codes # {}
    /\ MaxTries \in Nat \ {0}

VARIABLES
    screen,     \* screen[p]: what the page shows; "wrong" is code_mismatch
    at,         \* at[p]: where its runPakeExchange is
    left,       \* left[p]: one of an earlier pairing still waits for init
    engine,     \* engine[p]: readyPromise; it outlives the exchange
    code,       \* code[p]: the code p was shown or typed
    key,        \* key[p]: keyBytes
    heard,      \* heard[p]: the tag of the peer's pake_confirm
    wire,       \* wire[p]: messages on their way to p
    up,         \* up[p]: p's socket is open
    try,        \* the number of this pairing
    broke       \* broke[p]: history, p's engine failed in this pairing

vars == <<screen, at, left, engine, code, key, heard, wire, up, try, broke>>

Peers == {"host", "guest"}
NoKey == <<>>

other(p) == IF p = "host" THEN "guest" ELSE "host"

(* SPAKE2: both sides derive the same key if they started from the same    *)
(* code in the same exchange, and different keys otherwise.                *)
derived(p) == <<code[p], try>>

pake_msg == [type |-> "pake_msg", tag |-> NoKey]

(* Mutant: the tag tells which side computed it.                           *)
confirmTag_bySide(p) == <<p, try>>

(* computeConfirmTag: a tag is as good as the key it is computed from.     *)
confirmTag(p) == key[p]

pake_confirm(p) == [type |-> "pake_confirm", tag |-> confirmTag(p)]

Init ==
    /\ screen = [p \in Peers |-> "waiting"]
    /\ at = [p \in Peers |-> "idle"]
    /\ left = [p \in Peers |-> FALSE]
    /\ engine = [p \in Peers |-> "unloaded"]
    /\ code \in [Peers -> Codes]
    /\ key = [p \in Peers |-> NoKey]
    /\ heard = [p \in Peers |-> NoKey]
    /\ wire = [p \in Peers |-> <<>>]
    /\ up = [p \in Peers |-> TRUE]
    /\ try = 1
    /\ broke = [p \in Peers |-> FALSE]

-----------------------------------------------------------------------------
(* A send reaches the peer if both sockets are open.                       *)
sent(W, p, m) ==
    IF up[p] /\ up[other(p)] THEN [W EXCEPT ![other(p)] = Append(@, m)]
    ELSE W

(* The flows' catch: setState, whatever went wrong and in which pairing.   *)
code_mismatch(p, W) ==
    /\ screen' = [screen EXCEPT ![p] = "wrong"]
    /\ up' = [up EXCEPT ![p] = FALSE]
    /\ wire' = [W EXCEPT ![p] = <<>>]

fail(p, W) == code_mismatch(p, W) /\ at' = [at EXCEPT ![p] = "done"]

(* paired, from the relay: the exchange starts with pake.init.             *)
HearPaired(p) ==
    /\ up[p] /\ screen[p] = "waiting"
    /\ screen' = [screen EXCEPT ![p] = "verifying"]
    /\ at' = [at EXCEPT ![p] = "init"]
    /\ UNCHANGED <<left, engine, code, key, heard, wire, up, try, broke>>

(* ensureLoaded: the module is fetched, or not, once for the page.         *)
EnsureLoaded(p) ==
    /\ at[p] = "init" \/ left[p]
    /\ engine[p] = "unloaded"
    /\ \E outcome \in {"ready", "failed"} :
          engine' = [engine EXCEPT ![p] = outcome]
    /\ UNCHANGED <<screen, at, left, code, key, heard, wire, up, try, broke>>

(* An exchange of an earlier pairing waits for the same readyPromise, and  *)
(* is served first.  It goes on to wait on its closed socket for ever; or  *)
(* it is refused, and its catch ends whatever flow the page is in by now.  *)
LeftoverEnds(p) ==
    /\ left[p] /\ engine[p] # "unloaded"
    /\ left' = [left EXCEPT ![p] = FALSE]
    /\ \/ engine[p] = "ready" /\ UNCHANGED <<screen, wire, up, broke>>
       \/ code_mismatch(p, wire) /\ broke' = [broke EXCEPT ![p] = TRUE]
    /\ UNCHANGED <<at, engine, code, key, heard, try>>

(* init returns: the host sends the first message; both listen for one.    *)
InitDone(p) ==
    /\ at[p] = "init" /\ ~left[p] /\ engine[p] = "ready"
    /\ at' = [at EXCEPT ![p] = "pake_msg"]
    /\ wire' = IF p = "host" THEN sent(wire, p, pake_msg) ELSE wire
    /\ UNCHANGED <<screen, left, engine, code, key, heard, up, try, broke>>

(* A readyPromise that was rejected is awaited again by every exchange.    *)
InitFails(p) ==
    /\ at[p] = "init" /\ ~left[p] /\ engine[p] = "failed"
    /\ broke' = [broke EXCEPT ![p] = TRUE]
    /\ fail(p, wire)
    /\ UNCHANGED <<left, engine, code, key, heard, try>>

(* waitForType's listener, if it waits for the type of the next message.   *)
listens(p) == at[p] = Head(wire[p]).type

(* update, the guest's answer and sessionKey: no other event comes between *)
(* them, for the engine is ready.                                          *)
HearMsg(p) ==
    LET W == [wire EXCEPT ![p] = Tail(@)] IN
    /\ up[p] /\ wire[p] # <<>> /\ Head(wire[p]).type = "pake_msg"
    /\ listens(p)
    /\ at' = [at EXCEPT ![p] = "tagging"]
    /\ key' = [key EXCEPT ![p] = derived(p)]
    /\ wire' = IF p = "guest" THEN sent(W, p, pake_msg) ELSE W
    /\ UNCHANGED <<screen, left, engine, code, heard, up, try, broke>>

(* Mutant: the host alone sends its tag unasked.                           *)
TagReady_hostOnly(p) ==
    /\ at[p] = "tagging"
    /\ at' = [at EXCEPT ![p] = "pake_confirm"]
    /\ wire' = IF p = "host" THEN sent(wire, p, pake_confirm(p)) ELSE wire
    /\ UNCHANGED <<screen, left, engine, code, key, heard, up, try, broke>>

(* computeConfirmTag resolves: the tag is sent, then listened for.         *)
TagReady(p) ==
    /\ at[p] = "tagging"
    /\ at' = [at EXCEPT ![p] = "pake_confirm"]
    /\ wire' = sent(wire, p, pake_confirm(p))
    /\ UNCHANGED <<screen, left, engine, code, key, heard, up, try, broke>>

HearConfirm(p) ==
    /\ up[p] /\ wire[p] # <<>> /\ Head(wire[p]).type = "pake_confirm"
    /\ listens(p)
    /\ at' = [at EXCEPT ![p] = "comparing"]
    /\ heard' = [heard EXCEPT ![p] = Head(wire[p]).tag]
    /\ wire' = [wire EXCEPT ![p] = Tail(@)]
    /\ UNCHANGED <<screen, left, engine, code, key, up, try, broke>>

(* The message comes when runPakeExchange does not listen for it: during   *)
(* init, during computeConfirmTag, or even before paired, which the relay  *)
(* writes to the host first.                                               *)
Missed(p) ==
    /\ up[p] /\ wire[p] # <<>> /\ ~listens(p)
    /\ wire' = [wire EXCEPT ![p] = Tail(@)]
    /\ UNCHANGED <<screen, at, left, engine, code, key, heard, up, try,
                   broke>>

(* Mutant: any tag will do.                                                *)
matches_any(p) == heard[p] # NoKey

(* verifyConfirmTag.                                                       *)
matches(p) == heard[p] = confirmTag(p)

(* The comparison resolves: finalizePaired, whatever the screen is by now, *)
(* or the mismatch.                                                        *)
Compared(p) ==
    /\ at[p] = "comparing"
    /\ \/ /\ matches(p)
          /\ screen' = [screen EXCEPT ![p] = "paired"]
          /\ at' = [at EXCEPT ![p] = "done"]
          /\ UNCHANGED <<wire, up>>
       \/ ~matches(p) /\ fail(p, wire)
    /\ UNCHANGED <<left, engine, code, key, heard, try, broke>>

(* A call into the engine reports an error.                                *)
EngineFails(p) ==
    /\ at[p] \in {"init", "pake_msg"} /\ engine[p] = "ready"
    /\ at[p] = "init" => ~left[p]
    /\ at[p] = "pake_msg" => up[p] /\ wire[p] # <<>> /\ listens(p)
    /\ broke' = [broke EXCEPT ![p] = TRUE]
    /\ fail(p, wire)
    /\ UNCHANGED <<left, engine, code, key, heard, try>>

(* The flows' close listener.                                              *)
lost(p) ==
    IF screen[p] \in {"paired", "wrong", "lost"} THEN screen[p] ELSE "lost"

(* p's socket closes: its network, or the relay, which ends the session of *)
(* a peer that left and any session that is idle.                          *)
Closed(p) ==
    /\ up[p]
    /\ up' = [up EXCEPT ![p] = FALSE]
    /\ wire' = [wire EXCEPT ![p] = <<>>]
    /\ screen' = [screen EXCEPT ![p] = lost(p)]
    /\ UNCHANGED <<at, left, engine, code, key, heard, try, broke>>

(* Both users start over, with new sockets and whatever codes they have    *)
(* now.  An exchange that waits on a closed socket waits for ever, and one *)
(* whose next step needs nobody has taken it; one that waits for the       *)
(* engine goes on waiting for it, behind the next pairing.                 *)
TryAgain ==
    /\ \A p \in Peers :
          /\ screen[p] \in {"wrong", "lost"} /\ ~up[p]
          /\ at[p] \notin {"tagging", "comparing"}
          /\ at[p] = "init" \/ left[p] => engine[p] = "unloaded"
    /\ try < MaxTries
    /\ try' = try + 1
    /\ screen' = [p \in Peers |-> "waiting"]
    /\ at' = [p \in Peers |-> "idle"]
    /\ left' = [p \in Peers |-> left[p] \/ at[p] = "init"]
    /\ code' \in [Peers -> Codes]
    /\ key' = [p \in Peers |-> NoKey]
    /\ heard' = [p \in Peers |-> NoKey]
    /\ wire' = [p \in Peers |-> <<>>]
    /\ up' = [p \in Peers |-> TRUE]
    /\ broke' = [p \in Peers |-> FALSE]
    /\ UNCHANGED engine

Step(p) ==
    \/ HearPaired(p) \/ EnsureLoaded(p) \/ LeftoverEnds(p)
    \/ InitDone(p) \/ InitFails(p) \/ HearMsg(p) \/ TagReady(p)
    \/ HearConfirm(p) \/ Missed(p) \/ Compared(p) \/ EngineFails(p)
    \/ Closed(p)

Next == TryAgain \/ \E p \in Peers : Step(p)

Spec == Init /\ [][Next]_vars

-----------------------------------------------------------------------------
(* Properties *)

Screens  == {"waiting", "verifying", "paired", "wrong", "lost"}
Points   == {"idle", "init", "pake_msg", "tagging", "pake_confirm",
             "comparing", "done"}
Keys     == {NoKey} \cup (Codes \X Nat)
Messages == [type : {"pake_msg", "pake_confirm"}, tag : Keys]

(* Types: the two pages and the messages between them.                     *)
TypeOK ==
    /\ screen \in [Peers -> Screens]
    /\ at \in [Peers -> Points]
    /\ left \in [Peers -> BOOLEAN]
    /\ engine \in [Peers -> {"unloaded", "ready", "failed"}]
    /\ code \in [Peers -> Codes]
    /\ key \in [Peers -> Keys]
    /\ heard \in [Peers -> Keys]
    /\ wire \in [Peers -> Seq(Messages)]
    /\ up \in [Peers -> BOOLEAN]
    /\ try \in Nat
    /\ broke \in [Peers -> BOOLEAN]

(* Key confirmation: a page shows "paired" only if the other page has, in  *)
(* this exchange, derived the very same key, so both had the same code;    *)
(* however late the comparison resolves, and whoever has left meanwhile.   *)
PairedMeansAgreed ==
    \A p \in Peers :
       screen[p] = "paired" => key[p] # NoKey /\ key[other(p)] = key[p]

(* A page that says the code did not match is right, unless its own engine *)
(* failed it, in this exchange or in one it had left: lost messages and    *)
(* dropped sockets are never taken for a wrong code.                       *)
MismatchIsReal ==
    \A p \in Peers :
       screen[p] = "wrong" => broke[p] \/ code[p] # code[other(p)]

(* A tag that comes while its reader still computes its own is thrown away *)
(* and never sent again.  It happens to one of the two at most: with both  *)
(* sockets open, the pages never both wait for tags that are gone, so that *)
(* whatever the messages' order, one of them gets to the comparison.  (The *)
(* other may be left verifying until the relay ends the session.)          *)
OneTagArrives ==
    (\A p \in Peers : up[p] /\ at[p] = "pake_confirm") =>
       \E p \in Peers : \E i \in 1..Len(wire[p]) :
          wire[p][i].type = "pake_confirm"

=============================================================================
