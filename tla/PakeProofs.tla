----------------------------- MODULE PakeProofs ------------------------------
(***************************************************************************)
(* Proofs about PakeExchange, for any set of codes and any number of       *)
(* tries: its types, that key confirmation means what it says, and that of *)
(* the two tags one arrives.                                               *)
(***************************************************************************)
EXTENDS PakeExchange, TLAPS

(* What is confirmed, and why: a key is the one of this exchange or none;  *)
(* a tag that travels or has been heard is its sender's key, which the     *)
(* sender does not change any more.                                        *)
KeyKnown ==
    \A p \in Peers :
       /\ screen[p] = "waiting" => at[p] = "idle"
       /\ key[p] \in {NoKey, derived(p)}
       /\ at[p] \in {"idle", "init", "pake_msg"} => key[p] = NoKey
       /\ at[p] \in {"tagging", "pake_confirm", "comparing"} =>
             key[p] = derived(p)

tells(m, k) == m.type = "pake_confirm" => m.tag # NoKey /\ m.tag = k

tellsOnly(s, k) == \A i \in 1..Len(s) : tells(s[i], k)

TagTravels == \A p \in Peers : tellsOnly(wire[p], key[other(p)])

TagHeard ==
    \A p \in Peers :
       at[p] = "comparing" => heard[p] # NoKey /\ heard[p] = key[other(p)]

IInv ==
    /\ TypeOK /\ KeyKnown /\ TagTravels /\ TagHeard
    /\ PairedMeansAgreed /\ MismatchIsReal

-----------------------------------------------------------------------------
(* Each peer is the other's other.                                         *)
LEMMA OtherPeer ==
    ASSUME NEW p \in Peers
    PROVE  /\ other(p) \in Peers /\ other(p) # p /\ other(other(p)) = p
           /\ \A q \in Peers : q = p \/ q = other(p)
  BY DEF Peers, other

(* A derived key is never the absent one.                                  *)
LEMMA DerivedIsKey ==
    ASSUME TypeOK, NEW p \in Peers
    PROVE  derived(p) \in Keys /\ derived(p) # NoKey
  <1>1. derived(p) \in Codes \X Nat
    BY DEF TypeOK, derived
  <1>2. Len(derived(p)) = 2 /\ Len(NoKey) = 0
    BY DEF derived, NoKey
  <1> QED
    BY SMTT(30), <1>1, <1>2 DEF Keys

(* Reading the first message leaves a wire that tells no more than before. *)
LEMMA ReadWire ==
    ASSUME NEW s \in Seq(Messages), s # <<>>, NEW k, tellsOnly(s, k)
    PROVE  /\ Head(s) \in Messages /\ tells(Head(s), k)
           /\ Tail(s) \in Seq(Messages) /\ tellsOnly(Tail(s), k)
  <1>1. /\ Head(s) \in Messages /\ Head(s) = s[1] /\ 1 \in 1..Len(s)
        /\ Tail(s) \in Seq(Messages)
        /\ \A i \in 1..Len(Tail(s)) :
              i + 1 \in 1..Len(s) /\ Tail(s)[i] = s[i + 1]
    OBVIOUS
  <1> QED
    BY <1>1 DEF tellsOnly

(* A message that tells k, put on a wire that tells only k.                *)
LEMMA AppendWire ==
    ASSUME NEW s \in Seq(Messages), NEW m \in Messages, NEW k,
           tellsOnly(s, k), tells(m, k)
    PROVE  Append(s, m) \in Seq(Messages) /\ tellsOnly(Append(s, m), k)
  <1>1. \A i \in 1..Len(Append(s, m)) :
           (i \in 1..Len(s) /\ Append(s, m)[i] = s[i]) \/ Append(s, m)[i] = m
    OBVIOUS
  <1> QED
    BY <1>1 DEF tellsOnly

(* A send changes at most the wire to the other peer.                      *)
LEMMA SentWire ==
    ASSUME TypeOK, NEW W \in [Peers -> Seq(Messages)], NEW p \in Peers,
           NEW m \in Messages, NEW k,
           tellsOnly(W[other(p)], k), tells(m, k)
    PROVE  /\ sent(W, p, m) \in [Peers -> Seq(Messages)]
           /\ sent(W, p, m)[p] = W[p]
           /\ tellsOnly(sent(W, p, m)[other(p)], k)
  <1>1. other(p) \in Peers /\ other(p) # p
    BY OtherPeer
  <1>2. CASE up[p] /\ up[other(p)]
    <2>1. sent(W, p, m) = [W EXCEPT ![other(p)] = Append(@, m)]
      BY <1>2 DEF sent
    <2>2. Append(W[other(p)], m) \in Seq(Messages)
          /\ tellsOnly(Append(W[other(p)], m), k)
      BY <1>1, AppendWire
    <2> QED
      BY <1>1, <2>1, <2>2
  <1>3. CASE ~(up[p] /\ up[other(p)])
    BY <1>1, <1>3 DEF sent
  <1> QED
    BY <1>2, <1>3

(* The messages that are sent are messages, and a tag is a key.            *)
LEMMA SentMessages ==
    ASSUME TypeOK, NEW p \in Peers
    PROVE  pake_msg \in Messages /\ pake_confirm(p) \in Messages
  BY DEF TypeOK, pake_msg, pake_confirm, confirmTag, Messages, Keys, NoKey

-----------------------------------------------------------------------------
(* Types *)

(* Reading from a wire leaves a wire.                                      *)
LEMMA ReadType ==
    ASSUME NEW s \in Seq(Messages), s # <<>>
    PROVE  Head(s) \in Messages /\ Tail(s) \in Seq(Messages)
  OBVIOUS

(* Sending on wires leaves wires.                                          *)
LEMMA SentType ==
    ASSUME TypeOK, NEW W \in [Peers -> Seq(Messages)], NEW p \in Peers,
           NEW m \in Messages
    PROVE  sent(W, p, m) \in [Peers -> Seq(Messages)]
  <1>1. Append(W[other(p)], m) \in Seq(Messages)
    BY OtherPeer
  <1> QED
    BY <1>1, OtherPeer DEF sent

LEMMA TypeStep ==
    ASSUME TypeOK, [Next]_vars
    PROVE  TypeOK'
  <1>1. CASE UNCHANGED vars
    BY <1>1 DEF TypeOK, vars
  <1>2. CASE TryAgain
    BY <1>2 DEF TypeOK, TryAgain, Screens, Points, Keys
  <1>3. ASSUME NEW p \in Peers, Step(p)
        PROVE  TypeOK'
    <2> USE OtherPeer, DerivedIsKey, SentMessages
    <2> DEFINE W == [wire EXCEPT ![p] = Tail(@)]
    <2>t. wire[p] # <<>> => W \in [Peers -> Seq(Messages)]
      BY ReadType DEF TypeOK
    <2>1. CASE HearPaired(p)
      BY <2>1 DEF TypeOK, HearPaired, Screens, Points
    <2>2. CASE EnsureLoaded(p)
      BY <2>2 DEF TypeOK, EnsureLoaded
    <2>3. CASE InitDone(p)
      <3>1. wire' \in [Peers -> Seq(Messages)]
        BY <2>3, SentType DEF TypeOK, InitDone
      <3> QED
        BY <2>3, <3>1 DEF TypeOK, InitDone, Points
    <2>4. CASE InitFails(p)
      BY <2>4 DEF TypeOK, InitFails, fail, code_mismatch, Screens, Points
    <2>5. CASE HearMsg(p)
      <3>1. W \in [Peers -> Seq(Messages)]
        BY <2>5, <2>t DEF HearMsg
      <3>2. wire' \in [Peers -> Seq(Messages)]
        BY <2>5, <3>1, SentType DEF HearMsg
      <3> QED
        BY <2>5, <3>2 DEF TypeOK, HearMsg, Points
    <2>6. CASE TagReady(p)
      <3>1. wire' \in [Peers -> Seq(Messages)]
        BY <2>6, SentType DEF TypeOK, TagReady
      <3> QED
        BY <2>6, <3>1 DEF TypeOK, TagReady, Points
    <2>7. CASE HearConfirm(p)
      <3>1. Head(wire[p]) \in Messages
        BY <2>7, ReadType DEF TypeOK, HearConfirm
      <3>2. Head(wire[p]).tag \in Keys
        BY <3>1 DEF Messages
      <3> QED
        BY <2>7, <2>t, <3>2 DEF TypeOK, HearConfirm, Points
    <2>8. CASE Missed(p)
      BY <2>8, <2>t DEF TypeOK, Missed
    <2>9. CASE Compared(p)
      <3>1. CASE matches(p)
        <4>1. /\ screen' = [screen EXCEPT ![p] = "paired"]
              /\ at' = [at EXCEPT ![p] = "done"]
              /\ UNCHANGED <<wire, up, left, engine, code, key, heard, try, broke>>
          BY <2>9, <3>1 DEF Compared
        <4> QED
          BY <4>1 DEF TypeOK, Screens, Points
      <3>2. CASE ~matches(p)
        <4>1. fail(p, wire) /\ UNCHANGED <<left, engine, code, key, heard, try, broke>>
          BY <2>9, <3>2 DEF Compared
        <4> QED
          BY <4>1 DEF TypeOK, fail, code_mismatch, Screens, Points
      <3> QED
        BY <3>1, <3>2
    <2>10. CASE EngineFails(p)
      BY <2>10 DEF TypeOK, EngineFails, fail, code_mismatch, Screens, Points
    <2>11. CASE Closed(p)
      BY <2>11 DEF TypeOK, Closed, lost, Screens
    <2>12. CASE LeftoverEnds(p)
      <3>1. /\ left' = [left EXCEPT ![p] = FALSE]
            /\ UNCHANGED <<at, engine, code, key, heard, try>>
        BY <2>12 DEF LeftoverEnds
      <3>2. CASE UNCHANGED <<screen, wire, up, broke>>
        BY <3>1, <3>2 DEF TypeOK
      <3>3. CASE code_mismatch(p, wire) /\ broke' = [broke EXCEPT ![p] = TRUE]
        BY <3>1, <3>3 DEF TypeOK, code_mismatch, Screens
      <3> QED
        BY <2>12, <3>2, <3>3 DEF LeftoverEnds
    <2> QED
      BY <1>3, <2>1, <2>2, <2>3, <2>4, <2>5, <2>6, <2>7, <2>8, <2>9, <2>10,
         <2>11, <2>12 DEF Step
  <1> QED
    BY <1>1, <1>2, <1>3 DEF Next

(* The types of the exchange hold in every reachable state, for any codes  *)
(* and any number of tries.                                                *)
THEOREM PakeTypeCorrect == Spec => []TypeOK
  <1>1. Init => TypeOK
    BY PakeAssumption DEF Init, TypeOK, Screens, Points, Keys, NoKey
  <1> QED
    BY <1>1, TypeStep, PTL DEF Spec

-----------------------------------------------------------------------------
(* Key confirmation *)

(* An empty wire tells nothing; one that could only tell the absent key    *)
(* carries no tag at all.                                                  *)
LEMMA NoTagTravels ==
    ASSUME NEW k
    PROVE  /\ tellsOnly(<<>>, k)
           /\ \A s : tellsOnly(s, NoKey) => tellsOnly(s, k)
  <1>1. tellsOnly(<<>>, k)
    BY DEF tellsOnly
  <1>2. \A s : tellsOnly(s, NoKey) => tellsOnly(s, k)
    BY DEF tellsOnly, tells
  <1> QED
    BY <1>1, <1>2

(* While a page neither derives a key nor starts over, its tags on the way *)
(* stay right if no wire tells more than it did.                           *)
LEMMA TagsStay ==
    ASSUME TypeOK, TagTravels, TypeOK', UNCHANGED key, NEW p \in Peers,
           tellsOnly(wire'[p], key[other(p)]),
           tellsOnly(wire'[other(p)], key[p])
    PROVE  TagTravels'
  <1>1. ASSUME NEW q \in Peers
        PROVE  tellsOnly(wire'[q], key'[other(q)])
    BY OtherPeer
  <1> QED
    BY <1>1 DEF TagTravels, other

LEMMA TagsStep ==
    ASSUME IInv, [Next]_vars, TypeOK'
    PROVE  TagTravels'
  <1> USE DEF IInv
  <1>1. CASE UNCHANGED vars
    BY <1>1 DEF vars, TagTravels, tellsOnly, tells, other
  <1>2. CASE TryAgain
    <2>1. \A q \in Peers : wire'[q] = <<>>
      BY <1>2 DEF TryAgain
    <2>2. \A q \in Peers : tellsOnly(wire'[q], key'[other(q)])
      BY <2>1, NoTagTravels
    <2> QED
      BY <2>2 DEF TagTravels, other
  <1>3. ASSUME NEW p \in Peers, Step(p)
        PROVE  TagTravels'
    <2> DEFINE o == other(p)
    <2>o. o \in Peers /\ o # p /\ other(o) = p
      BY OtherPeer
    <2>h. /\ tellsOnly(wire[p], key[o]) /\ tellsOnly(wire[o], key[p])
          /\ wire \in [Peers -> Seq(Messages)]
      BY <2>o DEF TagTravels, TypeOK
    <2>e. /\ tellsOnly(<<>>, key[o]) /\ tellsOnly(<<>>, key[p])
      BY NoTagTravels
    <2>m. pake_msg \in Messages /\ tells(pake_msg, key[p])
      BY SentMessages DEF pake_msg, tells
    <2> DEFINE W == [wire EXCEPT ![p] = Tail(@)]
    <2>t. wire[p] # <<>> => /\ W \in [Peers -> Seq(Messages)]
                            /\ tellsOnly(W[p], key[o])
                            /\ W[o] = wire[o]
      BY <2>h, <2>o, ReadWire
    <2> HIDE DEF o, W
    <2>k. ASSUME UNCHANGED key, tellsOnly(wire'[p], key[o]),
                 tellsOnly(wire'[o], key[p])
          PROVE  TagTravels'
      BY <2>k, TagsStay DEF o
    <2>f. ASSUME UNCHANGED key, wire' = [wire EXCEPT ![p] = <<>>]
          PROVE  TagTravels'
      BY <2>k, <2>f, <2>h, <2>e, <2>o
    <2>1. CASE HearPaired(p) \/ EnsureLoaded(p)
      BY <2>1, <2>k, <2>h DEF HearPaired, EnsureLoaded
    <2>3. CASE InitDone(p)
      <3>1. UNCHANGED key /\ wire' \in {wire, sent(wire, p, pake_msg)}
        BY <2>3 DEF InitDone
      <3>2. /\ sent(wire, p, pake_msg)[p] = wire[p]
            /\ tellsOnly(sent(wire, p, pake_msg)[o], key[p])
        BY <2>h, <2>m, SentWire DEF o
      <3> QED
        BY <2>k, <2>h, <3>1, <3>2
    <2>4. CASE InitFails(p) \/ EngineFails(p) \/ Closed(p)
      BY <2>4, <2>f DEF InitFails, EngineFails, Closed, fail, code_mismatch
    <2>9. CASE LeftoverEnds(p)
      BY <2>9, <2>f, <2>k, <2>h DEF LeftoverEnds, code_mismatch
    <2>5. CASE HearMsg(p)
      <3>1. /\ wire[p] # <<>> /\ at[p] = "pake_msg"
            /\ key' = [key EXCEPT ![p] = derived(p)]
            /\ wire' \in {W, sent(W, p, pake_msg)}
        BY <2>5 DEF HearMsg, listens, W
      <3>2. key[p] = NoKey
        BY <3>1 DEF KeyKnown
      <3>3. tellsOnly(W[o], derived(p)) /\ tellsOnly(W[p], key[o])
        BY <2>h, <2>t, <3>1, <3>2, NoTagTravels
      <3>4. tells(pake_msg, derived(p))
        BY DEF pake_msg, tells
      <3>5. /\ sent(W, p, pake_msg)[p] = W[p]
            /\ tellsOnly(sent(W, p, pake_msg)[o], derived(p))
        BY <2>t, <2>m, <3>1, <3>3, <3>4, SentWire DEF o
      <3>6. tellsOnly(wire'[p], key[o]) /\ tellsOnly(wire'[o], derived(p))
        BY <3>1, <3>3, <3>5
      <3>7. key'[p] = derived(p) /\ key'[o] = key[o]
        BY <3>1, <2>o DEF TypeOK
      <3>8. ASSUME NEW q \in Peers
            PROVE  tellsOnly(wire'[q], key'[other(q)])
        BY <3>6, <3>7, <2>o, OtherPeer DEF o
      <3> QED
        BY <3>8 DEF TagTravels, other
    <2>6. CASE TagReady(p)
      <3>1. /\ UNCHANGED key /\ wire' = sent(wire, p, pake_confirm(p))
            /\ at[p] = "tagging"
        BY <2>6 DEF TagReady
      <3>2. key[p] = derived(p) /\ key[p] # NoKey
        BY <3>1, DerivedIsKey DEF KeyKnown
      <3>3. pake_confirm(p) \in Messages /\ tells(pake_confirm(p), key[p])
        BY <3>2, SentMessages DEF pake_confirm, confirmTag, tells
      <3>4. /\ sent(wire, p, pake_confirm(p))[p] = wire[p]
            /\ tellsOnly(sent(wire, p, pake_confirm(p))[o], key[p])
        BY <2>h, <3>3, SentWire DEF o
      <3> QED
        BY <2>k, <2>h, <3>1, <3>4
    <2>7. CASE HearConfirm(p) \/ Missed(p)
      <3>1. UNCHANGED key /\ wire[p] # <<>> /\ wire' = W
        BY <2>7 DEF HearConfirm, Missed, W
      <3> QED
        BY <2>k, <2>h, <2>t, <3>1
    <2>8. CASE Compared(p)
      <3>1. UNCHANGED key /\ (UNCHANGED wire \/ wire' = [wire EXCEPT ![p] = <<>>])
        BY <2>8 DEF Compared, fail, code_mismatch
      <3> QED
        BY <2>k, <2>f, <2>h, <3>1
    <2> QED
      BY <1>3, <2>1, <2>3, <2>4, <2>5, <2>6, <2>7, <2>8, <2>9 DEF Step
  <1> QED
    BY <1>1, <1>2, <1>3 DEF Next

(* The conjuncts about keys and screens.                                   *)
Confirmed == KeyKnown /\ TagHeard /\ PairedMeansAgreed /\ MismatchIsReal

LEMMA ConfirmedStep ==
    ASSUME IInv, [Next]_vars, TypeOK'
    PROVE  Confirmed'
  <1> USE DEF IInv, Confirmed
  <1>1. CASE UNCHANGED vars
    BY <1>1 DEF vars, KeyKnown, TagHeard, PairedMeansAgreed, MismatchIsReal,
                derived, other
  <1>2. CASE TryAgain
    BY <1>2 DEF TryAgain, KeyKnown, TagHeard, PairedMeansAgreed,
                MismatchIsReal, derived, other
  <1>3. ASSUME NEW p \in Peers, Step(p)
        PROVE  Confirmed'
    <2> DEFINE o == other(p)
    <2>o. o \in Peers /\ o # p /\ other(o) = p
          /\ \A q \in Peers : q = p \/ q = o
      BY OtherPeer
    <2>1. CASE HearPaired(p)
      BY <2>1 DEF TypeOK, HearPaired, KeyKnown, TagHeard, PairedMeansAgreed,
                  MismatchIsReal, derived, other
    <2>2. CASE EnsureLoaded(p)
      BY <2>2 DEF TypeOK, EnsureLoaded, KeyKnown, TagHeard,
                  PairedMeansAgreed, MismatchIsReal, derived, other
    <2>3. CASE InitDone(p)
      BY <2>3 DEF TypeOK, InitDone, KeyKnown, TagHeard, PairedMeansAgreed,
                  MismatchIsReal, derived, other
    <2>4. CASE InitFails(p)
      BY <2>4 DEF TypeOK, InitFails, fail, code_mismatch, KeyKnown, TagHeard,
                  PairedMeansAgreed, MismatchIsReal, derived, other
    <2>5. CASE HearMsg(p)
      <3>1. /\ at[p] = "pake_msg" /\ key' = [key EXCEPT ![p] = derived(p)]
            /\ at' = [at EXCEPT ![p] = "tagging"]
            /\ UNCHANGED <<screen, code, heard, try, broke>>
        BY <2>5 DEF HearMsg, listens
      <3>2. key[p] = NoKey
        BY <3>1 DEF KeyKnown
      <3>3. at[o] # "comparing" /\ screen[o] # "paired" /\ screen[p] # "paired"
        BY <3>2, <2>o DEF TagHeard, PairedMeansAgreed
      <3>4. KeyKnown'
        BY <3>1 DEF TypeOK, KeyKnown, derived
      <3>5. TagHeard'
        BY <3>1, <3>3, <2>o DEF TypeOK, TagHeard
      <3>6. PairedMeansAgreed' /\ MismatchIsReal'
        BY <3>1, <3>3, <2>o DEF TypeOK, PairedMeansAgreed, MismatchIsReal, other
      <3> QED
        BY <3>4, <3>5, <3>6
    <2>6. CASE TagReady(p)
      BY <2>6 DEF TypeOK, TagReady, KeyKnown, TagHeard, PairedMeansAgreed,
                  MismatchIsReal, derived, other
    <2>7. CASE HearConfirm(p)
      <3>1. /\ wire[p] # <<>> /\ Head(wire[p]).type = "pake_confirm"
            /\ at[p] = "pake_confirm" /\ at' = [at EXCEPT ![p] = "comparing"]
            /\ heard' = [heard EXCEPT ![p] = Head(wire[p]).tag]
            /\ UNCHANGED <<screen, code, key, try, broke>>
        BY <2>7 DEF HearConfirm, listens
      <3>2. wire[p] \in Seq(Messages) /\ tellsOnly(wire[p], key[o])
        BY DEF TypeOK, TagTravels
      <3>3. Head(wire[p]).tag # NoKey /\ Head(wire[p]).tag = key[o]
        BY <3>1, <3>2, ReadWire DEF tells
      <3>4. KeyKnown'
        BY <3>1 DEF TypeOK, KeyKnown, derived
      <3>5. TagHeard'
        BY <3>1, <3>3, <2>o DEF TypeOK, TagHeard, other
      <3>6. PairedMeansAgreed' /\ MismatchIsReal'
        BY <3>1 DEF PairedMeansAgreed, MismatchIsReal, other
      <3> QED
        BY <3>4, <3>5, <3>6
    <2>8. CASE Missed(p)
      BY <2>8 DEF TypeOK, Missed, KeyKnown, TagHeard, PairedMeansAgreed,
                  MismatchIsReal, derived, other
    <2>9. CASE Compared(p)
      <3>1. /\ at[p] = "comparing" /\ at' = [at EXCEPT ![p] = "done"]
            /\ UNCHANGED <<code, key, heard, try, broke>>
        BY <2>9 DEF Compared, fail, code_mismatch
      <3>2. heard[p] # NoKey /\ heard[p] = key[o] /\ key[p] = derived(p)
        BY <3>1 DEF TagHeard, KeyKnown
      <3>3. KeyKnown' /\ TagHeard'
        BY <2>9, <3>1, <2>o
           DEF TypeOK, Compared, fail, code_mismatch, KeyKnown, TagHeard, derived, other
      <3>4. CASE matches(p)
        <4>1. screen' = [screen EXCEPT ![p] = "paired"]
          BY <2>9, <3>4 DEF Compared
        <4>2. key[p] = key[o] /\ key[p] # NoKey
          BY <3>2, <3>4 DEF matches, confirmTag
        <4> QED
          BY <3>1, <3>3, <4>1, <4>2, <2>o
             DEF TypeOK, PairedMeansAgreed, MismatchIsReal, other
      <3>5. CASE ~matches(p)
        <4>1. screen' = [screen EXCEPT ![p] = "wrong"]
          BY <2>9, <3>5 DEF Compared, fail, code_mismatch
        <4>2. key[p] # key[o] /\ key[o] = derived(o)
          BY <3>2, <3>5, <2>o DEF matches, confirmTag, KeyKnown
        <4>3. code[p] # code[o]
          BY <3>2, <4>2 DEF derived
        <4> QED
          BY <3>1, <3>3, <4>1, <4>3, <2>o
             DEF TypeOK, PairedMeansAgreed, MismatchIsReal, other
      <3> QED
        BY <3>4, <3>5
    <2>10. CASE EngineFails(p)
      BY <2>10 DEF TypeOK, EngineFails, fail, code_mismatch, KeyKnown, TagHeard,
                   PairedMeansAgreed, MismatchIsReal, derived, other
    <2>11. CASE Closed(p)
      BY <2>11 DEF TypeOK, Closed, lost, KeyKnown, TagHeard,
                   PairedMeansAgreed, MismatchIsReal, derived, other
    <2>12. CASE LeftoverEnds(p)
      <3>1. UNCHANGED <<at, code, key, heard, try>>
        BY <2>12 DEF LeftoverEnds
      <3>2. CASE UNCHANGED <<screen, broke>>
        BY <3>1, <3>2 DEF KeyKnown, TagHeard, PairedMeansAgreed,
                          MismatchIsReal, derived, other
      <3>3. CASE /\ screen' = [screen EXCEPT ![p] = "wrong"]
                 /\ broke' = [broke EXCEPT ![p] = TRUE]
        BY <3>1, <3>3 DEF TypeOK, KeyKnown, TagHeard, PairedMeansAgreed,
                          MismatchIsReal, derived, other
      <3> QED
        BY <2>12, <3>2, <3>3 DEF LeftoverEnds, code_mismatch
    <2> QED
      BY <1>3, <2>1, <2>2, <2>3, <2>4, <2>5, <2>6, <2>7, <2>8, <2>9, <2>10,
         <2>11, <2>12 DEF Step
  <1> QED
    BY <1>1, <1>2, <1>3 DEF Next

(* The invariant: true at first, and kept by every step.                   *)
LEMMA ConfirmationHolds == Spec => []IInv
  <1>1. Init => IInv
    <2>1. Init => TypeOK
      BY PakeAssumption DEF Init, TypeOK, Screens, Points, Keys, NoKey
    <2>2. Init => TagTravels
      <3>1. Init => \A q \in Peers : wire[q] = <<>>
        BY DEF Init
      <3> QED
        BY <3>1, NoTagTravels DEF TagTravels
    <2> QED
      BY <2>1, <2>2 DEF Init, IInv, KeyKnown, TagHeard, PairedMeansAgreed,
                        MismatchIsReal
  <1>2. IInv /\ [Next]_vars => IInv'
    BY TypeStep, TagsStep, ConfirmedStep DEF IInv, Confirmed
  <1> QED
    BY <1>1, <1>2, PTL DEF Spec

(* Key confirmation, for any codes and any number of tries: a page shows   *)
(* "paired" only if the other page has derived the same key in this        *)
(* exchange, whichever messages the late listeners of runPakeExchange miss *)
(* and whenever a socket closes.                                           *)
THEOREM KeyConfirmed == Spec => []PairedMeansAgreed
  <1>1. IInv => PairedMeansAgreed
    BY DEF IInv
  <1> QED
    BY <1>1, ConfirmationHolds, PTL

(* A page that shows code_mismatch after runPakeExchange has a different   *)
(* code from its peer's, or its own engine failed: for any codes and any   *)
(* number of tries.                                                        *)
THEOREM MismatchIsTrue == Spec => []MismatchIsReal
  <1>1. IInv => MismatchIsReal
    BY DEF IInv
  <1> QED
    BY <1>1, ConfirmationHolds, PTL

-----------------------------------------------------------------------------
(* One of the two tags arrives *)

carriesTag(s) == \E i \in 1..Len(s) : s[i].type = "pake_confirm"

BothWait == \A p \in Peers : up[p] /\ at[p] = "pake_confirm"

(* What is put on a wire is on it, and takes nothing off it.               *)
LEMMA TagAppended ==
    ASSUME NEW s \in Seq(Messages), NEW m \in Messages
    PROVE  m.type = "pake_confirm" => carriesTag(Append(s, m))
  <1>1. /\ Len(Append(s, m)) \in 1..Len(Append(s, m))
        /\ Append(s, m)[Len(Append(s, m))] = m
    OBVIOUS
  <1> QED
    BY <1>1 DEF carriesTag

(* A message that is not a tag is read off; the tag behind it stays.       *)
LEMMA TagStays ==
    ASSUME NEW s \in Seq(Messages), s # <<>>, carriesTag(s),
           Head(s).type # "pake_confirm"
    PROVE  carriesTag(Tail(s))
  <1>1. PICK i \in 1..Len(s) : s[i].type = "pake_confirm"
    BY DEF carriesTag
  <1>2. i # 1 /\ Len(s) \in Nat
    BY <1>1
  <1>3. i - 1 \in 1..Len(Tail(s)) /\ Tail(s)[i - 1] = s[i]
    BY <1>2
  <1> QED
    BY <1>1, <1>3 DEF carriesTag

LEMMA OneTagStep ==
    ASSUME TypeOK, OneTagArrives, [Next]_vars
    PROVE  OneTagArrives'
  <1>0. OneTagArrives <=> (BothWait => \E p \in Peers : carriesTag(wire[p]))
    BY DEF OneTagArrives, BothWait, carriesTag
  <1>e. OneTagArrives' <=> (BothWait' => \E p \in Peers : carriesTag(wire'[p]))
    BY DEF OneTagArrives, BothWait, carriesTag
  <1>1. CASE UNCHANGED vars
    BY <1>0, <1>e, <1>1 DEF vars, BothWait
  <1>2. CASE TryAgain
    <2>1. ~BothWait'
      BY <1>2 DEF TryAgain, BothWait, Peers
    <2> QED
      BY <1>e, <2>1
  <1>3. ASSUME NEW p \in Peers, Step(p), BothWait'
        PROVE  \E q \in Peers : carriesTag(wire'[q])
    <2> DEFINE o == other(p)
    <2>o. o \in Peers /\ o # p /\ \A q \in Peers : q = p \/ q = o
      BY OtherPeer
    <2>w. wire \in [Peers -> Seq(Messages)]
      BY DEF TypeOK
    <2> HIDE DEF o
    <2>1. up'[p] /\ at'[p] = "pake_confirm" /\ up'[o] /\ at'[o] = "pake_confirm"
      BY <1>3, <2>o DEF BothWait
    <2>2. CASE TagReady(p)
      <3>1. up[p] /\ up[o]
        BY <2>1, <2>2 DEF TagReady
      <3>2. wire' = [wire EXCEPT ![o] = Append(@, pake_confirm(p))]
        BY <2>2, <3>1 DEF TagReady, sent, o
      <3>3. wire'[o] = Append(wire[o], pake_confirm(p))
        BY <2>o, <2>w, <3>2
      <3>4. pake_confirm(p) \in Messages /\ pake_confirm(p).type = "pake_confirm"
        BY SentMessages DEF pake_confirm
      <3> QED
        BY <2>o, <2>w, <3>3, <3>4, TagAppended
    <2>3. CASE Missed(p)
      <3>1. /\ UNCHANGED <<at, up>> /\ wire[p] # <<>>
            /\ wire' = [wire EXCEPT ![p] = Tail(@)]
            /\ Head(wire[p]).type # "pake_confirm"
        BY <2>1, <2>3 DEF Missed, listens
      <3>2. BothWait
        BY <1>3, <3>1 DEF BothWait
      <3>3. PICK q \in Peers : carriesTag(wire[q])
        BY <1>0, <3>2
      <3>4. carriesTag(wire'[q])
        BY <2>w, <3>1, <3>3, TagStays
      <3> QED
        BY <3>4
    <2>4. CASE EnsureLoaded(p) \/ (LeftoverEnds(p) /\ UNCHANGED <<wire, up>>)
      <3>1. UNCHANGED <<at, up, wire>>
        BY <2>4 DEF EnsureLoaded, LeftoverEnds
      <3> QED
        BY <1>0, <1>3, <3>1 DEF BothWait
    <2>5. CASE \/ InitFails(p) \/ EngineFails(p) \/ Closed(p)
               \/ LeftoverEnds(p) /\ code_mismatch(p, wire)
      <3>1. ~up'[p]
        BY <2>5 DEF InitFails, EngineFails, Closed, LeftoverEnds, fail,
                    code_mismatch, TypeOK
      <3> QED
        BY <2>1, <3>1
    <2>6. CASE \/ HearPaired(p) \/ InitDone(p) \/ HearMsg(p)
               \/ HearConfirm(p) \/ Compared(p)
      <3>1. at'[p] # "pake_confirm"
        BY <2>6 DEF HearPaired, InitDone, HearMsg, HearConfirm, Compared,
                    fail, TypeOK
      <3> QED
        BY <2>1, <3>1
    <2> QED
      BY <1>3, <2>2, <2>3, <2>4, <2>5, <2>6 DEF Step, LeftoverEnds
  <1> QED
    BY <1>1, <1>2, <1>3, <1>e DEF Next

(* Late listeners lose one of the two tags at most, for any codes and any  *)
(* number of tries: while both sockets are open, two pages that wait for   *)
(* pake_confirm never both wait in vain.                                   *)
THEOREM OneTagAlwaysArrives == Spec => []OneTagArrives
  <1>1. Init => OneTagArrives
    BY DEF Init, OneTagArrives, Peers
  <1>2. TypeOK /\ OneTagArrives /\ [Next]_vars => OneTagArrives'
    BY OneTagStep
  <1> QED
    BY <1>1, <1>2, PakeTypeCorrect, PTL DEF Spec

=============================================================================
