----------------------------- MODULE RelayCodes -----------------------------
(***************************************************************************)
(* RelayHub with history variables that record what pairing codes have     *)
(* done: which session each was issued for and until when, which           *)
(* connections it matched, and when each address had a code looked up.     *)
(* The relay itself keeps only a budget per address and a map of unused    *)
(* codes, both of which the reaper prunes.                                 *)
(***************************************************************************)
EXTENDS RelayHub, Sequences

VARIABLES
    issued,     \* issued[s]: the code sent to the host of s, and its expiry
    matched,    \* matched[s]: connections whose code was found to be s's
    lookups     \* lookups[i]: when codes were looked up for address i

codeVars == <<issued, matched, lookups>>

CodesInit ==
    /\ Init
    /\ issued = [s \in Sessions |-> [code |-> Nil, until |-> 0]]
    /\ matched = [s \in Sessions |-> {}]
    /\ lookups = [i \in IPs |-> <<>>]

Issue(c) ==
    /\ CreateCodeSession(c)
    /\ issued' = [s \in Sessions |->
                    IF s \in sessions' \ sessions
                    THEN [code |-> CHOOSE k \in Codes : codes'[k].sess = s,
                          until |-> now + PairingCodeTTL]
                    ELSE issued[s]]
    /\ UNCHANGED <<matched, lookups>>

LookUp(c, k) ==
    /\ JoinByCode(c, k)
    /\ matched' = [s \in Sessions |->
                     IF s = codes[k].sess /\ told'[c] # "invalid_code"
                     THEN matched[s] \cup {c} ELSE matched[s]]
    /\ lookups' = [lookups EXCEPT ![clientIP[c]] = Append(@, now)]
    /\ UNCHANGED issued

isCodeStep ==
    \E c \in Conns :
        CreateCodeSession(c) \/ \E k \in Codes : JoinByCode(c, k)

CodesNext ==
    \/ \E c \in Conns : Issue(c) \/ \E k \in Codes : LookUp(c, k)
    \/ Next /\ ~isCodeStep /\ UNCHANGED codeVars

CodesSpec == CodesInit /\ [][CodesNext]_<<vars, codeVars>>

-----------------------------------------------------------------------------
(* Properties *)

(* A pairing code is single-use: it matches for one connection, however    *)
(* many present it at the same time and whatever becomes of the first.     *)
CodeMatchesOnce == \A s \in Sessions : Cardinality(matched[s]) <= 1

(* The code a host was sent leads to its session until it is used or its   *)
(* expiresAt has passed: no later session takes the code over, and neither *)
(* a wrong guess nor the reaper drops it early.                            *)
CodeLeadsHome ==
    \A s \in Sessions :
        /\ issued[s].code # Nil
        /\ matched[s] = {}
        /\ now <= issued[s].until
        => codes[issued[s].code].sess = s

(* The guess budget bounds how fast an address can try codes: two full     *)
(* budgets of lookups in a row take PairingCodeTTL at least, wherever they *)
(* fall across window resets and however the reaper prunes the budgets.    *)
GuessRateBounded ==
    \A i \in IPs : \A j \in 1..Len(lookups[i]) - 2 * MaxPairingAttempts + 1 :
        lookups[i][j + 2 * MaxPairingAttempts - 1] - lookups[i][j]
        >= PairingCodeTTL
=============================================================================
