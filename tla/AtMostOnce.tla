----------------------------- MODULE AtMostOnce -----------------------------
(***************************************************************************)
(* What the effect ledger promises to the learning state, with nothing of  *)
(* how it does it: a keyed effect is claimed at most once, while it is     *)
(* claimed it writes each of the workspace files at most once, and after   *)
(* it is settled it writes nothing more.  A claim may be abandoned for     *)
(* ever (the process died holding it); nobody else takes it over.          *)
(***************************************************************************)
EXTENDS Naturals

CONSTANTS
  Keys,    (* the identity of an effect: session, message, tool, arguments *)
  Files    (* the workspace files one effect writes                        *)

VARIABLES
  claim,   (* [Keys -> {"free", "claimed", "settled"}]                     *)
  writes   (* [Keys -> [Files -> Nat]], how often k wrote each file        *)

avars == <<claim, writes>>

Init ==
  /\ claim = [k \in Keys |-> "free"]
  /\ writes = [k \in Keys |-> [f \in Files |-> 0]]

Claim(k) ==
  /\ claim[k] = "free"
  /\ claim' = [claim EXCEPT ![k] = "claimed"]
  /\ UNCHANGED writes

Write(k, f) ==
  /\ claim[k] = "claimed"
  /\ writes[k][f] = 0
  /\ writes' = [writes EXCEPT ![k] = [@ EXCEPT ![f] = 1]]
  /\ UNCHANGED claim

Settle(k) ==
  /\ claim[k] = "claimed"
  /\ claim' = [claim EXCEPT ![k] = "settled"]
  /\ UNCHANGED writes

Next ==
  \E k \in Keys :
    \/ Claim(k)
    \/ \E f \in Files : Write(k, f)
    \/ Settle(k)

Spec == Init /\ [][Next]_avars
=============================================================================
