----------------------------- MODULE MCAccounts -----------------------------
(***************************************************************************)
(* Two sessions, one slot, two submissions, one crash, two accounts: the   *)
(* second account can find the first one active or disabled.  Sessions and *)
(* accounts may be permuted, no liveness is checked here.  A state with    *)
(* more than MaxCalls rows of model calls is checked and not followed: no  *)
(* guard reads the rows and every property looks at one of them at a time, *)
(* so that the others change nothing.                                      *)
(***************************************************************************)
EXTENDS Accounts, TLC

CONSTANT MaxCalls

Symmetric == Permutations(Sessions) \cup Permutations(Users)
FewCalls == Cardinality(calls) <= MaxCalls
=============================================================================
