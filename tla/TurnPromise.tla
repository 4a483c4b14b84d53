----------------------------- MODULE TurnPromise -----------------------------
(***************************************************************************)
(* What the server promises for the 202 answer to a message, with nothing  *)
(* of the queue, the slots and the rows behind it: a session is owed at    *)
(* most one answer at a time; an owed answer comes once, as an answer or   *)
(* as an error; it is given up only when the process dies or the session   *)
(* was deleted before its turn began.                                      *)
(***************************************************************************)
CONSTANTS Sessions, Runs

VARIABLES
  open,      (* the sessions that exist                                    *)
  owed,      (* [Sessions -> SUBSET Runs], accepted and not yet settled    *)
  accepted,  (* every run that was ever accepted                           *)
  outcome    (* [Runs -> the events that tell how it ended]                *)

pvars == <<open, owed, accepted, outcome>>

Init ==
  /\ open = {}
  /\ owed = [s \in Sessions |-> {}]
  /\ accepted = {}
  /\ outcome = [r \in Runs |-> {}]

Open(s) ==
  /\ open' = open \cup {s}
  /\ UNCHANGED <<owed, accepted, outcome>>

Remove(s) ==
  /\ open' = open \ {s}
  /\ UNCHANGED <<owed, accepted, outcome>>

Accept(s, r) ==
  /\ s \in open /\ owed[s] = {} /\ r \notin accepted
  /\ owed' = [owed EXCEPT ![s] = {r}]
  /\ accepted' = accepted \cup {r}
  /\ UNCHANGED <<open, outcome>>

(* One event tells it, wherever it comes among those of the session.       *)
Settle(s, r) ==
  /\ r \in owed[s] /\ outcome[r] = {}
  /\ \E e \in outcome'[r] :
       /\ e.kind \in {"done", "error"}
       /\ outcome' = [outcome EXCEPT ![r] = {e}]
  /\ owed' = [owed EXCEPT ![s] = @ \ {r}]
  /\ UNCHANGED <<open, accepted>>

Drop(s, r) ==
  /\ s \notin open /\ r \in owed[s]
  /\ owed' = [owed EXCEPT ![s] = @ \ {r}]
  /\ UNCHANGED <<open, accepted, outcome>>

Die ==
  /\ owed' = [s \in Sessions |-> {}]
  /\ UNCHANGED <<open, accepted, outcome>>

Next ==
  \/ \E s \in Sessions :
       \/ Open(s) \/ Remove(s)
       \/ \E r \in Runs : Accept(s, r) \/ Drop(s, r) \/ Settle(s, r)
  \/ Die

Spec == Init /\ [][Next]_pvars
=============================================================================
