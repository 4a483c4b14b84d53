---------------------------- MODULE LearningTools ----------------------------
(***************************************************************************)
(* The learning tools that write one session's JSON workspace under the    *)
(* protection of the SQLite effect ledger: record_learning_result and      *)
(* update_learner_profile of learning/tools.py, with _reserve_effect, the  *)
(* tool_effects table of db.py and the MemoryGate of learning/state.py.    *)
(*                                                                         *)
(* A tool body has no await, so two calls never interleave in the one      *)
(* server process; but every save is a durable step of its own (a SQLite   *)
(* commit or an os.replace) and the process can die, or a save can raise,  *)
(* between any two of them.  Each durable step is one action and           *)
(* Interrupt is enabled between all of them.                               *)
(*                                                                         *)
(* Data: mastery, attempts and the FSRS card are folds over the results    *)
(* recorded for a concept, so concepts.json and reviews.json are           *)
(* represented by how often each result (named by its effect key) was      *)
(* folded into them.                                                       *)
(*                                                                         *)
(* A definition marked "fault" is a plausible slip in the one that follows  *)
(* it; no action uses it, it serves to see that a property notices.        *)
(***************************************************************************)
EXTENDS Naturals, Sequences

CONSTANTS
  Concepts,       (* concept ids callers use                               *)
  SlugConcepts,   (* those matching ConceptState.id's pattern              *)
  Fields,         (* the optional fields of the learner profile            *)
  RecordArgs,     (* argument records of record_learning_result            *)
  ProfileArgs,    (* argument records of update_learner_profile            *)
  MaxMessages,    (* bound: user messages of the session                   *)
  EvidenceLimit,  (* 20 in the code                                        *)
  ErrorLimit,     (* 200 in the code                                       *)
  NoKey           (* "nothing", for a reply or a profile field             *)

Args == RecordArgs \cup ProfileArgs

(* The effect key is a SHA-256 over session, source message, tool name and *)
(* arguments: one session and no collisions leave this record.             *)
Keys == [source : 1..MaxMessages, args : Args]

ASSUME BoundsAssumption ==
  /\ MaxMessages \in Nat
  /\ EvidenceLimit \in Nat \ {0}
  /\ ErrorLimit \in Nat \ {0}

ASSUME ArgsAssumption ==
  /\ SlugConcepts \subseteq Concepts
  /\ RecordArgs \subseteq [tool : {"record"}, concept : Concepts, low : BOOLEAN,
                           category : {"none", "known", "unknown"}]
  /\ ProfileArgs \subseteq [tool : {"profile"}, fields : SUBSET Fields,
                            confident : BOOLEAN, valid : BOOLEAN]

ASSUME NoKeyAssumption == NoKey \notin Keys

VARIABLES
  latest,    (* latest_message_id of the session, 0 when it has no message *)
  effects,   (* tool_effects: absent, reserved, or the stored result       *)
  folded,    (* concepts.json: how often a result was folded into mastery  *)
  evidence,  (* concepts.json: evidence_message_ids of a concept           *)
  errors,    (* errors.json: the results that left an ErrorRecord          *)
  reviews,   (* reviews.json: how often a result was fed to the FSRS card  *)
  learner,   (* learner.json: the update each field's value came from      *)
  call,      (* the tool call being executed, volatile                     *)
  reply      (* what the last caller was told, volatile                    *)

files == <<folded, evidence, errors, reviews, learner>>
vars == <<latest, effects, files, call, reply>>

Results == {"recorded", "applied", "rejected"}
Stages == {"idle", "concepts", "errors", "reviews", "learner", "complete"}
Idle == [pc |-> "idle", key |-> NoKey]
NoReply == [key |-> NoKey, status |-> "none"]

TypeOK ==
  /\ latest \in 0..MaxMessages
  /\ effects \in [Keys -> {"absent", "reserved"} \cup Results]
  /\ folded \in [Keys -> Nat]
  /\ evidence \in [Concepts -> Seq(1..MaxMessages)]
  /\ errors \in Seq(Keys)
  /\ reviews \in [Keys -> Nat]
  /\ learner \in [Fields -> Keys \cup {NoKey}]
  /\ call \in [pc : Stages, key : Keys \cup {NoKey}]
  /\ reply \in [key : Keys \cup {NoKey}, status : {"none", "error"} \cup Results]

Init ==
  /\ latest = 0
  /\ effects = [k \in Keys |-> "absent"]
  /\ folded = [k \in Keys |-> 0]
  /\ evidence = [c \in Concepts |-> <<>>]
  /\ errors = <<>>
  /\ reviews = [k \in Keys |-> 0]
  /\ learner = [f \in Fields |-> NoKey]
  /\ call = Idle
  /\ reply = NoReply

-----------------------------------------------------------------------------
(* s[-n:] of the code: the last n elements, all of them when fewer.        *)
LastN(s, n) == IF Len(s) <= n THEN s ELSE SubSeq(s, Len(s) - n + 1, Len(s))

Elements(s) == {s[i] : i \in 1..Len(s)}

EffectKey(a) == [source |-> latest, args |-> a]

(* A result below 0.7 with a category leaves an ErrorRecord.               *)
LeavesError(a) == a.low /\ a.category # "none"

(* Fault: completed effects are not looked up.                             *)
IgnoresLedger(k) == FALSE

(* Fault: a reservation found is taken over.                               *)
RetriesBlindly(k) == FALSE

(* Completed results are answered from the ledger, a reservation somebody  *)
(* else left raises, and a new key is reserved in its own commit.          *)
Answered(k) == effects[k] \in Results
NeedsRecovery(k) == effects[k] = "reserved"

FirstStage(a) == IF a.tool = "record" THEN "concepts" ELSE "learner"

-----------------------------------------------------------------------------
(* A user message is persisted at the start of a turn; no tool call is in  *)
(* progress then.                                                          *)
UserMessage ==
  /\ call = Idle
  /\ latest < MaxMessages
  /\ latest' = latest + 1
  /\ UNCHANGED <<effects, files, call, reply>>

(* Without a user message a tool answers "rejected" and stores nothing.    *)
CallWithoutMessage(a) ==
  /\ call = Idle
  /\ latest = 0
  /\ reply' = [key |-> NoKey, status |-> "rejected"]
  /\ UNCHANGED <<latest, effects, files, call>>

ReturnPrevious(a) ==
  /\ call = Idle
  /\ latest > 0
  /\ Answered(EffectKey(a))
  /\ reply' = [key |-> EffectKey(a), status |-> effects[EffectKey(a)]]
  /\ UNCHANGED <<latest, effects, files, call>>

(* Fault: a reservation found is taken for a finished effect.              *)
AssumesDone(a) ==
  /\ call = Idle
  /\ latest > 0
  /\ NeedsRecovery(EffectKey(a))
  /\ effects' = [effects EXCEPT ![EffectKey(a)] = IF a.tool = "record" THEN "recorded" ELSE "applied"]
  /\ reply' = [key |-> EffectKey(a), status |-> effects'[EffectKey(a)]]
  /\ UNCHANGED <<latest, files, call>>

RaiseRecovery(a) ==
  /\ call = Idle
  /\ latest > 0
  /\ NeedsRecovery(EffectKey(a))
  /\ reply' = [key |-> EffectKey(a), status |-> "error"]
  /\ UNCHANGED <<latest, effects, files, call>>

ReserveEffect(a) ==
  /\ call = Idle
  /\ latest > 0
  /\ ~Answered(EffectKey(a))
  /\ ~NeedsRecovery(EffectKey(a))
  /\ effects' = [effects EXCEPT ![EffectKey(a)] = "reserved"]
  /\ call' = [pc |-> FirstStage(a), key |-> EffectKey(a)]
  /\ reply' = NoReply
  /\ UNCHANGED <<latest, files>>

(* Fault: the oldest messages are kept, not the newest.                    *)
OldestEvidence(s, m) ==
  IF m \in Elements(s) \/ Len(s) = EvidenceLimit THEN s ELSE Append(s, m)

(* save_concepts: one more attempt folded into the mastery, the message    *)
(* appended to the evidence unless it is there, the last twenty kept.      *)
WithEvidence(s, m) == LastN(IF m \in Elements(s) THEN s ELSE Append(s, m), EvidenceLimit)

SaveConcepts ==
  LET k == call.key
      c == k.args.concept
  IN
  /\ call.pc = "concepts"
  /\ c \in SlugConcepts
  /\ folded' = [folded EXCEPT ![k] = @ + 1]
  /\ evidence' = [evidence EXCEPT ![c] = WithEvidence(@, k.source)]
  /\ call' = [call EXCEPT !.pc = IF LeavesError(k.args) THEN "errors" ELSE "reviews"]
  /\ UNCHANGED <<latest, effects, errors, reviews, learner, reply>>

(* Fault: the review card is forgotten after an error.                     *)
ReturnsAfterError ==
  /\ call.pc = "errors"
  /\ call.key.args.category = "known"
  /\ errors' = LastN(Append(errors, call.key), ErrorLimit)
  /\ call' = [call EXCEPT !.pc = "complete"]
  /\ UNCHANGED <<latest, effects, folded, evidence, reviews, learner, reply>>

SaveErrors ==
  /\ call.pc = "errors"
  /\ call.key.args.category = "known"
  /\ errors' = LastN(Append(errors, call.key), ErrorLimit)
  /\ call' = [call EXCEPT !.pc = "reviews"]
  /\ UNCHANGED <<latest, effects, folded, evidence, reviews, learner, reply>>

SaveReviews ==
  /\ call.pc = "reviews"
  /\ reviews' = [reviews EXCEPT ![call.key] = @ + 1]
  /\ call' = [call EXCEPT !.pc = "complete"]
  /\ UNCHANGED <<latest, effects, folded, evidence, errors, learner, reply>>

(* Fault: the confidence threshold is dropped.                             *)
PassesAll(a) == TRUE

(* MemoryGate.apply for a profile candidate: below the confidence          *)
(* threshold nothing is written, else the given fields replace theirs and  *)
(* the other fields stay.                                                  *)
PassesGate(a) == a.confident

SaveLearner ==
  LET k == call.key IN
  /\ call.pc = "learner"
  /\ PassesGate(k.args) => k.args.valid
  /\ learner' = IF PassesGate(k.args)
                  THEN [f \in Fields |-> IF f \in k.args.fields THEN k ELSE learner[f]]
                  ELSE learner
  /\ call' = [call EXCEPT !.pc = "complete"]
  /\ UNCHANGED <<latest, effects, folded, evidence, errors, reviews, reply>>

(* Fault: the stored result is not the answer of the tool.                 *)
StatusOnly(a) == "completed"
ResultOf(a) ==
  IF a.tool = "record" THEN "recorded" ELSE IF PassesGate(a) THEN "applied" ELSE "rejected"

(* Fault: the ledger row stays reserved.                                   *)
ForgetsToComplete ==
  /\ call.pc = "complete"
  /\ reply' = [key |-> call.key, status |-> ResultOf(call.key.args)]
  /\ call' = Idle
  /\ UNCHANGED <<latest, effects, files>>

CompleteEffect ==
  LET k == call.key IN
  /\ call.pc = "complete"
  /\ effects' = [effects EXCEPT ![k] = ResultOf(k.args)]
  /\ reply' = [key |-> k, status |-> ResultOf(k.args)]
  /\ call' = Idle
  /\ UNCHANGED <<latest, files>>

(* Pydantic refuses a value after the reservation: a concept id that is no *)
(* slug, an unknown error category, a profile number out of range.  The    *)
(* exception leaves the reservation and what is already saved.             *)
RefusedValue ==
  \/ call.pc = "concepts" /\ call.key.args.concept \notin SlugConcepts
  \/ call.pc = "errors" /\ call.key.args.category = "unknown"
  \/ call.pc = "learner" /\ PassesGate(call.key.args) /\ ~call.key.args.valid

RaiseValidation ==
  /\ RefusedValue
  /\ call' = Idle
  /\ reply' = [key |-> call.key, status |-> "error"]
  /\ UNCHANGED <<latest, effects, files>>

(* The process dies (or a save raises OSError) before its next write; the  *)
(* caller gets no answer.                                                  *)
Interrupt ==
  /\ call # Idle
  /\ call' = Idle
  /\ reply' = NoReply
  /\ UNCHANGED <<latest, effects, files>>

Next ==
  \/ UserMessage
  \/ \E a \in Args :
       \/ CallWithoutMessage(a)
       \/ ReturnPrevious(a)
       \/ RaiseRecovery(a)
       \/ ReserveEffect(a)
  \/ SaveConcepts
  \/ SaveErrors
  \/ SaveReviews
  \/ SaveLearner
  \/ CompleteEffect
  \/ RaiseValidation
  \/ Interrupt

Spec == Init /\ [][Next]_vars

-----------------------------------------------------------------------------
(* Properties.                                                             *)

(* A result reaches concepts.json, errors.json and the FSRS card at most   *)
(* once, whatever crashes, refused values and repeated calls happen: the   *)
(* ledger is read and reserved before the first save, and a reservation    *)
(* left behind is never retried (_reserve_effect).                         *)
AppliedAtMostOnce ==
  /\ \A k \in Keys : folded[k] <= 1 /\ reviews[k] <= 1
  /\ \A i, j \in 1..Len(errors) : errors[i] = errors[j] => i = j

(* A result marked completed is in the mastery and in the review card, and *)
(* the review card never holds a result the mastery lacks; the two files   *)
(* differ only where a reservation says so.                                *)
LedgerExplainsFiles ==
  \A k \in Keys :
    /\ effects[k] = "recorded" => folded[k] = 1 /\ reviews[k] = 1
    /\ reviews[k] <= folded[k]
    /\ folded[k] # reviews[k] => effects[k] = "reserved"

(* The message behind an ErrorRecord is evidence of its concept, unless    *)
(* twenty later ones pushed it out: concepts.json is saved before          *)
(* errors.json and keeps the newest evidence.                              *)
ErrorsHaveEvidence ==
  \A i \in 1..Len(errors) :
    LET kept == evidence[errors[i].args.concept] IN
      \/ errors[i].source \in Elements(kept)
      \/ /\ Len(kept) = EvidenceLimit
         /\ \A m \in Elements(kept) : m > errors[i].source

(* A profile field holds only what a confident, valid candidate gave it:   *)
(* the MemoryGate is between every tool call and learner.json.             *)
ProfileIsGated ==
  \A f \in Fields :
    learner[f] # NoKey =>
      LET k == learner[f] IN
        /\ k.args.tool = "profile" /\ f \in k.args.fields
        /\ k.args.confident /\ k.args.valid
        /\ effects[k] \in {"reserved", "applied"}

(* What a caller was told is what the ledger will answer next time.        *)
ReplyIsDurable ==
  reply.key # NoKey /\ reply.status \in Results => effects[reply.key] = reply.status

(* A reservation whose call is gone is final: no later call completes it   *)
(* or writes on its behalf.  docs/recovery.md: later runs do not retry it  *)
(* blindly.                                                                *)
Abandoned(k) == effects[k] = "reserved" /\ call.key # k

AbandonedStaysAbandoned ==
  [][\A k \in Keys : Abandoned(k) =>
       /\ Abandoned(k)'
       /\ folded'[k] = folded[k] /\ reviews'[k] = reviews[k]]_vars

(* The ledger and the files implement the abstract promise.                *)
ClaimOf(k) == IF effects[k] = "absent" THEN "free"
              ELSE IF effects[k] = "reserved" THEN "claimed" ELSE "settled"

Promise == INSTANCE AtMostOnce WITH
  Files <- {"concepts", "reviews"},
  claim <- [k \in Keys |-> ClaimOf(k)],
  writes <- [k \in Keys |-> [f \in {"concepts", "reviews"} |->
                               IF f = "concepts" THEN folded[k] ELSE reviews[k]]]

ImplementsPromise == Promise!Spec

(* docs/api.md promises of the task result endpoint that submitting again  *)
(* does not write again: the same submission (concept, score, category) is *)
(* recorded at most once.  It fails: the key holds the latest chat         *)
(* message, so a message in between makes the submission a new effect.     *)
RepeatedSubmissionRecordedOnce ==
  \A k1, k2 \in Keys :
    k1.args = k2.args /\ effects[k1] = "recorded" /\ effects[k2] = "recorded" => k1 = k2

=============================================================================
