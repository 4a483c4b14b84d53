------------------------ MODULE LearningTools_proofs ------------------------
(***************************************************************************)
(* Proofs about LearningTools for every set of concepts, fields and        *)
(* arguments and every bound.  The inductive invariant says where each     *)
(* effect stands: an effect nobody reserved wrote nothing, the effect of   *)
(* the call in progress wrote exactly the files before its stage, and a    *)
(* recorded one wrote both.                                                *)
(***************************************************************************)
EXTENDS LearningTools, TLAPS

(* What the call in progress has already saved, by its stage.              *)
CallInv ==
  /\ call.pc = "idle" <=> call.key = NoKey
  /\ call # Idle => call.key \in Keys /\ effects[call.key] = "reserved"
  /\ call.pc \in {"concepts", "errors", "reviews"} => call.key.args \in RecordArgs
  /\ call.pc = "learner" => call.key.args \in ProfileArgs
  /\ call.pc = "concepts" => folded[call.key] = 0 /\ reviews[call.key] = 0
  /\ call.pc = "errors" => folded[call.key] = 1 /\ reviews[call.key] = 0
  /\ call.pc = "reviews" => folded[call.key] = 1 /\ reviews[call.key] = 0
  /\ call.pc = "complete" /\ call.key.args.tool = "record" =>
       folded[call.key] = 1 /\ reviews[call.key] = 1

(* What every effect has saved, by its ledger row.                         *)
EffectInv ==
  \A k \in Keys :
    /\ folded[k] \in {0, 1} /\ reviews[k] \in {0, 1} /\ reviews[k] <= folded[k]
    /\ effects[k] = "absent" => folded[k] = 0 /\ reviews[k] = 0
    /\ effects[k] = "recorded" => folded[k] = 1 /\ reviews[k] = 1
    /\ folded[k] # reviews[k] => effects[k] = "reserved"
    /\ k.args \notin RecordArgs => folded[k] = 0 /\ reviews[k] = 0

(* No result is in errors.json twice, none before it is reserved, and none *)
(* before the call in progress reaches that save.                          *)
ErrorInv ==
  /\ \A i, j \in 1..Len(errors) : errors[i] = errors[j] => i = j
  /\ \A i \in 1..Len(errors) : effects[errors[i]] # "absent"
  /\ call.pc \in {"concepts", "errors"} => \A i \in 1..Len(errors) : errors[i] # call.key

IInv == TypeOK /\ CallInv /\ EffectInv /\ ErrorInv

-----------------------------------------------------------------------------
(* The last n elements of a sequence are a sequence of its elements, at    *)
(* their old distances from the end.                                       *)
LEMMA LastNType ==
  ASSUME NEW S, NEW s \in Seq(S), NEW n \in Nat \ {0}
  PROVE  /\ LastN(s, n) \in Seq(S)
         /\ Len(LastN(s, n)) \in Nat /\ Len(LastN(s, n)) <= Len(s)
         /\ \A i \in 1..Len(LastN(s, n)) :
              LastN(s, n)[i] = s[i + (Len(s) - Len(LastN(s, n)))]
  <1>1. CASE Len(s) <= n
    BY <1>1 DEF LastN
  <1>2. CASE ~(Len(s) <= n)
    <2>1. LastN(s, n) = SubSeq(s, Len(s) - n + 1, Len(s))
      BY <1>2 DEF LastN
    <2>2. Len(s) - n + 1 \in 1..Len(s) /\ Len(s) \in Nat
      BY <1>2
    <2>3. Len(SubSeq(s, Len(s) - n + 1, Len(s))) = n
      BY <2>2
    <2>4. \A i \in 1..n : SubSeq(s, Len(s) - n + 1, Len(s))[i] = s[i + (Len(s) - n)]
      BY <2>2, <2>3
    <2>5. SubSeq(s, Len(s) - n + 1, Len(s)) \in Seq(S)
      BY <2>2
    <2>6. QED
      BY <2>1, <2>2, <2>3, <2>4, <2>5, <1>2
  <1>3. QED
    BY <1>1, <1>2

(* The tool an argument record names says which set it belongs to, and an  *)
(* effect key is made from a message that exists.                          *)
LEMMA ArgsFacts ==
  /\ \A a \in RecordArgs : a.tool = "record" /\ a.concept \in Concepts
  /\ \A a \in ProfileArgs : a.tool = "profile" /\ a.fields \subseteq Fields
  /\ \A k \in Keys : k.source \in 1..MaxMessages /\ k.args \in Args
  BY ArgsAssumption DEF Keys, Args

LEMMA EffectKeyType ==
  ASSUME TypeOK, latest > 0, NEW a \in Args
  PROVE  EffectKey(a) \in Keys
  BY BoundsAssumption DEF TypeOK, EffectKey, Keys

-----------------------------------------------------------------------------
LEMMA InitIInv == Init => IInv
  <1> SUFFICES ASSUME Init PROVE IInv
    OBVIOUS
  <1>1. TypeOK
    BY BoundsAssumption DEF Init, TypeOK, Idle, NoReply, Stages, Results
  <1>2. CallInv /\ EffectInv /\ ErrorInv
    BY NoKeyAssumption DEF Init, CallInv, EffectInv, ErrorInv, Idle
  <1>3. QED
    BY <1>1, <1>2 DEF IInv

(* Type correctness, one step per action.                                  *)
LEMMA TypeStep ==
  ASSUME TypeOK, CallInv, [Next]_vars
  PROVE  TypeOK'
  <1> USE DEF TypeOK, Idle, NoReply
  <1>1. CASE UserMessage
    BY <1>1, BoundsAssumption DEF UserMessage, files
  <1>2. ASSUME NEW a \in Args, CallWithoutMessage(a) PROVE TypeOK'
    BY <1>2 DEF CallWithoutMessage, files, Results
  <1>3. ASSUME NEW a \in Args, ReturnPrevious(a) PROVE TypeOK'
    <2>1. EffectKey(a) \in Keys
      BY <1>3, EffectKeyType DEF ReturnPrevious
    <2>2. reply' \in [key : Keys \cup {NoKey}, status : {"none", "error"} \cup Results]
      BY <1>3, <2>1 DEF ReturnPrevious, Answered
    <2>3. QED
      BY <1>3, <2>2 DEF ReturnPrevious, files
  <1>4. ASSUME NEW a \in Args, RaiseRecovery(a) PROVE TypeOK'
    <2>1. EffectKey(a) \in Keys
      BY <1>4, EffectKeyType DEF RaiseRecovery
    <2>2. QED
      BY <1>4, <2>1 DEF RaiseRecovery, files
  <1>5. ASSUME NEW a \in Args, ReserveEffect(a) PROVE TypeOK'
    <2>1. EffectKey(a) \in Keys
      BY <1>5, EffectKeyType DEF ReserveEffect
    <2>2. FirstStage(a) \in Stages
      BY DEF FirstStage, Stages
    <2>3. QED
      BY <1>5, <2>1, <2>2 DEF ReserveEffect, files
  <1>6. CASE SaveConcepts
    <2>1. call.key \in Keys /\ call.key.args \in RecordArgs
      BY <1>6 DEF SaveConcepts, CallInv
    <2>2. call.key.args.concept \in Concepts /\ call.key.source \in 1..MaxMessages
      BY <2>1, ArgsFacts
    <2>3. ASSUME NEW s \in Seq(1..MaxMessages)
          PROVE  WithEvidence(s, call.key.source) \in Seq(1..MaxMessages)
      <3>1. EvidenceLimit \in Nat \ {0}
        BY BoundsAssumption
      <3>2. Append(s, call.key.source) \in Seq(1..MaxMessages)
        BY <2>2
      <3>3. LastN(s, EvidenceLimit) \in Seq(1..MaxMessages)
        BY <3>1, LastNType
      <3>4. LastN(Append(s, call.key.source), EvidenceLimit) \in Seq(1..MaxMessages)
        BY <3>1, <3>2, LastNType
      <3>5. QED
        BY <3>3, <3>4 DEF WithEvidence
    <2>4. evidence' \in [Concepts -> Seq(1..MaxMessages)]
      BY <1>6, <2>2, <2>3 DEF SaveConcepts
    <2>5. folded' \in [Keys -> Nat]
      BY <1>6, <2>1 DEF SaveConcepts
    <2>6. call' \in [pc : Stages, key : Keys \cup {NoKey}]
      BY <1>6 DEF SaveConcepts, Stages
    <2>7. QED
      BY <1>6, <2>4, <2>5, <2>6 DEF SaveConcepts
  <1>7. CASE SaveErrors
    <2>1. call.key \in Keys
      BY <1>7 DEF SaveErrors, CallInv
    <2>2. errors' \in Seq(Keys)
      <3>1. ErrorLimit \in Nat \ {0} /\ Append(errors, call.key) \in Seq(Keys)
        BY <2>1, BoundsAssumption
      <3>2. LastN(Append(errors, call.key), ErrorLimit) \in Seq(Keys)
        BY <3>1, LastNType
      <3>3. QED
        BY <1>7, <3>2 DEF SaveErrors
    <2>3. call' \in [pc : Stages, key : Keys \cup {NoKey}]
      BY <1>7 DEF SaveErrors, Stages
    <2>4. QED
      BY <1>7, <2>2, <2>3 DEF SaveErrors
  <1>8. CASE SaveReviews
    <2>1. call.key \in Keys
      BY <1>8 DEF SaveReviews, CallInv
    <2>2. reviews' \in [Keys -> Nat]
      BY <1>8, <2>1 DEF SaveReviews
    <2>3. call' \in [pc : Stages, key : Keys \cup {NoKey}]
      BY <1>8 DEF SaveReviews, Stages
    <2>4. QED
      BY <1>8, <2>2, <2>3 DEF SaveReviews
  <1>9. CASE SaveLearner
    <2>1. call.key \in Keys
      BY <1>9 DEF SaveLearner, CallInv
    <2>2. learner' \in [Fields -> Keys \cup {NoKey}]
      BY <1>9, <2>1 DEF SaveLearner
    <2>3. call' \in [pc : Stages, key : Keys \cup {NoKey}]
      BY <1>9 DEF SaveLearner, Stages
    <2>4. QED
      BY <1>9, <2>2, <2>3 DEF SaveLearner
  <1>10. CASE CompleteEffect
    <2>1. call.key \in Keys
      BY <1>10 DEF CompleteEffect, CallInv
    <2>2. ResultOf(call.key.args) \in Results
      BY DEF ResultOf, Results
    <2>3. QED
      BY <1>10, <2>1, <2>2 DEF CompleteEffect, files, Stages
  <1>11. CASE RaiseValidation
    BY <1>11 DEF RaiseValidation, files, Stages
  <1>12. CASE Interrupt
    BY <1>12 DEF Interrupt, files, Stages
  <1>13. CASE UNCHANGED vars
    BY <1>13 DEF vars, files
  <1>14. QED
    BY <1>1, <1>2, <1>3, <1>4, <1>5, <1>6, <1>7, <1>8, <1>9, <1>10, <1>11, <1>12, <1>13
       DEF Next

(* The stage of the call in progress, one step per action.                 *)
LEMMA CallStep ==
  ASSUME TypeOK, TypeOK', CallInv, EffectInv, [Next]_vars
  PROVE  CallInv'
  <1> USE NoKeyAssumption DEF CallInv, TypeOK, Idle
  <1>1. CASE UserMessage
    BY <1>1 DEF UserMessage, files
  <1>2. ASSUME NEW a \in Args, CallWithoutMessage(a) PROVE CallInv'
    BY <1>2 DEF CallWithoutMessage, files
  <1>3. ASSUME NEW a \in Args, ReturnPrevious(a) PROVE CallInv'
    BY <1>3 DEF ReturnPrevious, files
  <1>4. ASSUME NEW a \in Args, RaiseRecovery(a) PROVE CallInv'
    BY <1>4 DEF RaiseRecovery, files
  <1>5. ASSUME NEW a \in Args, ReserveEffect(a) PROVE CallInv'
    <2>1. EffectKey(a) \in Keys /\ EffectKey(a).args = a
      BY <1>5, EffectKeyType DEF ReserveEffect, EffectKey
    <2>2. effects[EffectKey(a)] = "absent"
      BY <1>5, <2>1 DEF ReserveEffect, Answered, NeedsRecovery
    <2>3. folded[EffectKey(a)] = 0 /\ reviews[EffectKey(a)] = 0
      BY <2>1, <2>2 DEF EffectInv
    <2>4. /\ call' = [pc |-> FirstStage(a), key |-> EffectKey(a)]
          /\ effects'[EffectKey(a)] = "reserved"
          /\ folded' = folded /\ reviews' = reviews
      BY <1>5, <2>1 DEF ReserveEffect, files
    <2>5. /\ FirstStage(a) = "concepts" => a \in RecordArgs
          /\ FirstStage(a) = "learner" => a \in ProfileArgs
          /\ FirstStage(a) \in {"concepts", "learner"}
      BY ArgsFacts DEF FirstStage, Args
    <2>6. QED
      BY <2>1, <2>3, <2>4, <2>5
  <1>6. CASE SaveConcepts
    BY <1>6 DEF SaveConcepts
  <1>7. CASE SaveErrors
    BY <1>7 DEF SaveErrors
  <1>8. CASE SaveReviews
    BY <1>8 DEF SaveReviews
  <1>9. CASE SaveLearner
    BY <1>9, ArgsFacts DEF SaveLearner
  <1>10. CASE CompleteEffect
    BY <1>10 DEF CompleteEffect, files
  <1>11. CASE RaiseValidation
    BY <1>11 DEF RaiseValidation, files
  <1>12. CASE Interrupt
    BY <1>12 DEF Interrupt, files
  <1>13. CASE UNCHANGED vars
    BY <1>13 DEF vars, files
  <1>14. QED
    BY <1>1, <1>2, <1>3, <1>4, <1>5, <1>6, <1>7, <1>8, <1>9, <1>10, <1>11, <1>12, <1>13
       DEF Next

(* The ledger row of every effect: only the three saves of a recorded      *)
(* result and the two ledger writes can disturb it.                        *)
LEMMA EffectStep ==
  ASSUME TypeOK, TypeOK', CallInv, EffectInv, [Next]_vars
  PROVE  EffectInv'
  <1> USE DEF EffectInv, TypeOK, Idle
  <1>1. CASE UNCHANGED <<effects, folded, reviews>>
    BY <1>1
  <1>2. ASSUME NEW a \in Args, ReserveEffect(a) PROVE EffectInv'
    <2>1. EffectKey(a) \in Keys
      BY <1>2, EffectKeyType DEF ReserveEffect
    <2>2. effects[EffectKey(a)] = "absent"
      BY <1>2, <2>1 DEF ReserveEffect, Answered, NeedsRecovery
    <2>3. QED
      BY <1>2, <2>1, <2>2 DEF ReserveEffect, files
  <1>3. CASE SaveConcepts
    BY <1>3 DEF SaveConcepts, CallInv
  <1>4. CASE SaveReviews
    BY <1>4 DEF SaveReviews, CallInv
  <1>5. CASE CompleteEffect
    <2>1. /\ call.key \in Keys /\ effects[call.key] = "reserved"
          /\ call.key.args \in Args
          /\ effects' = [effects EXCEPT ![call.key] = ResultOf(call.key.args)]
          /\ folded' = folded /\ reviews' = reviews
      BY <1>5, ArgsFacts DEF CompleteEffect, CallInv, files
    <2>2. CASE call.key.args.tool = "record"
      <3>1. folded[call.key] = 1 /\ reviews[call.key] = 1
        BY <1>5, <2>2 DEF CallInv, CompleteEffect
      <3>2. QED
        BY <2>1, <3>1, <2>2 DEF ResultOf
    <2>3. CASE call.key.args.tool # "record"
      <3>1. folded[call.key] = reviews[call.key]
        BY <2>1, <2>3, ArgsFacts
      <3>2. QED
        BY <2>1, <3>1, <2>3 DEF ResultOf
    <2>4. QED
      BY <2>2, <2>3
  <1>6. QED
    BY <1>1, <1>2, <1>3, <1>4, <1>5
       DEF Next, vars, files, UserMessage, CallWithoutMessage, ReturnPrevious, RaiseRecovery,
           SaveErrors, SaveLearner, RaiseValidation, Interrupt

(* errors.json: only SaveErrors appends to it, and the reserved key it     *)
(* appends is not there yet.                                               *)
LEMMA ErrorStep ==
  ASSUME TypeOK, TypeOK', CallInv, ErrorInv, [Next]_vars
  PROVE  ErrorInv'
  <1>0. /\ effects \in [Keys -> {"absent", "reserved"} \cup Results]
        /\ errors \in Seq(Keys) /\ Len(errors) \in Nat
        /\ \A i \in 1..Len(errors) : errors[i] \in Keys
    <2>1. effects \in [Keys -> {"absent", "reserved"} \cup Results]
      BY DEF TypeOK
    <2>2. errors \in Seq(Keys)
      BY DEF TypeOK
    <2>3. Len(errors) \in Nat
      BY ONLY <2>2
    <2>4. \A i \in 1..Len(errors) : errors[i] \in Keys
      BY ONLY <2>2
    <2>5. QED
      BY <2>1, <2>2, <2>3, <2>4
  <1>1. CASE UNCHANGED <<effects, errors, call>>
    BY <1>1 DEF ErrorInv
  <1>2. CASE UNCHANGED <<effects, errors>> /\ call'.pc \notin {"concepts", "errors"}
    BY <1>2 DEF ErrorInv
  <1>3. ASSUME NEW a \in Args, ReserveEffect(a) PROVE ErrorInv'
    <2>1. EffectKey(a) \in Keys
      BY <1>3, EffectKeyType DEF ReserveEffect
    <2>2. effects[EffectKey(a)] = "absent"
      BY <1>0, <1>3, <2>1 DEF ReserveEffect, Answered, NeedsRecovery
    <2>3. /\ errors' = errors /\ call'.key = EffectKey(a)
          /\ effects' = [effects EXCEPT ![EffectKey(a)] = "reserved"]
      BY <1>3 DEF ReserveEffect, files
    <2>4. \A i \in 1..Len(errors) : errors[i] # EffectKey(a)
      BY <2>2 DEF ErrorInv
    <2>5. \A k \in Keys : effects[k] # "absent" => effects'[k] # "absent"
      BY <1>0, <2>1, <2>3
    <2>6. QED
      BY <1>0, <2>3, <2>4, <2>5 DEF ErrorInv
  <1>4. CASE SaveConcepts
    <2>1. /\ effects' = effects /\ errors' = errors /\ call.pc = "concepts"
          /\ call'.key = call.key
      BY <1>4 DEF SaveConcepts, TypeOK
    <2>2. QED
      BY <2>1 DEF ErrorInv
  <1>5. CASE SaveErrors
    <2> DEFINE longer == Append(errors, call.key)
    <2>1. /\ call.key \in Keys /\ effects[call.key] = "reserved"
          /\ effects' = effects /\ errors' = LastN(longer, ErrorLimit)
          /\ call'.pc = "reviews" /\ call.pc = "errors"
      BY <1>5 DEF SaveErrors, CallInv, Idle, TypeOK
    <2>2. /\ longer \in Seq(Keys) /\ Len(longer) = Len(errors) + 1
          /\ \A i \in 1..Len(errors) : longer[i] = errors[i]
          /\ longer[Len(errors) + 1] = call.key
      BY <1>0, <2>1
    <2> HIDE DEF longer
    <2>3. \A i \in 1..Len(longer) :
            \/ i \in 1..Len(errors) /\ longer[i] = errors[i] /\ longer[i] # call.key
            \/ i = Len(errors) + 1 /\ longer[i] = call.key
      BY <1>0, <2>1, <2>2 DEF ErrorInv
    <2>4. \A i, j \in 1..Len(longer) : longer[i] = longer[j] => i = j
      BY <2>3 DEF ErrorInv
    <2>5. \A i \in 1..Len(longer) : effects[longer[i]] # "absent"
      BY <2>1, <2>3 DEF ErrorInv
    <2> DEFINE cut == Len(longer) - Len(errors')
    <2>6. /\ Len(errors') \in Nat /\ cut \in Nat
          /\ \A i \in 1..Len(errors') : i + cut \in 1..Len(longer) /\ errors'[i] = longer[i + cut]
      <3>1. ErrorLimit \in Nat \ {0}
        BY BoundsAssumption
      <3>2. /\ Len(LastN(longer, ErrorLimit)) \in Nat
            /\ Len(LastN(longer, ErrorLimit)) <= Len(longer)
            /\ \A i \in 1..Len(LastN(longer, ErrorLimit)) :
                 LastN(longer, ErrorLimit)[i]
                   = longer[i + (Len(longer) - Len(LastN(longer, ErrorLimit)))]
        BY <2>2, <3>1, LastNType
      <3>3. QED
        BY <1>0, <2>1, <2>2, <3>2
    <2> HIDE DEF cut
    <2>7. ASSUME NEW i \in 1..Len(errors'), NEW j \in 1..Len(errors'), errors'[i] = errors'[j]
          PROVE  i = j
      <3>1. i + cut = j + cut
        BY <2>4, <2>6, <2>7
      <3>2. QED
        BY <2>6, <3>1
    <2>8. \A i \in 1..Len(errors') : effects'[errors'[i]] # "absent"
      BY <2>1, <2>5, <2>6
    <2>9. QED
      BY <2>1, <2>7, <2>8 DEF ErrorInv
  <1>6. CASE CompleteEffect
    <2>1. /\ call.key \in Keys /\ errors' = errors /\ call' = Idle
          /\ effects' = [effects EXCEPT ![call.key] = ResultOf(call.key.args)]
      BY <1>6 DEF CompleteEffect, CallInv, files, Idle
    <2>2. ResultOf(call.key.args) # "absent"
      BY DEF ResultOf
    <2>3. \A k \in Keys : effects[k] # "absent" => effects'[k] # "absent"
      BY <1>0, <2>1, <2>2
    <2>4. QED
      BY <1>0, <2>1, <2>3 DEF ErrorInv, Idle
  <1>7. QED
    BY <1>1, <1>2, <1>3, <1>4, <1>5, <1>6
       DEF Next, vars, files, UserMessage, CallWithoutMessage, ReturnPrevious, RaiseRecovery,
           SaveReviews, SaveLearner, RaiseValidation, Interrupt, Idle, TypeOK

LEMMA StepIInv == IInv /\ [Next]_vars => IInv'
  BY TypeStep, CallStep, EffectStep, ErrorStep DEF IInv

LEMMA Inductive == Spec => []IInv
  BY InitIInv, StepIInv, PTL DEF Spec

-----------------------------------------------------------------------------
(* Every variable keeps its type.                                          *)
THEOREM TypeCorrect == Spec => []TypeOK
  <1>1. IInv => TypeOK
    BY DEF IInv
  <1>2. QED
    BY <1>1, Inductive, PTL

(* No result is counted twice: not in the mastery, not in the FSRS card,   *)
(* not in the error history, for any arguments, crashes and repetitions.   *)
THEOREM EffectsAppliedAtMostOnce == Spec => []AppliedAtMostOnce
  <1>1. IInv => AppliedAtMostOnce
    BY DEF IInv, EffectInv, ErrorInv, AppliedAtMostOnce
  <1>2. QED
    BY <1>1, Inductive, PTL

(* What the ledger says about an effect is true of the two files.          *)
THEOREM LedgerIsTruthful == Spec => []LedgerExplainsFiles
  <1>1. IInv => LedgerExplainsFiles
    BY DEF IInv, EffectInv, LedgerExplainsFiles
  <1>2. QED
    BY <1>1, Inductive, PTL

-----------------------------------------------------------------------------
(* An interrupted effect is left alone for ever: every write goes to the   *)
(* key of the call in progress, and a call only starts on an absent row.   *)
THEOREM AbandonedIsFinal == Spec => AbandonedStaysAbandoned
  <1> DEFINE Kept == \A k \in Keys : Abandoned(k) =>
                       /\ Abandoned(k)'
                       /\ folded'[k] = folded[k] /\ reviews'[k] = reviews[k]
  <1>1. IInv /\ [Next]_vars => [Kept]_vars
    <2> SUFFICES ASSUME IInv, Next, NEW k \in Keys, Abandoned(k)
                 PROVE  /\ effects'[k] = effects[k] /\ call'.key # k
                        /\ folded'[k] = folded[k] /\ reviews'[k] = reviews[k]
      BY DEF Abandoned
    <2>0. /\ TypeOK /\ CallInv /\ effects[k] = "reserved" /\ call.key # k
          /\ NoKey \notin Keys
      BY NoKeyAssumption DEF IInv, Abandoned
    <2>1. CASE /\ UNCHANGED <<effects, folded, reviews>>
               /\ call'.key = call.key \/ call' = Idle
      BY <2>0, <2>1 DEF Idle
    <2>3. ASSUME NEW a \in Args, ReserveEffect(a)
          PROVE  /\ effects'[k] = effects[k] /\ call'.key # k
                 /\ folded'[k] = folded[k] /\ reviews'[k] = reviews[k]
      <3>1. EffectKey(a) # k
        BY <2>0, <2>3 DEF ReserveEffect, NeedsRecovery
      <3>2. /\ effects' = [effects EXCEPT ![EffectKey(a)] = "reserved"]
            /\ call'.key = EffectKey(a) /\ folded' = folded /\ reviews' = reviews
        BY <2>3 DEF ReserveEffect, files
      <3>3. QED
        BY <2>0, <3>1, <3>2 DEF TypeOK
    <2>4. CASE SaveConcepts
      BY <2>0, <2>4 DEF SaveConcepts, TypeOK
    <2>5. CASE SaveReviews
      BY <2>0, <2>5 DEF SaveReviews, TypeOK
    <2>6. CASE CompleteEffect
      BY <2>0, <2>6 DEF CompleteEffect, files, TypeOK, Idle
    <2>7. QED
      BY <2>0, <2>1, <2>3, <2>4, <2>5, <2>6
         DEF Next, files, UserMessage, CallWithoutMessage, ReturnPrevious, RaiseRecovery,
             SaveErrors, SaveLearner, RaiseValidation, Interrupt, TypeOK
  <1>2. QED
    BY <1>1, Inductive, PTL DEF Spec, AbandonedStaysAbandoned

-----------------------------------------------------------------------------
(* The tools implement the abstract promise: each step is a claim, a first *)
(* write of a file by the claim's holder, a settlement, or a stutter.      *)
ClaimBar == [k \in Keys |-> ClaimOf(k)]
WritesBar == [k \in Keys |-> [f \in {"concepts", "reviews"} |->
                                IF f = "concepts" THEN folded[k] ELSE reviews[k]]]

LEMMA PromiseStutter ==
  ASSUME UNCHANGED <<effects, folded, reviews>>
  PROVE  UNCHANGED <<ClaimBar, WritesBar>>
  BY DEF ClaimBar, WritesBar, ClaimOf

(* How the two mapped variables change when one effect changes its claim,  *)
(* or writes one file.                                                     *)
LEMMA ClaimChange ==
  ASSUME TypeOK, NEW k \in Keys, NEW e,
         effects' = [effects EXCEPT ![k] = e], UNCHANGED <<folded, reviews>>
  PROVE  /\ ClaimBar' = [ClaimBar EXCEPT ![k] = IF e = "absent" THEN "free"
                           ELSE IF e = "reserved" THEN "claimed" ELSE "settled"]
         /\ WritesBar' = WritesBar
  BY DEF TypeOK, ClaimBar, WritesBar, ClaimOf

LEMMA WriteChange ==
  ASSUME TypeOK, NEW k \in Keys, effects' = effects,
         \/ folded[k] = 0 /\ folded' = [folded EXCEPT ![k] = @ + 1] /\ reviews' = reviews
         \/ reviews[k] = 0 /\ reviews' = [reviews EXCEPT ![k] = @ + 1] /\ folded' = folded
  PROVE  /\ ClaimBar' = ClaimBar
         /\ \E f \in {"concepts", "reviews"} :
              /\ WritesBar[k][f] = 0
              /\ WritesBar' = [WritesBar EXCEPT ![k] = [@ EXCEPT ![f] = 1]]
  <1>1. ClaimBar' = ClaimBar
    BY DEF ClaimBar, ClaimOf
  <1>2. CASE folded[k] = 0 /\ folded' = [folded EXCEPT ![k] = @ + 1] /\ reviews' = reviews
    <2>1. WritesBar[k]["concepts"] = 0
      BY <1>2 DEF WritesBar
    <2>2. WritesBar' = [WritesBar EXCEPT ![k] = [@ EXCEPT !["concepts"] = 1]]
      <3>1. WritesBar'[k] = [WritesBar[k] EXCEPT !["concepts"] = 1]
        <4>1. WritesBar[k] = [f \in {"concepts", "reviews"} |->
                                IF f = "concepts" THEN folded[k] ELSE reviews[k]]
          BY DEF WritesBar
        <4>2. WritesBar'[k] = [f \in {"concepts", "reviews"} |->
                                 IF f = "concepts" THEN folded'[k] ELSE reviews'[k]]
          BY DEF WritesBar
        <4>3. folded'[k] = 1 /\ reviews'[k] = reviews[k]
          BY <1>2 DEF TypeOK
        <4> HIDE DEF WritesBar
        <4>4. QED
          BY <4>1, <4>2, <4>3
      <3>2. \A j \in Keys : j # k => WritesBar'[j] = WritesBar[j]
        BY <1>2 DEF WritesBar, TypeOK
      <3>3. WritesBar' = [j \in Keys |-> WritesBar'[j]]
        BY DEF WritesBar
      <3>4. WritesBar = [j \in Keys |-> WritesBar[j]]
        BY DEF WritesBar
      <3> HIDE DEF WritesBar
      <3>5. QED
        BY <3>1, <3>2, <3>3, <3>4
    <2>3. QED
      BY <1>1, <2>1, <2>2
  <1>3. CASE reviews[k] = 0 /\ reviews' = [reviews EXCEPT ![k] = @ + 1] /\ folded' = folded
    <2>1. WritesBar[k]["reviews"] = 0
      BY <1>3 DEF WritesBar
    <2>2. WritesBar' = [WritesBar EXCEPT ![k] = [@ EXCEPT !["reviews"] = 1]]
      <3>1. WritesBar'[k] = [WritesBar[k] EXCEPT !["reviews"] = 1]
        <4>1. WritesBar[k] = [f \in {"concepts", "reviews"} |->
                                IF f = "concepts" THEN folded[k] ELSE reviews[k]]
          BY DEF WritesBar
        <4>2. WritesBar'[k] = [f \in {"concepts", "reviews"} |->
                                 IF f = "concepts" THEN folded'[k] ELSE reviews'[k]]
          BY DEF WritesBar
        <4>3. folded'[k] = folded[k] /\ reviews'[k] = 1
          BY <1>3 DEF TypeOK
        <4> HIDE DEF WritesBar
        <4>4. QED
          BY <4>1, <4>2, <4>3
      <3>2. \A j \in Keys : j # k => WritesBar'[j] = WritesBar[j]
        BY <1>3 DEF WritesBar, TypeOK
      <3>3. WritesBar' = [j \in Keys |-> WritesBar'[j]]
        BY DEF WritesBar
      <3>4. WritesBar = [j \in Keys |-> WritesBar[j]]
        BY DEF WritesBar
      <3> HIDE DEF WritesBar
      <3>5. QED
        BY <3>1, <3>2, <3>3, <3>4
    <2>3. QED
      BY <1>1, <2>1, <2>2
  <1>4. QED
    BY <1>2, <1>3

THEOREM LedgerImplementsPromise == Spec => ImplementsPromise
  <1>1. Init => Promise!Init
    BY DEF Init, Promise!Init, ClaimOf
  <1>2. IInv /\ [Next]_vars => [Promise!Next]_(Promise!avars)
    <2> SUFFICES ASSUME IInv, [Next]_vars
                 PROVE  Promise!Next \/ UNCHANGED <<ClaimBar, WritesBar>>
      BY DEF Promise!avars, ClaimBar, WritesBar
    <2>0. TypeOK /\ CallInv
      BY DEF IInv
    <2>1. CASE UNCHANGED <<effects, folded, reviews>>
      BY <2>1, PromiseStutter
    <2>2. ASSUME NEW a \in Args, ReserveEffect(a) PROVE Promise!Next
      <3>1. /\ EffectKey(a) \in Keys
            /\ effects' = [effects EXCEPT ![EffectKey(a)] = "reserved"]
            /\ folded' = folded /\ reviews' = reviews
        BY <2>0, <2>2, EffectKeyType DEF ReserveEffect, files
      <3>2. effects[EffectKey(a)] = "absent"
        BY <2>0, <2>2, <3>1 DEF ReserveEffect, Answered, NeedsRecovery, TypeOK
      <3>3. ClaimBar[EffectKey(a)] = "free"
        BY <3>1, <3>2 DEF ClaimBar, ClaimOf
      <3>4. /\ ClaimBar' = [ClaimBar EXCEPT ![EffectKey(a)] = "claimed"]
            /\ WritesBar' = WritesBar
        BY <2>0, <3>1, ClaimChange
      <3>5. Promise!Claim(EffectKey(a))
        BY <3>3, <3>4 DEF Promise!Claim, ClaimBar, WritesBar
      <3>6. QED
        BY <3>1, <3>5 DEF Promise!Next
    <2>3. CASE SaveConcepts \/ SaveReviews
      <3>1. /\ call.key \in Keys /\ effects[call.key] = "reserved" /\ effects' = effects
            /\ \/ folded[call.key] = 0 /\ reviews' = reviews
                  /\ folded' = [folded EXCEPT ![call.key] = @ + 1]
               \/ reviews[call.key] = 0 /\ folded' = folded
                  /\ reviews' = [reviews EXCEPT ![call.key] = @ + 1]
        BY <2>0, <2>3 DEF SaveConcepts, SaveReviews, CallInv, Idle, TypeOK
      <3>2. ClaimBar[call.key] = "claimed"
        BY <3>1 DEF ClaimBar, ClaimOf
      <3>3. PICK f \in {"concepts", "reviews"} :
              /\ WritesBar[call.key][f] = 0 /\ ClaimBar' = ClaimBar
              /\ WritesBar' = [WritesBar EXCEPT ![call.key] = [@ EXCEPT ![f] = 1]]
        BY <2>0, <3>1, WriteChange
      <3>4. PICK k \in Keys : k = call.key
        BY <3>1
      <3>5. Promise!Write(k, f)
        BY <3>2, <3>3, <3>4 DEF Promise!Write, ClaimBar, WritesBar
      <3>6. Promise!Next
        BY <3>5 DEF Promise!Next
      <3>7. QED
        BY <3>6
    <2>4. CASE CompleteEffect
      <3>1. /\ call.key \in Keys /\ effects[call.key] = "reserved"
            /\ effects' = [effects EXCEPT ![call.key] = ResultOf(call.key.args)]
            /\ folded' = folded /\ reviews' = reviews
        BY <2>0, <2>4 DEF CompleteEffect, CallInv, files, Idle
      <3>2. ClaimBar[call.key] = "claimed"
        BY <3>1 DEF ClaimBar, ClaimOf
      <3>3. /\ ClaimBar' = [ClaimBar EXCEPT ![call.key] = "settled"]
            /\ WritesBar' = WritesBar
        <4>1. ResultOf(call.key.args) \notin {"absent", "reserved"}
          BY DEF ResultOf
        <4>2. QED
          BY <2>0, <3>1, <4>1, ClaimChange
      <3>4. Promise!Settle(call.key)
        BY <3>2, <3>3 DEF Promise!Settle, ClaimBar, WritesBar
      <3>5. QED
        BY <3>1, <3>4 DEF Promise!Next
    <2>5. QED
      BY <2>1, <2>2, <2>3, <2>4
         DEF Next, vars, files, UserMessage, CallWithoutMessage, ReturnPrevious, RaiseRecovery,
             SaveErrors, SaveLearner, RaiseValidation, Interrupt
  <1>3. QED
    BY <1>1, <1>2, Inductive, PTL DEF Spec, ImplementsPromise, Promise!Spec

-----------------------------------------------------------------------------
(* A row that is reserved or applied never goes back.                      *)
LEMMA LearnerStep ==
  ASSUME TypeOK, CallInv, ProfileIsGated, [Next]_vars
  PROVE  ProfileIsGated'
  <1>0. /\ learner \in [Fields -> Keys \cup {NoKey}] /\ NoKey \notin Keys
        /\ effects \in [Keys -> {"absent", "reserved"} \cup Results]
    BY NoKeyAssumption DEF TypeOK
  <1>1. CASE UNCHANGED <<effects, learner>>
    BY <1>1 DEF ProfileIsGated
  <1>2. ASSUME NEW a \in Args, ReserveEffect(a) PROVE ProfileIsGated'
    <2>1. EffectKey(a) \in Keys
      BY <1>2, EffectKeyType DEF ReserveEffect
    <2>2. /\ learner' = learner
          /\ effects' = [effects EXCEPT ![EffectKey(a)] = "reserved"]
      BY <1>2 DEF ReserveEffect, files
    <2>3. \A k \in Keys : effects[k] \in {"reserved", "applied"}
                            => effects'[k] \in {"reserved", "applied"}
      BY <1>0, <2>1, <2>2
    <2>4. QED
      BY <1>0, <2>2, <2>3 DEF ProfileIsGated
  <1>3. CASE SaveLearner
    <2>1. /\ call.key \in Keys /\ call.key.args \in ProfileArgs
          /\ effects[call.key] = "reserved" /\ effects' = effects
      BY <1>3 DEF SaveLearner, CallInv, Idle, TypeOK
    <2>2. CASE call.key.args.confident
      <3>1. learner' = [f \in Fields |-> IF f \in call.key.args.fields THEN call.key
                                          ELSE learner[f]]
        BY <1>3, <2>2 DEF SaveLearner, PassesGate
      <3>2. call.key.args.valid /\ call.key.args.tool = "profile"
        BY <1>3, <2>1, <2>2, ArgsFacts DEF SaveLearner, PassesGate
      <3>3. ASSUME NEW f \in Fields, learner'[f] # NoKey
            PROVE  /\ learner'[f].args.tool = "profile" /\ f \in learner'[f].args.fields
                   /\ learner'[f].args.confident /\ learner'[f].args.valid
                   /\ effects'[learner'[f]] \in {"reserved", "applied"}
        <4>1. CASE f \in call.key.args.fields
          BY <2>1, <2>2, <3>1, <3>2, <4>1
        <4>2. CASE f \notin call.key.args.fields
          BY <2>1, <3>1, <3>3, <4>2 DEF ProfileIsGated
        <4>3. QED
          BY <4>1, <4>2
      <3>4. QED
        BY <3>3 DEF ProfileIsGated
    <2>3. CASE ~call.key.args.confident
      BY <1>3, <2>1, <2>3 DEF SaveLearner, PassesGate, ProfileIsGated
    <2>4. QED
      BY <2>2, <2>3
  <1>4. CASE CompleteEffect
    <2>1. /\ call.key \in Keys /\ learner' = learner
          /\ effects' = [effects EXCEPT ![call.key] = ResultOf(call.key.args)]
      BY <1>4 DEF CompleteEffect, CallInv, files, Idle
    <2>2. ASSUME NEW f \in Fields, learner[f] # NoKey
          PROVE  effects'[learner[f]] \in {"reserved", "applied"}
      <3>1. CASE learner[f] = call.key
        <4>1. call.key.args.tool = "profile" /\ call.key.args.confident
          BY <2>2, <3>1 DEF ProfileIsGated
        <4>2. ResultOf(call.key.args) = "applied"
          BY <4>1 DEF ResultOf, PassesGate
        <4>3. QED
          BY <1>0, <2>1, <3>1, <4>2
      <3>2. CASE learner[f] # call.key
        BY <1>0, <2>1, <2>2, <3>2 DEF ProfileIsGated
      <3>3. QED
        BY <3>1, <3>2
    <2>3. QED
      BY <2>1, <2>2 DEF ProfileIsGated
  <1>5. QED
    BY <1>1, <1>2, <1>3, <1>4
       DEF Next, vars, files, UserMessage, CallWithoutMessage, ReturnPrevious, RaiseRecovery,
           SaveConcepts, SaveErrors, SaveReviews, RaiseValidation, Interrupt

(* Every field of the learner profile came from a candidate the MemoryGate *)
(* let through, of a tool call the ledger has a row for.                   *)
THEOREM ProfileStaysGated == Spec => []ProfileIsGated
  <1>1. Init => ProfileIsGated
    BY DEF Init, ProfileIsGated
  <1>2. IInv /\ ProfileIsGated /\ [Next]_vars => ProfileIsGated'
    BY LearnerStep DEF IInv
  <1>3. QED
    BY <1>1, <1>2, Inductive, PTL DEF Spec

(* The answer a caller holds is the answer the ledger holds.               *)
THEOREM RepliesAreDurable == Spec => []ReplyIsDurable
  <1>1. Init => ReplyIsDurable
    BY DEF Init, ReplyIsDurable, NoReply
  <1>2. IInv /\ ReplyIsDurable /\ [Next]_vars => ReplyIsDurable'
    <2> SUFFICES ASSUME IInv, ReplyIsDurable, [Next]_vars PROVE ReplyIsDurable'
      OBVIOUS
    <2>0. TypeOK /\ CallInv
      BY DEF IInv
    <2>1. CASE UNCHANGED <<effects, reply>>
      BY <2>1 DEF ReplyIsDurable
    <2>2. CASE reply' = NoReply
      BY <2>2 DEF ReplyIsDurable, NoReply
    <2>3. CASE CompleteEffect
      <3>1. /\ call.key \in Keys /\ reply'.key = call.key
            /\ reply'.status = ResultOf(call.key.args)
            /\ effects' = [effects EXCEPT ![call.key] = ResultOf(call.key.args)]
        BY <2>0, <2>3 DEF CompleteEffect, CallInv, Idle
      <3>2. effects'[call.key] = ResultOf(call.key.args)
        BY <2>0, <3>1 DEF TypeOK
      <3>3. QED
        BY <3>1, <3>2 DEF ReplyIsDurable
    <2>4. QED
      BY <2>1, <2>2, <2>3
         DEF Next, vars, files, UserMessage, CallWithoutMessage, ReturnPrevious, RaiseRecovery,
             ReserveEffect, SaveConcepts, SaveErrors, SaveReviews, SaveLearner,
             RaiseValidation, Interrupt, ReplyIsDurable, Results
  <1>3. QED
    BY <1>1, <1>2, Inductive, PTL DEF Spec

-----------------------------------------------------------------------------
(* Message x is evidence in s, or newer evidence filled s up.              *)
Explains(s, x) ==
  \/ x \in Elements(s)
  \/ Len(s) = EvidenceLimit /\ \A m \in Elements(s) : m > x

(* The evidence of a concept is in the order of its messages and within    *)
(* its limit, so what falls out is always the oldest.                      *)
Ordered(s) ==
  /\ Len(s) <= EvidenceLimit
  /\ \A i, j \in 1..Len(s) : i < j => s[i] < s[j]

(* The call in progress works for the latest message, which no evidence is *)
(* newer than; it is evidence before the error is saved.                   *)
EvidenceInv ==
  /\ call # Idle => call.key.source = latest
  /\ \A c \in Concepts :
       Ordered(evidence[c]) /\ \A m \in Elements(evidence[c]) : m <= latest
  /\ call.pc = "errors" =>
       call.key.source \in Elements(evidence[call.key.args.concept])
  /\ \A i \in 1..Len(errors) :
       /\ errors[i].args \in RecordArgs
       /\ Explains(evidence[errors[i].args.concept], errors[i].source)

(* A message is added at the end and pushes out at most the oldest one; it *)
(* leaves no older message without an explanation.                         *)
LEMMA WithEvidenceFacts ==
  ASSUME NEW s \in Seq(Nat), Ordered(s), NEW m \in Nat, \A y \in Elements(s) : y <= m
  PROVE  /\ Ordered(WithEvidence(s, m)) /\ m \in Elements(WithEvidence(s, m))
         /\ \A y \in Elements(WithEvidence(s, m)) : y <= m
         /\ \A x \in Nat : Explains(s, x) => Explains(WithEvidence(s, m), x)
  <1>1. EvidenceLimit \in Nat /\ EvidenceLimit > 0 /\ Len(s) \in Nat /\ Len(s) <= EvidenceLimit
    BY BoundsAssumption DEF Ordered
  <1>2. CASE m \in Elements(s)
    <2>1. WithEvidence(s, m) = s
      BY <1>1, <1>2 DEF WithEvidence, LastN
    <2>2. QED
      BY <1>2, <2>1
  <1>3. CASE m \notin Elements(s)
    <2> DEFINE longer == Append(s, m)
    <2>1. /\ longer \in Seq(Nat) /\ Len(longer) = Len(s) + 1
          /\ \A i \in 1..Len(s) : longer[i] = s[i]
          /\ longer[Len(s) + 1] = m
      OBVIOUS
    <2>2. WithEvidence(s, m) = LastN(longer, EvidenceLimit)
      BY <1>3 DEF WithEvidence
    <2>3. \A i \in 1..Len(s) : s[i] \in Nat /\ s[i] < m
      <3>1. \A i \in 1..Len(s) : s[i] \in Elements(s) /\ s[i] \in Nat
        BY DEF Elements
      <3>2. QED
        BY <1>3, <3>1
    <2>4. \A i, j \in 1..Len(s) : i < j => s[i] < s[j]
      BY DEF Ordered
    <2> HIDE DEF longer
    <2>5. ASSUME NEW i \in 1..Len(longer), NEW j \in 1..Len(longer), i < j
          PROVE  longer[i] < longer[j]
      <3>1. i \in 1..Len(s) /\ longer[i] = s[i]
        BY <1>1, <2>1, <2>5
      <3>2. CASE j \in 1..Len(s)
        BY <2>1, <2>4, <2>5, <3>1, <3>2
      <3>3. CASE j = Len(s) + 1
        BY <2>1, <2>3, <3>1, <3>3
      <3>4. QED
        BY <1>1, <2>1, <3>2, <3>3
    <2>6. CASE Len(s) < EvidenceLimit
      <3>1. WithEvidence(s, m) = longer
        BY <1>1, <2>1, <2>2, <2>6 DEF LastN
      <3>2. Ordered(longer)
        BY <1>1, <2>1, <2>5, <2>6 DEF Ordered
      <3>3. m \in Elements(longer) /\ \A y \in Elements(longer) : y <= m
        <4>1. \A i \in 1..Len(longer) : longer[i] <= m
          BY <1>1, <2>1, <2>3
        <4>2. Len(s) + 1 \in 1..Len(longer)
          BY <1>1, <2>1
        <4>3. QED
          BY <2>1, <4>1, <4>2 DEF Elements
      <3>4. ASSUME NEW x \in Nat, Explains(s, x) PROVE Explains(longer, x)
        <4>1. x \in Elements(s)
          BY <1>1, <2>6, <3>4 DEF Explains
        <4>2. x \in Elements(longer)
          BY <1>1, <2>1, <4>1 DEF Elements
        <4>3. QED
          BY <4>2 DEF Explains
      <3>5. QED
        BY <3>1, <3>2, <3>3, <3>4
    <2>7. CASE Len(s) = EvidenceLimit
      <3> DEFINE kept == LastN(longer, EvidenceLimit)
      <3>1. /\ Len(kept) = EvidenceLimit
            /\ \A i \in 1..EvidenceLimit : kept[i] = longer[i + 1]
        <4>1. kept = SubSeq(longer, 2, Len(longer))
          BY <1>1, <2>1, <2>7 DEF LastN
        <4>2. /\ Len(SubSeq(longer, 2, Len(longer))) = EvidenceLimit
              /\ \A i \in 1..EvidenceLimit : SubSeq(longer, 2, Len(longer))[i] = longer[i + 1]
          BY <1>1, <2>1, <2>7
        <4>3. QED
          BY <4>1, <4>2
      <3> HIDE DEF kept
      <3>2. Ordered(kept)
        BY <1>1, <2>1, <2>5, <2>7, <3>1 DEF Ordered
      <3>3. m \in Elements(kept) /\ \A y \in Elements(kept) : y <= m
        <4>1. kept[EvidenceLimit] = m
          BY <1>1, <2>1, <2>7, <3>1
        <4>2. \A i \in 1..Len(kept) : kept[i] <= m
          BY <1>1, <2>1, <2>3, <2>7, <3>1
        <4>3. EvidenceLimit \in 1..Len(kept)
          BY <1>1, <3>1
        <4>4. QED
          BY <4>1, <4>2, <4>3 DEF Elements
      <3>4. ASSUME NEW i \in 1..Len(kept) PROVE kept[i] \in Nat /\ kept[i] > s[1]
        <4>1. 1 \in 1..Len(s) /\ i \in Nat /\ i >= 1 /\ kept[i] = longer[i + 1]
          BY <1>1, <2>7, <3>1
        <4>2. CASE i + 1 \in 1..Len(s)
          <5>1. kept[i] = s[i + 1]
            BY <2>1, <4>1, <4>2
          <5>2. s[1] < s[i + 1]
            BY <2>4, <4>1, <4>2
          <5>3. QED
            BY <2>3, <4>1, <4>2, <5>1, <5>2
        <4>3. CASE i + 1 = Len(s) + 1
          BY <2>1, <2>3, <4>1, <4>3
        <4>4. QED
          BY <1>1, <2>7, <3>1, <4>1, <4>2, <4>3
      <3>5. ASSUME NEW x \in Nat, Explains(s, x) PROVE Explains(kept, x)
        <4>1. CASE x \in Elements(s) /\ x # s[1]
          <5>1. PICK i \in 1..Len(s) : s[i] = x
            BY <4>1 DEF Elements
          <5>2. i > 1
            BY <1>1, <4>1, <5>1
          <5>3. i - 1 \in 1..Len(kept) /\ kept[i - 1] = x
            BY <1>1, <2>1, <2>7, <3>1, <5>1, <5>2
          <5>4. QED
            BY <5>3 DEF Explains, Elements
        <4>2. CASE x = s[1]
          BY <2>7, <3>1, <3>4, <4>2 DEF Explains, Elements
        <4>3. CASE \A y \in Elements(s) : y > x
          <5>1. s[1] > x /\ s[1] \in Nat
            BY <1>1, <2>3, <2>7, <4>3 DEF Elements
          <5>2. \A i \in 1..Len(kept) : kept[i] > x
            BY <3>4, <5>1
          <5>3. QED
            BY <3>1, <5>2 DEF Explains, Elements
        <4>4. QED
          BY <3>5, <4>1, <4>2, <4>3 DEF Explains
      <3>6. QED
        BY <2>2, <3>2, <3>3, <3>5 DEF kept
    <2>8. QED
      BY <1>1, <2>6, <2>7
  <1>4. QED
    BY <1>2, <1>3

(* Evidence and errors, one step for each action that touches them.        *)
LEMMA EvidenceStep ==
  ASSUME TypeOK, TypeOK', CallInv, EvidenceInv, [Next]_vars
  PROVE  EvidenceInv'
  <1>0. /\ evidence \in [Concepts -> Seq(1..MaxMessages)] /\ latest \in Nat
        /\ errors \in Seq(Keys) /\ Len(errors) \in Nat
        /\ \A i \in 1..Len(errors) : errors[i] \in Keys
    <2>1. /\ evidence \in [Concepts -> Seq(1..MaxMessages)] /\ latest \in 0..MaxMessages
          /\ errors \in Seq(Keys)
      BY DEF TypeOK
    <2>2. Len(errors) \in Nat /\ \A i \in 1..Len(errors) : errors[i] \in Keys
      BY ONLY <2>1
    <2>3. latest \in Nat
      BY <2>1, BoundsAssumption
    <2>4. QED
      BY <2>1, <2>2, <2>3
  <1>1. CASE UNCHANGED <<latest, evidence, errors>> /\ (call' = call \/ call' = Idle)
    BY <1>1 DEF EvidenceInv, Idle
  <1>2. CASE UserMessage
    <2>1. /\ call = Idle /\ call' = Idle /\ evidence' = evidence /\ errors' = errors
          /\ latest' = latest + 1
      BY <1>2 DEF UserMessage, files
    <2>2. ASSUME NEW c \in Concepts
          PROVE  Ordered(evidence[c]) /\ \A m \in Elements(evidence[c]) : m <= latest + 1
      <3>1. PICK s \in Seq(1..MaxMessages) : s = evidence[c]
        BY <1>0
      <3>2. \A m \in Elements(s) : m \in Nat /\ m <= latest
        BY <3>1, BoundsAssumption DEF EvidenceInv, Elements
      <3>3. QED
        BY <1>0, <3>1, <3>2 DEF EvidenceInv
    <2>3. QED
      BY <2>1, <2>2 DEF EvidenceInv, Idle
  <1>3. ASSUME NEW a \in Args, ReserveEffect(a) PROVE EvidenceInv'
    <2>1. /\ call' = [pc |-> FirstStage(a), key |-> [source |-> latest, args |-> a]]
          /\ latest' = latest /\ evidence' = evidence /\ errors' = errors
      BY <1>3 DEF ReserveEffect, EffectKey, files
    <2>2. call'.pc # "errors" /\ call'.key.source = latest'
      BY <2>1 DEF FirstStage
    <2>3. QED
      BY <2>1, <2>2 DEF EvidenceInv
  <1>4. CASE SaveConcepts
    <2>1. /\ call.key \in Keys /\ call.key.args \in RecordArgs
          /\ call.key.args.concept \in Concepts /\ call.key.source = latest
          /\ call.key.source \in Nat
      <3>1. call.key \in Keys /\ call.key.args \in RecordArgs /\ call.key.source = latest
        BY <1>4 DEF SaveConcepts, CallInv, EvidenceInv, Idle
      <3>2. QED
        BY <1>0, <3>1, ArgsFacts
    <2>2. PICK d \in Concepts : d = call.key.args.concept
      BY <2>1
    <2>3. PICK s \in Seq(Nat) : s = evidence[d]
      BY <1>0, BoundsAssumption
    <2>4. Ordered(s) /\ \A y \in Elements(s) : y <= latest
      BY <2>3 DEF EvidenceInv
    <2>5. /\ Ordered(WithEvidence(s, latest)) /\ latest \in Elements(WithEvidence(s, latest))
          /\ \A y \in Elements(WithEvidence(s, latest)) : y <= latest
          /\ \A x \in Nat : Explains(s, x) => Explains(WithEvidence(s, latest), x)
      BY <1>0, <2>4, WithEvidenceFacts
    <2>6. PICK t : t = WithEvidence(s, latest)
      OBVIOUS
    <2>7. /\ evidence' = [evidence EXCEPT ![d] = t] /\ latest' = latest /\ errors' = errors
          /\ call'.key = call.key
      BY <1>4, <2>1, <2>2, <2>3, <2>6 DEF SaveConcepts, TypeOK
    <2>8. evidence'[d] = t /\ \A c \in Concepts : c # d => evidence'[c] = evidence[c]
      BY <1>0, <2>7
    <2>9. \A c \in Concepts :
            Ordered(evidence'[c]) /\ \A y \in Elements(evidence'[c]) : y <= latest'
      BY <2>5, <2>6, <2>7, <2>8 DEF EvidenceInv
    <2>10. ASSUME NEW i \in 1..Len(errors)
           PROVE  /\ errors[i].args \in RecordArgs
                  /\ Explains(evidence'[errors[i].args.concept], errors[i].source)
      <3>1. /\ errors[i].args \in RecordArgs /\ errors[i].args.concept \in Concepts
            /\ errors[i].source \in Nat
            /\ Explains(evidence[errors[i].args.concept], errors[i].source)
        BY <1>0, ArgsFacts, BoundsAssumption DEF EvidenceInv
      <3>2. QED
        BY <2>3, <2>5, <2>6, <2>8, <3>1
    <2>11. QED
      BY <2>1, <2>2, <2>5, <2>6, <2>7, <2>8, <2>9, <2>10 DEF EvidenceInv
  <1>5. CASE SaveErrors
    <2> DEFINE longer == Append(errors, call.key)
    <2>1. /\ call.key \in Keys /\ call.key.args \in RecordArgs /\ call.key.source = latest
          /\ call.key.source \in Elements(evidence[call.key.args.concept])
          /\ latest' = latest /\ evidence' = evidence
          /\ errors' = LastN(longer, ErrorLimit)
          /\ call'.key = call.key /\ call'.pc = "reviews"
      BY <1>5 DEF SaveErrors, CallInv, EvidenceInv, Idle, TypeOK
    <2>2. /\ longer \in Seq(Keys) /\ Len(longer) = Len(errors) + 1
          /\ \A i \in 1..Len(errors) : longer[i] = errors[i]
          /\ longer[Len(errors) + 1] = call.key
      BY <1>0, <2>1
    <2> HIDE DEF longer
    <2>3. \A i \in 1..Len(longer) :
            \/ i \in 1..Len(errors) /\ longer[i] = errors[i]
            \/ longer[i] = call.key
      BY <1>0, <2>2
    <2>4. \A i \in 1..Len(longer) :
            /\ longer[i].args \in RecordArgs
            /\ Explains(evidence[longer[i].args.concept], longer[i].source)
      BY <2>1, <2>3 DEF EvidenceInv, Explains
    <2>5. \A i \in 1..Len(errors') : \E j \in 1..Len(longer) : errors'[i] = longer[j]
      <3>1. ErrorLimit \in Nat \ {0}
        BY BoundsAssumption
      <3>2. /\ Len(LastN(longer, ErrorLimit)) \in Nat
            /\ Len(LastN(longer, ErrorLimit)) <= Len(longer)
            /\ \A i \in 1..Len(LastN(longer, ErrorLimit)) :
                 LastN(longer, ErrorLimit)[i]
                   = longer[i + (Len(longer) - Len(LastN(longer, ErrorLimit)))]
        BY <2>2, <3>1, LastNType
      <3>3. QED
        BY <1>0, <2>1, <2>2, <3>2
    <2>6. \A i \in 1..Len(errors') :
            /\ errors'[i].args \in RecordArgs
            /\ Explains(evidence'[errors'[i].args.concept], errors'[i].source)
      BY <2>1, <2>4, <2>5
    <2>7. QED
      BY <2>1, <2>6 DEF EvidenceInv
  <1>6. CASE UNCHANGED <<latest, evidence, errors>> /\ call'.key = call.key
             /\ call # Idle /\ call'.pc # "errors"
    BY <1>6 DEF EvidenceInv
  <1>7. QED
    BY <1>1, <1>2, <1>3, <1>4, <1>5, <1>6
       DEF Next, vars, files, CallWithoutMessage, ReturnPrevious, RaiseRecovery, SaveReviews,
           SaveLearner, CompleteEffect, RaiseValidation, Interrupt, TypeOK, Idle

(* No error outlives the evidence that explains it, for any two limits of  *)
(* the lists: save_concepts comes first and drops only the oldest message. *)
THEOREM ErrorsStayExplained == Spec => []ErrorsHaveEvidence
  <1>1. Init => EvidenceInv
    BY BoundsAssumption DEF Init, EvidenceInv, Ordered, Elements, Idle
  <1>2. IInv /\ IInv' /\ EvidenceInv /\ [Next]_vars => EvidenceInv'
    BY EvidenceStep DEF IInv
  <1>3. EvidenceInv => ErrorsHaveEvidence
    BY DEF EvidenceInv, ErrorsHaveEvidence, Explains
  <1>4. QED
    BY <1>1, <1>2, <1>3, Inductive, PTL DEF Spec

=============================================================================
