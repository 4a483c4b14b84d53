----------------------------- MODULE ModelGateway -----------------------------
(***************************************************************************)
(* The calls of one model route (llm/gateway.py): FallbackLLM over one     *)
(* CircuitBreakerLLM per provider, each around an AuditedLLM that checks   *)
(* the budgets before a request and records a row of model_calls after it, *)
(* shared by all turns that run at the same time; and the search tool      *)
(* (llm/search.py), whose requests are recorded as model calls, too.       *)
(*                                                                         *)
(* A turn makes its requests one after the other.  Everything between two  *)
(* awaits of the event loop is one step: choosing a provider and checking  *)
(* the budgets up to the request; and from the answer (or the exception)   *)
(* of a request through its row and the circuit up to the next provider's  *)
(* request.  Other turns run and time passes while a request is awaited.   *)
(*                                                                         *)
(* Data: input, output and cost are sums of the same shape, so a row has   *)
(* one number of tokens; 0 is a null, which is also what the sums take it  *)
(* for.  A failure is what it means to the circuit and to the fallback.    *)
(*                                                                         *)
(* A definition marked "fault" is a plausible slip in the one that follows *)
(* it; no action uses it, it serves to see that a property notices.        *)
(***************************************************************************)
EXTENDS Naturals, Sequences, FiniteSets, SequencesExt

CONSTANTS
  Turns,        (* turns whose calls may be in progress at once            *)
  Providers,    (* how many providers the route has, in fallback order     *)
  Threshold,    (* transient failures that open a circuit, 3 in the code   *)
  Window,       (* within which they count, 60 s                           *)
  Cooldown,     (* how long it stays open, 5 minutes                       *)
  DayLength,    (* units of time in a day                                  *)
  TurnCalls,    (* turn_call_limit                                         *)
  TurnTokens,   (* turn_input_limit, turn_output_limit                     *)
  DayCalls,     (* daily_call_limit                                        *)
  DayTokens,    (* daily_input_limit, daily_output_limit                   *)
  CostLimit,    (* development_cost_limit_usd, as tokens                   *)
  Sizes,        (* tokens a provider may report for one request            *)
  MaxRequests,  (* bound: rows of one turn                                 *)
  MaxTime,      (* bound: the clock                                        *)
  MaxCrashes    (* bound: deaths of the process                            *)

ASSUME GatewayAssumption ==
  /\ IsFiniteSet(Turns) /\ Turns # {}
  /\ Providers \in Nat \ {0} /\ Threshold \in Nat \ {0}
  /\ Window \in Nat /\ Cooldown \in Nat /\ DayLength \in Nat \ {0}
  /\ TurnCalls \in Nat /\ TurnTokens \in Nat /\ DayCalls \in Nat /\ DayTokens \in Nat
  /\ CostLimit \in Nat /\ Sizes \subseteq Nat \ {0}
  /\ MaxRequests \in Nat /\ MaxTime \in Nat /\ MaxCrashes \in Nat

VARIABLES
  now,         (* the clock                                                *)
  rows,        (* model_calls of each turn                                 *)
  call,        (* the request each turn awaits, volatile                   *)
  failures,    (* CircuitBreakerLLM.failures of each provider, volatile    *)
  opened,      (* opened_until, 0 for None, volatile                       *)
  remembered,  (* last_usage of each provider's client, volatile           *)
  requests,    (* history: chat requests of a turn, but those a death lost *)
  outages,     (* history: transient failures since the last success       *)
  crashes

breakers == <<failures, opened, remembered>>
history == <<requests, outages>>
vars == <<now, rows, call, breakers, history, crashes>>

Chain == 1..Providers
Times == 0..MaxTime
Today == now \div DayLength
Unknown == 0
Usages == Sizes \cup {Unknown}
Idle == [pc |-> "idle", at |-> 1, day |-> 0]

Row == [kind : {"chat", "search"}, day : Nat, tokens : Usages, own : Usages]

TypeOK ==
  /\ now \in Times
  /\ rows \in [Turns -> Seq(Row)]
  /\ call \in [Turns -> [pc : {"idle", "chat", "search"}, at : Chain, day : Nat]]
  /\ failures \in [Chain -> Seq(Times)] /\ outages \in [Chain -> Seq(Times)]
  /\ opened \in [Chain -> Nat]
  /\ remembered \in [Chain -> Usages]
  /\ requests \in [Turns -> Nat]
  /\ crashes \in 0..MaxCrashes

Init ==
  /\ now = 0
  /\ rows = [t \in Turns |-> <<>>]
  /\ call = [t \in Turns |-> Idle]
  /\ failures = [p \in Chain |-> <<>>]
  /\ opened = [p \in Chain |-> 0]
  /\ remembered = [p \in Chain |-> Unknown]
  /\ requests = [t \in Turns |-> 0]
  /\ outages = [p \in Chain |-> <<>>]
  /\ crashes = 0

-----------------------------------------------------------------------------
(* BudgetGate.check, over the rows there are.                              *)
(* A condition on rows selects a set of indices.                           *)
Tokens(s, which) == SumFunctionOnSet([i \in DOMAIN s |-> s[i].tokens], which)
OnDay(s, day) == {i \in DOMAIN s : s[i].day = day}
Chats(s) == {i \in DOMAIN s : s[i].kind = "chat"}

(* Over the rows of all turns.                                             *)
CallsOn(rs, day) == SumFunction([u \in Turns |-> Cardinality(OnDay(rs[u], day))])
TokensOn(rs, day) == SumFunction([u \in Turns |-> Tokens(rs[u], OnDay(rs[u], day))])
TokensEver(rs) == SumFunction([u \in Turns |-> Tokens(rs[u], DOMAIN rs[u])])

Below(calls, tokens, callLimit, tokenLimit) == calls < callLimit /\ tokens < tokenLimit

(* Fault: only the day's limits are checked.                               *)
IgnoresTurn(rs, t) == Below(CallsOn(rs, Today), TokensOn(rs, Today), DayCalls, DayTokens)

WithinBudget(rs, t) ==
  /\ TokensEver(rs) < CostLimit
  /\ Below(Len(rs[t]), Tokens(rs[t], DOMAIN rs[t]), TurnCalls, TurnTokens)
  /\ Below(CallsOn(rs, Today), TokensOn(rs, Today), DayCalls, DayTokens)

(* Fallback passes over providers whose circuit is open; a budget that is  *)
(* used up ends the call, for it is no transient error.                    *)
IsOpen(p) == now < opened[p]
Admitting(p) == {q \in Chain : q >= p /\ ~IsOpen(q)}

CallFrom(p, rs, t) ==
  IF Admitting(p) # {} /\ WithinBudget(rs, t)
    THEN [pc |-> "chat", at |-> CHOOSE q \in Admitting(p) : \A r \in Admitting(p) : q <= r,
          day |-> Today]
    ELSE Idle

Awaits(t, next) ==
  /\ call' = [call EXCEPT ![t] = next]
  /\ requests' = [requests EXCEPT ![t] = IF next.pc = "chat" THEN @ + 1 ELSE @]

(* Bound: a call may need a row for every provider.                        *)
HasRoom(t) == Len(rows[t]) + Providers <= MaxRequests

Request(t) ==
  /\ call[t] = Idle
  /\ HasRoom(t)
  /\ Awaits(t, CallFrom(1, rows, t))
  /\ UNCHANGED <<now, rows, breakers, outages, crashes>>

-----------------------------------------------------------------------------
(* The end of a request.                                                   *)
Recorded(t, tokens, own) ==
  [rows EXCEPT ![t] = Append(@, [kind |-> call[t].pc, day |-> call[t].day,
                                 tokens |-> tokens, own |-> own])]

(* The usage a client remembers after an answer: a completion replaces it, *)
(* with nothing if the provider reported nothing; a stream that ends       *)
(* without a usage chunk leaves it.                                        *)
(* Fault: the usage of the call before is recorded.                        *)
StaleUsage(p, own, streamed) == remembered[p]

UsageAfter(p, own, streamed) ==
  IF streamed /\ own = Unknown THEN remembered[p] ELSE own

Answers(t, own, streamed) ==
  LET p == call[t].at
      usage == UsageAfter(p, own, streamed)
  IN
  /\ call[t].pc = "chat"
  /\ rows' = Recorded(t, usage, own)
  /\ remembered' = [remembered EXCEPT ![p] = usage]
  /\ failures' = [failures EXCEPT ![p] = <<>>]
  /\ opened' = [opened EXCEPT ![p] = 0]
  /\ outages' = [outages EXCEPT ![p] = <<>>]
  /\ Awaits(t, Idle)
  /\ UNCHANGED <<now, crashes>>

(* The failures no older than an age, in their order.                      *)
Within(age, times) ==
  FoldLeft(LAMBDA kept, f : IF f + age >= now THEN Append(kept, f) ELSE kept, <<>>, times)

(* Fault: the failures of a whole cooldown count.                          *)
StaleFailures(p) == Append(Within(Cooldown, failures[p]), now)

(* _failure of a transient error: failures older than the window go.       *)
RecentFailures(p) == Append(Within(Window, failures[p]), now)

Trips(p) ==
  LET recent == RecentFailures(p) IN
  /\ failures' = [failures EXCEPT ![p] = recent]
  /\ opened' = IF Len(recent) >= Threshold THEN [opened EXCEPT ![p] = now + Cooldown] ELSE opened
  /\ outages' = [outages EXCEPT ![p] = Append(@, now)]

(* Fault: a cancelled request is not recorded.                             *)
ForgetsCancelled(t, counts, falls) ==
  LET p == call[t].at
      rs == IF counts \/ falls THEN Recorded(t, remembered[p], Unknown) ELSE rows
  IN
  /\ call[t].pc = "chat"
  /\ rows' = rs
  /\ IF counts THEN Trips(p) ELSE UNCHANGED <<failures, opened, outages>>
  /\ Awaits(t, IF falls THEN CallFrom(p + 1, rs, t) ELSE Idle)
  /\ UNCHANGED <<now, remembered, crashes>>

(* A request fails: its row gets the usage the client remembers.  A status *)
(* code for a passing condition (429, 5xx) counts for the circuit and goes *)
(* to the next provider.  The client's own timeout error is none of the    *)
(* types the circuit counts, but the fallback knows its name.  Everything  *)
(* else, a cancelled turn among it, is neither; and once text of a stream  *)
(* was handed on nothing goes to the next provider.                        *)
Fails(t, counts, falls) ==
  LET p == call[t].at
      rs == Recorded(t, remembered[p], Unknown)
  IN
  /\ call[t].pc = "chat"
  /\ rows' = rs
  /\ IF counts THEN Trips(p) ELSE UNCHANGED <<failures, opened, outages>>
  /\ Awaits(t, IF falls THEN CallFrom(p + 1, rs, t) ELSE Idle)
  /\ UNCHANGED <<now, remembered, crashes>>

-----------------------------------------------------------------------------
(* The search tool: no budget, no circuit, one provider after the other.   *)

(* Fault: the end of the chain is not noticed.                             *)
FallsOff(p) == [pc |-> "search", at |-> p, day |-> Today]

SearchFrom(p) ==
  IF p \in Chain THEN [pc |-> "search", at |-> p, day |-> Today] ELSE Idle

Search(t) ==
  /\ call[t] = Idle
  /\ HasRoom(t)
  /\ Awaits(t, SearchFrom(1))
  /\ UNCHANGED <<now, rows, breakers, outages, crashes>>

SearchAnswers(t, own) ==
  /\ call[t].pc = "search"
  /\ rows' = Recorded(t, own, own)
  /\ Awaits(t, Idle)
  /\ UNCHANGED <<now, breakers, outages, crashes>>

SearchFails(t) ==
  /\ call[t].pc = "search"
  /\ rows' = Recorded(t, Unknown, Unknown)
  /\ Awaits(t, SearchFrom(call[t].at + 1))
  /\ UNCHANGED <<now, breakers, outages, crashes>>

(* A cancelled search leaves no row.                                       *)
SearchCancelled(t) ==
  /\ call[t].pc = "search"
  /\ Awaits(t, Idle)
  /\ UNCHANGED <<now, rows, breakers, outages, crashes>>

-----------------------------------------------------------------------------
(* The process dies and a new one starts: rows stay, circuits do not.      *)
Crash ==
  /\ crashes < MaxCrashes
  /\ crashes' = crashes + 1
  /\ requests' = [t \in Turns |-> requests[t] - (IF call[t].pc = "chat" THEN 1 ELSE 0)]
  /\ call' = [t \in Turns |-> Idle]
  /\ failures' = [p \in Chain |-> <<>>]
  /\ opened' = [p \in Chain |-> 0]
  /\ remembered' = [p \in Chain |-> Unknown]
  /\ outages' = [p \in Chain |-> <<>>]
  /\ UNCHANGED <<now, rows>>

Tick ==
  /\ now < MaxTime
  /\ now' = now + 1
  /\ UNCHANGED <<rows, call, breakers, history, crashes>>

Next ==
  \/ \E t \in Turns :
       \/ Request(t)
       \/ \E own \in Usages, streamed \in BOOLEAN : Answers(t, own, streamed)
       \/ \E counts, falls \in BOOLEAN : Fails(t, counts, falls)
       \/ Search(t)
       \/ \E own \in Usages : SearchAnswers(t, own)
       \/ SearchFails(t)
       \/ SearchCancelled(t)
  \/ Crash
  \/ Tick

Spec == Init /\ [][Next]_vars

-----------------------------------------------------------------------------
(* Properties.                                                             *)

(* The limits hold although requests are counted only when they end: no    *)
(* chat request of a turn is made when the turn's rows have used up a      *)
(* limit (fallback to another provider and searches included), and the     *)
(* requests of a day exceed the day's limit by no more than the other      *)
(* turns in progress.                                                      *)
LimitsBoundRequests ==
  /\ \A t \in Turns : \A i \in 1..Len(rows[t]) :
       rows[t][i].kind = "chat" =>
         i <= TurnCalls /\ Tokens(rows[t], 1..(i - 1)) < TurnTokens
  /\ SumFunction([t \in Turns |-> Cardinality(Chats(rows[t]) \cap OnDay(rows[t], Today))
                                  + (IF call[t].pc = "chat" /\ call[t].day = Today THEN 1 ELSE 0)])
       < DayCalls + Cardinality(Turns)

(* The budgets never count fewer tokens than the providers reported for    *)
(* the turn, whichever turns share the client of a provider and however    *)
(* its calls end.                                                          *)
BudgetSeesEveryToken ==
  \A t \in Turns :
    Tokens(rows[t], DOMAIN rows[t]) >= SumFunction([i \in DOMAIN rows[t] |-> rows[t][i].own])

(* A circuit is open exactly for a cooldown after Threshold transient      *)
(* failures of its provider within the window, counted since its last      *)
(* success: answers that arrive late, failures of other turns and passing  *)
(* time do not open or close it otherwise.                                 *)
Burst(p, i) ==
  i >= Threshold /\ outages[p][i - Threshold + 1] + Window >= outages[p][i]

CircuitOpenAfterBurst ==
  \A p \in Chain :
    IsOpen(p) <=> \E i \in 1..Len(outages[p]) : Burst(p, i) /\ now < outages[p][i] + Cooldown

(* README.md: usage is recorded for every model request.  Every chat       *)
(* request has exactly one row as soon as it is not awaited any more,      *)
(* failed and cancelled ones too, unless the process died.                 *)
EveryRequestAudited ==
  \A t \in Turns :
    requests[t] = Cardinality(Chats(rows[t])) + (IF call[t].pc = "chat" THEN 1 ELSE 0)
=============================================================================
