------------------------------ MODULE Accounts ------------------------------
(***************************************************************************)
(* Owners on top of TurnQueue: the accounts the CLI creates and disables   *)
(* in a process of its own, the login sessions (auth.py), the owner a turn *)
(* takes along when it begins, and the rows that carry an owner: sessions, *)
(* runs and model_calls.  Without AUTH_ENABLED everybody is Local; the     *)
(* flag may change while the server is down.                               *)
(*                                                                         *)
(* The first account takes over what Local owns, in one transaction beside *)
(* a server that may be in the middle of a turn.                           *)
(***************************************************************************)
EXTENDS TurnQueue

CONSTANTS
  Users,
  Local,   (* the user "local"                                             *)
  NoOwner  (* of a session or a run that does not exist                    *)

ASSUME OwnersAssumption == Local \notin Users /\ NoOwner \notin Users \cup {Local}

VARIABLES
  auth,       (* settings.auth_enabled                                     *)
  users,      (* [Users -> the row in users]                               *)
  login,      (* users with a valid row in auth_sessions                   *)
  owner,      (* [Sessions -> sessions.owner_id]                           *)
  runOwner,   (* [Runs -> runs.owner_id]                                   *)
  held,       (* [Runs -> the owner in the CallContext of the turn]        *)
  calls,      (* model_calls, those of turns: run, site and owner          *)
  straddled   (* history: runs in progress when their session was claimed  *)

accounts == <<auth, users, login>>
owners == <<owner, runOwner, held, calls, straddled>>
avars == <<qvars, accounts, owners>>

Owners == Users \cup {Local}
Calls == [run : Runs, site : {"chat", "search"}, owner : Owners]

AccountsTypeOK ==
  /\ TypeOK
  /\ auth \in BOOLEAN
  /\ users \in [Users -> {"absent", "active", "disabled"}]
  /\ login \subseteq {u \in Users : users[u] = "active"}
  /\ owner \in [Sessions -> Owners \cup {NoOwner}]
  /\ \A s \in Sessions : owner[s] = NoOwner <=> session[s] # "open"
  /\ runOwner \in [Runs -> Owners \cup {NoOwner}]
  /\ held \in [Runs -> Owners \cup {NoOwner}]
  /\ calls \subseteq Calls
  /\ straddled \in SUBSET Runs

AccountsInit ==
  /\ Init
  /\ auth \in BOOLEAN
  /\ users = [u \in Users |-> "absent"]
  /\ login = {}
  /\ owner = [s \in Sessions |-> NoOwner]
  /\ runOwner = [r \in Runs |-> NoOwner]
  /\ held = [r \in Runs |-> NoOwner]
  /\ calls = {}
  /\ straddled = {}

(* current_user: whoever may send a request.                               *)
Callers == IF auth THEN login ELSE {Local}

(* _owner_id: Local when there is no such session.                         *)
OwnerId(s) == IF owner[s] = NoOwner THEN Local ELSE owner[s]

-----------------------------------------------------------------------------
(* Accounts.                                                               *)

Active == {u \in Users : users[u] = "active"}
CallsOf(s) == {c \in calls : c.run \in RunsOf(s)}

(* Fault: only the sessions change hands.                                  *)
SessionsOnly(u) ==
  /\ owner' = [s \in Sessions |-> IF owner[s] = Local THEN u ELSE owner[s]]
  /\ UNCHANGED calls

(* Fault: whatever anybody owns changes hands.                             *)
TakesAll(u) ==
  /\ owner' = [s \in Sessions |-> IF session[s] = "open" THEN u ELSE owner[s]]
  /\ calls' = {[c EXCEPT !.owner = u] : c \in calls}

TakeOver(u) ==
  /\ owner' = [s \in Sessions |-> IF owner[s] = Local THEN u ELSE owner[s]]
  /\ calls' = {[c EXCEPT !.owner = IF @ = Local THEN u ELSE @] : c \in calls}

CreateUser(u) ==
  /\ users[u] = "absent"
  /\ users' = [users EXCEPT ![u] = "active"]
  /\ IF Active = {}
       THEN /\ TakeOver(u)
            /\ straddled' = straddled \cup
                 {r \in Runs : held[r] = Local /\ turn[r].phase \in Begun}
       ELSE UNCHANGED <<owner, calls, straddled>>
  /\ UNCHANGED <<qvars, auth, login, runOwner, held>>

(* Fault: whoever is logged in stays so.                                   *)
KeepsLogin(u) ==
  /\ users[u] = "active"
  /\ users' = [users EXCEPT ![u] = "disabled"]
  /\ UNCHANGED <<qvars, auth, login, owners>>

DisableUser(u) ==
  /\ users[u] = "active"
  /\ users' = [users EXCEPT ![u] = "disabled"]
  /\ login' = login \ {u}
  /\ UNCHANGED <<qvars, auth, owners>>

Login(u) ==
  /\ up /\ auth
  /\ users[u] = "active"
  /\ login' = login \cup {u}
  /\ UNCHANGED <<qvars, auth, users, owners>>

(* Logout, or the session's hours are over.                                *)
Logout(u) ==
  /\ login' = login \ {u}
  /\ UNCHANGED <<qvars, auth, users, owners>>

-----------------------------------------------------------------------------
(* What TurnQueue does, on behalf of a caller.                             *)

CreateOwned(s) ==
  /\ CreateSession(s)
  /\ \E c \in Callers : owner' = [owner EXCEPT ![s] = c]
  /\ UNCHANGED <<accounts, runOwner, held, calls, straddled>>

SubmitOwned(s, r, retry) ==
  /\ owner[s] \in Callers
  /\ Submit(s, r, retry)
  /\ UNCHANGED <<accounts, owners>>

(* The model calls are rows of the session, too; those of a turn that goes *)
(* on come after them.                                                     *)
DeleteOwned(s) ==
  /\ owner[s] \in Callers
  /\ DeleteSession(s)
  /\ owner' = [owner EXCEPT ![s] = NoOwner]
  /\ runOwner' = [r \in Runs |-> IF r \in RunsOf(s) THEN NoOwner ELSE runOwner[r]]
  /\ calls' = calls \ CallsOf(s)
  /\ UNCHANGED <<accounts, held, straddled>>

Owns(r) ==
  LET o == OwnerId(SessionOf(r)) IN
  /\ runOwner' = [runOwner EXCEPT ![r] = o]
  /\ held' = [held EXCEPT ![r] = o]

BeginOwned(r) ==
  /\ Begin(r) \/ BeginEmpty(r)
  /\ Owns(r)
  /\ UNCHANGED <<accounts, owner, calls, straddled>>

Books(r, site, o) == calls' = calls \cup {[run |-> r, site |-> site, owner |-> o]}

(* A request of the agent or of the compaction ends: its row carries the   *)
(* owner its context was made with.                                        *)
RecordCall(r) ==
  /\ up /\ turn[r].phase \in Begun
  /\ Books(r, "chat", held[r])
  /\ UNCHANGED <<qvars, accounts, owner, runOwner, held, straddled>>

(* A search of the agent that a provider answered, or failed to: its row   *)
(* names the run and the session of the context, but no owner, and the     *)
(* default of the field is Local.                                          *)
RecordSearch(r) ==
  /\ TurnAt(r, "agent")
  /\ Books(r, "search", Local)
  /\ UNCHANGED <<qvars, accounts, owner, runOwner, held, straddled>>

(* The compaction asks again whose session it is.                          *)
AnswerOwned(r) ==
  /\ Answer(r)
  /\ held' = [held EXCEPT ![r] = OwnerId(SessionOf(r))]
  /\ UNCHANGED <<accounts, owner, runOwner, calls, straddled>>

RestartOwned ==
  /\ Restart
  /\ auth' \in BOOLEAN
  /\ UNCHANGED <<users, login, owners>>

Unowned(r) == BeginDeleted(r) \/ Fail(r) \/ Finish(r) \/ FinishTask(r)

TurnStep(r) ==
  \/ BeginOwned(r) \/ AnswerOwned(r)
  \/ Unowned(r) /\ UNCHANGED <<accounts, owners>>

AccountsNext ==
  \/ \E u \in Users : CreateUser(u) \/ DisableUser(u) \/ Login(u) \/ Logout(u)
  \/ \E s \in Sessions :
       \/ CreateOwned(s) \/ DeleteOwned(s)
       \/ CleansUp(s) /\ UNCHANGED <<accounts, owners>>
       \/ \E r \in Runs, retry \in BOOLEAN : SubmitOwned(s, r, retry)
  \/ \E r \in Runs : TurnStep(r) \/ RecordCall(r) \/ RecordSearch(r)
  \/ Crash /\ UNCHANGED <<accounts, owners>>
  \/ RestartOwned

AccountsSpec == AccountsInit /\ [][AccountsNext]_avars

-----------------------------------------------------------------------------
(* Properties.                                                             *)

(* What the turns of a session that exists spent in chat is booked on the  *)
(* owner of the session, and so is what they searched for if they began    *)
(* under Local: also after the first account took over, except for what a  *)
(* turn in progress at that moment still books.  The searches of a turn an *)
(* account owns are left out: they are booked on Local, and the account    *)
(* does not see them.  The run row says the owner too, or Local if it is   *)
(* older than the take-over, which leaves runs alone.                      *)
RowsFollowOwner ==
  \A s \in Sessions, r \in Runs :
    session[s] = "open" /\ r \in RunsOf(s) =>
      /\ r \notin straddled =>
           \A c \in calls :
             c.run = r => c.owner = owner[s] \/ (c.site = "search" /\ held[r] # Local)
      /\ runOwner[r] \in {owner[s], Local, NoOwner}

(* A session that belongs to an account never changes hands, whoever is    *)
(* disabled or created later; one of Local goes to an active account.      *)
OwnedStaysOwned ==
  [][\A s \in Sessions :
       session[s] = "open" /\ session'[s] = "open" /\ owner'[s] # owner[s] =>
         owner[s] = Local /\ users'[owner'[s]] = "active"]_avars

(* A session deleted while none of its turns ran leaves no row behind,     *)
(* model calls included, even if a turn was accepted and still waits.      *)
DeletedLeavesNothing ==
  \A s \in Gone :
    RunsOf(s) \cap caught = {} =>
      /\ gone[s] = Len(log[s])
      /\ \A r \in RunsOf(s) : row[r] = "absent"
      /\ CallsOf(s) = {}
=============================================================================
