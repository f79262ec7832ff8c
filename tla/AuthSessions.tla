----------------------------- MODULE AuthSessions -----------------------------
(* Accounts and sessions: the use cases of modules/auth over the users      *)
(* table.  A token is stateless and lives on its own; of those issued to an *)
(* account, of either type, the one that expires last stands for all.       *)
(* Time passes in ticks, between the awaits of the requests as well.        *)
EXTENDS Naturals

CONSTANTS
    Requests,
    UserIds,      \* bound: the accounts there may ever be
    Emails,       \* as they are typed
    Normal,       \* normalizeEmail, from what is typed to what is stored
    AllowedEmails,\* those of the allowed domain
    AccessTtl, RefreshTtl,  \* JWT_ACCESS_TTL, JWT_REFRESH_TTL
    MaxDelay,     \* the ticks a request takes at most: assumed, not enforced
    None, Deleted

VARIABLES
    users,        \* the table: a row by id, None, or Deleted
    left,         \* the ticks each account's tokens still live, by type
    pc, req,
    age,          \* the ticks each request has taken
    off,          \* the ticks an account has been inactive (history)
    since         \* the ticks since an account logged in (history)

vars == <<users, left, pc, req, age, off, since>>

Row == [email : {Normal[e] : e \in Emails}, active : BOOLEAN]

ASSUME TtlAssumption ==
    /\ AccessTtl \in Nat /\ RefreshTtl \in Nat /\ MaxDelay \in Nat
    /\ AllowedEmails \subseteq Emails
    /\ None # Deleted /\ {None, Deleted} \cap Row = {}

TokenTypes == {"access", "refresh"}
Ttl == [access |-> AccessTtl, refresh |-> RefreshTtl]
NoRequest == [email |-> None, user |-> None]

(* The history is kept no further than it can matter. *)
MaxOff == AccessTtl + MaxDelay
MaxSince == RefreshTtl + AccessTtl + MaxDelay

-----------------------------------------------------------------------------
(* PrismaUserRepository *)

Rows == {u \in UserIds : users[u] \notin {None, Deleted}}

Kept(email) == Normal[email]

FindByEmail(email) == {u \in Rows : users[u].email = Kept(email)}
(* isEmailDomainAllowed *)
DomainAllowed(email) == email \in AllowedEmails

IndexRefuses(email) == FindByEmail(email) # {}

ActiveRows == {u \in Rows : users[u].active}

-----------------------------------------------------------------------------
(* JwtTokenService: signature, lifetime and typ *)

MutantVerifies(type, expected, u) == left[u][type] > 0
Verifies(type, expected, u) == type = expected /\ left[u][type] > 0

Issue(u, types) ==
    left' = [left EXCEPT ![u] =
               [t \in TokenTypes |-> IF t \in types THEN Ttl[t] ELSE @[t]]]

-----------------------------------------------------------------------------
(* Requests *)

Begin(r, next, email, u) ==
    /\ pc[r] = "idle"
    /\ pc' = [pc EXCEPT ![r] = next]
    /\ req' = [req EXCEPT ![r] = [email |-> email, user |-> u]]
    /\ age' = [age EXCEPT ![r] = 0]

Continue(r, from, next) ==
    /\ pc[r] = from
    /\ pc' = [pc EXCEPT ![r] = next]
    /\ UNCHANGED age

(* An answer, with a session or without. *)
End(r, from) ==
    /\ Continue(r, from, "idle")
    /\ req' = [req EXCEPT ![r] = NoRequest]

Unchanged == UNCHANGED <<users, left, off, since>>

(* RegisterUserUseCase: refused at once if the domain is not allowed or the *)
(* email is known.                                                          *)
Register(r) ==
    /\ \E e \in Emails :
          /\ DomainAllowed(e) /\ FindByEmail(e) = {}
          /\ Begin(r, "insert", e, None)
    /\ Unchanged

(* The index on the email decides between two that passed.                  *)
Insert(r) ==
    /\ pc[r] = "insert"
    /\ IF IndexRefuses(req[r].email)
       THEN End(r, "insert") /\ Unchanged
       ELSE \E u \in UserIds :
               /\ users[u] = None
               /\ users' = [users EXCEPT ![u] =
                              [email |-> Kept(req[r].email), active |-> TRUE]]
               /\ Continue(r, "insert", "issueBoth")
               /\ req' = [req EXCEPT ![r].user = u]
               /\ UNCHANGED <<left, off, since>>

(* LoginUserUseCase: the account is read once, before the password is       *)
(* verified; the answer is the same 401 whatever is wrong.                  *)
Login(r) ==
    /\ \E e \in Emails : \E u \in FindByEmail(e) :
          Begin(r, IF u \in ActiveRows THEN "password" ELSE "refused", e, u)
    /\ Unchanged

Refuse(r) ==
    /\ \/ End(r, "refused")
       \/ End(r, "password")
    /\ Unchanged

(* Also touchLastLogin, which does nothing to a row deleted meanwhile; no   *)
(* code decides anything by lastLoginAt.                                    *)
PasswordMatches(r) ==
    Continue(r, "password", "issueBoth") /\ Unchanged /\ UNCHANGED req

IssueSession(r) ==
    /\ End(r, "issueBoth")
    /\ Issue(req[r].user, TokenTypes)
    /\ since' = [since EXCEPT ![req[r].user] = 0]
    /\ UNCHANGED <<users, off>>

(* RefreshAccessTokenUseCase, of a token of either type. *)
Refresh(r) ==
    /\ \E u \in UserIds, type \in TokenTypes :
          Verifies(type, "refresh", u) /\ Begin(r, "find", None, u)
    /\ Unchanged

MutantFindById(r) == req[r].user \in Rows
FindById(r) == req[r].user \in ActiveRows

MutantFindForRefresh(r) ==
    /\ IF req[r].user \in Rows
       THEN Continue(r, "find", "issueBoth") /\ UNCHANGED req
       ELSE End(r, "find")
    /\ Unchanged

FindForRefresh(r) ==
    /\ IF FindById(r)
       THEN Continue(r, "find", "issueAccess") /\ UNCHANGED req
       ELSE End(r, "find")
    /\ Unchanged

MutantRefreshed == TokenTypes
Refreshed == {"access"}

IssueAccess(r) ==
    /\ End(r, "issueAccess")
    /\ Issue(req[r].user, Refreshed)
    /\ UNCHANGED <<users, off, since>>

(* JwtAuthGuard lets a request in without looking at the account.           *)
Admit(r) ==
    /\ \E u \in UserIds, type \in TokenTypes :
          Verifies(type, "access", u) /\ Begin(r, "admitted", None, u)
    /\ Unchanged

(* GET /auth/me, which does look, or a route of another module.             *)
Serve(r) == End(r, "admitted") /\ Unchanged

-----------------------------------------------------------------------------
(* What happens beside them *)

(* No code deactivates, reactivates or deletes an account: this is done on  *)
(* the table.                                                               *)
Deactivate(u) ==
    /\ u \in ActiveRows
    /\ users' = [users EXCEPT ![u].active = FALSE]
    /\ off' = [off EXCEPT ![u] = 0]
    /\ UNCHANGED <<left, pc, req, age, since>>

Reactivate(u) ==
    /\ u \in Rows \ ActiveRows
    /\ users' = [users EXCEPT ![u].active = TRUE]
    /\ off' = [off EXCEPT ![u] = 0]
    /\ UNCHANGED <<left, pc, req, age, since>>

Delete(u) ==
    /\ u \in ActiveRows
    /\ users' = [users EXCEPT ![u] = Deleted]
    /\ off' = [off EXCEPT ![u] = 0]
    /\ UNCHANGED <<left, pc, req, age, since>>

Least(a, b) == IF a <= b THEN a ELSE b
Off(u) == users[u] # None /\ u \notin ActiveRows

Tick ==
    /\ \A r \in Requests : pc[r] # "idle" => age[r] < MaxDelay
    /\ age' = [r \in Requests |-> IF pc[r] = "idle" THEN 0 ELSE age[r] + 1]
    /\ left' = [u \in UserIds |-> [t \in TokenTypes |->
                   IF left[u][t] > 0 THEN left[u][t] - 1 ELSE 0]]
    /\ off' = [u \in UserIds |-> IF Off(u) THEN Least(off[u] + 1, MaxOff) ELSE 0]
    /\ since' = [u \in UserIds |-> IF users[u] = None THEN 0
                                  ELSE Least(since[u] + 1, MaxSince)]
    /\ UNCHANGED <<users, pc, req>>

(* A query fails. *)
Fail(r) == pc[r] # "idle" /\ End(r, pc[r]) /\ Unchanged

Proceed(r) ==
    \/ Insert(r) \/ Refuse(r) \/ PasswordMatches(r) \/ IssueSession(r)
    \/ FindForRefresh(r) \/ IssueAccess(r) \/ Serve(r) \/ Fail(r)

Next ==
    \/ Tick
    \/ \E r \in Requests :
          Register(r) \/ Login(r) \/ Refresh(r) \/ Admit(r) \/ Proceed(r)
    \/ \E u \in UserIds : Deactivate(u) \/ Reactivate(u) \/ Delete(u)

Init ==
    /\ users = [u \in UserIds |-> None]
    /\ left = [u \in UserIds |-> [t \in TokenTypes |-> 0]]
    /\ pc = [r \in Requests |-> "idle"]
    /\ req = [r \in Requests |-> NoRequest]
    /\ age = [r \in Requests |-> 0]
    /\ off = [u \in UserIds |-> 0]
    /\ since = [u \in UserIds |-> 0]

(* Time passes, and a request is answered. *)
Spec ==
    /\ Init /\ [][Next]_vars
    /\ WF_vars(Tick) /\ \A r \in Requests : WF_vars(Proceed(r))

-----------------------------------------------------------------------------
(* Properties *)

(* An account that has been inactive, or deleted, for the lifetime of an    *)
(* access token plus a request in flight is not let in (refresh-access-     *)
(* token.use-case: "bounded by the access token's own TTL").                *)
ShutOut ==
    [][\A r \in Requests : Admit(r) =>
          LET u == req'[r].user IN Off(u) => off[u] < AccessTtl + MaxDelay]_vars

(* Refreshing does not prolong a session: without a new login it ends.      *)
SessionEnds ==
    \A u \in UserIds :
        left[u].access > 0 => since[u] < RefreshTtl + AccessTtl + MaxDelay

(* Once an account is inactive for good it holds no living token, of either *)
(* type, from some time on.                                                 *)
ShutOutForGood ==
    \A u \in UserIds :
        <>[](users[u] # None /\ u \notin ActiveRows)
           => <>[](left[u].access = 0 /\ left[u].refresh = 0)
=============================================================================
