-------------------------- MODULE AuthSessionsProofs --------------------------
(* Theorems about AuthSessions, for any requests, accounts, lifetimes and   *)
(* delays.                                                                  *)
EXTENDS AuthSessions, TLAPS

-----------------------------------------------------------------------------
(* The inductive invariant *)

Steps == {"idle", "insert", "password", "refused", "issueBoth", "find",
          "issueAccess", "admitted"}

TypeInv ==
    /\ users \in [UserIds -> Row \cup {None, Deleted}]
    /\ left \in [UserIds -> [TokenTypes -> Nat]]
    /\ pc \in [Requests -> Steps]
    /\ req \in [Requests -> [email : Emails \cup {None}, user : UserIds \cup {None}]]
    /\ age \in [Requests -> 0 .. MaxDelay]
    /\ off \in [UserIds -> Nat]
    /\ since \in [UserIds -> Nat]

(* What a request will be answered is bounded by how long it has taken: the *)
(* account it found active has not been inactive for longer, and the        *)
(* refresh token it came with was alive when it came.                       *)
RequestInv(r) ==
    /\ pc[r] = "insert" => req[r].email \in AllowedEmails
    /\ pc[r] \in {"password", "issueBoth", "find", "issueAccess"} =>
          req[r].user \in UserIds
    /\ pc[r] \in {"password", "issueBoth", "issueAccess"} /\ Off(req[r].user) =>
          off[req[r].user] <= age[r]
    /\ pc[r] \in {"find", "issueAccess"} =>
          since[req[r].user] < RefreshTtl + age[r]

(* The life left to the tokens of an account, against the time it has been  *)
(* inactive and the time since it logged in.                                *)
TokenInv(u) ==
    /\ left[u].access <= AccessTtl /\ left[u].refresh <= RefreshTtl
    /\ left[u].access > 0 /\ Off(u) =>
          off[u] + left[u].access <= AccessTtl + MaxDelay
    /\ left[u].refresh > 0 => since[u] + left[u].refresh <= RefreshTtl
    /\ left[u].access > 0 =>
          since[u] + left[u].access <= RefreshTtl + AccessTtl + MaxDelay

IInv ==
    /\ TypeInv
    /\ \A r \in Requests : RequestInv(r)
    /\ \A u \in UserIds : TokenInv(u)

LEMMA InitIInv == Init => IInv
<1> SUFFICES ASSUME Init PROVE IInv
  OBVIOUS
<1>1. TypeInv
  BY TtlAssumption DEF Init, TypeInv, Steps, NoRequest
<1>2. \A r \in Requests : RequestInv(r)
  BY DEF Init, RequestInv
<1>3. \A u \in UserIds : TokenInv(u)
  BY TtlAssumption DEF Init, TokenInv, TokenTypes
<1> QED
  BY <1>1, <1>2, <1>3 DEF IInv

-----------------------------------------------------------------------------
(* The steps *)

LEMMA TokenTyped ==
    ASSUME TypeInv, NEW u \in UserIds
    PROVE  /\ left[u].access \in Nat /\ left[u].refresh \in Nat
           /\ off[u] \in Nat /\ since[u] \in Nat
  BY DEF TypeInv, TokenTypes

(* A step of one request beside which the accounts and their tokens stay as *)
(* they are.                                                                *)
LEMMA UnchangedStep ==
    ASSUME IInv, NEW r \in Requests, Unchanged, TypeInv', RequestInv(r)',
           \A t \in Requests \ {r} :
              pc'[t] = pc[t] /\ req'[t] = req[t] /\ age'[t] = age[t]
    PROVE  IInv'
<1>1. \A t \in Requests \ {r} : RequestInv(t)'
  BY DEF IInv, RequestInv, Unchanged, Off, ActiveRows, Rows
<1>2. \A u \in UserIds : TokenInv(u)'
  BY DEF IInv, TokenInv, Unchanged, Off, ActiveRows, Rows
<1> QED
  BY <1>1, <1>2 DEF IInv

LEMMA BeginTyped ==
    ASSUME TypeInv, NEW r \in Requests, NEW next \in Steps,
           NEW email \in Emails \cup {None}, NEW u \in UserIds \cup {None},
           Begin(r, next, email, u), Unchanged
    PROVE  /\ TypeInv' /\ pc'[r] = next /\ age'[r] = 0
           /\ req'[r].email = email /\ req'[r].user = u
           /\ \A t \in Requests \ {r} :
                 pc'[t] = pc[t] /\ req'[t] = req[t] /\ age'[t] = age[t]
  BY TtlAssumption DEF TypeInv, Begin, Unchanged

LEMMA ContinueTyped ==
    ASSUME TypeInv, NEW r \in Requests, NEW from, NEW next \in Steps,
           Continue(r, from, next)
    PROVE  /\ pc' \in [Requests -> Steps] /\ UNCHANGED age
           /\ pc[r] = from /\ pc'[r] = next
           /\ \A t \in Requests \ {r} : pc'[t] = pc[t]
  BY DEF TypeInv, Continue

LEMMA EndTyped ==
    ASSUME TypeInv, NEW r \in Requests, NEW from, End(r, from)
    PROVE  /\ pc' \in [Requests -> Steps] /\ UNCHANGED age
           /\ req' \in [Requests -> [email : Emails \cup {None},
                                     user : UserIds \cup {None}]]
           /\ pc[r] = from /\ pc'[r] = "idle"
           /\ \A t \in Requests \ {r} : pc'[t] = pc[t] /\ req'[t] = req[t]
<1>1. NoRequest \in [email : Emails \cup {None}, user : UserIds \cup {None}]
  BY DEF NoRequest
<1> QED
  BY <1>1 DEF TypeInv, End, Continue, Steps

LEMMA EndStep ==
    ASSUME IInv, NEW r \in Requests, NEW from, End(r, from), Unchanged
    PROVE  IInv'
<1>1. TypeInv' /\ RequestInv(r)'
  BY EndTyped DEF IInv, TypeInv, Unchanged, RequestInv
<1> QED
  BY <1>1, EndTyped, UnchangedStep DEF IInv

LEMMA RegisterStep == ASSUME IInv, NEW r \in Requests, Register(r) PROVE IInv'
<1> PICK e \in AllowedEmails : Begin(r, "insert", e, None)
  BY DEF Register, DomainAllowed
<1>1. e \in Emails /\ Unchanged
  BY TtlAssumption DEF Register
<1>2. /\ TypeInv' /\ pc'[r] = "insert" /\ req'[r].email = e
      /\ \A t \in Requests \ {r} :
            pc'[t] = pc[t] /\ req'[t] = req[t] /\ age'[t] = age[t]
  BY <1>1, BeginTyped DEF IInv, Steps
<1>3. RequestInv(r)'
  BY <1>2 DEF RequestInv
<1> QED
  BY <1>1, <1>2, <1>3, UnchangedStep

LEMMA LoginStep == ASSUME IInv, NEW r \in Requests, Login(r) PROVE IInv'
<1> PICK e \in Emails : \E u \in FindByEmail(e) :
         Begin(r, IF u \in ActiveRows THEN "password" ELSE "refused", e, u)
  BY DEF Login
<1> PICK u \in FindByEmail(e) :
         Begin(r, IF u \in ActiveRows THEN "password" ELSE "refused", e, u)
  OBVIOUS
<1> DEFINE next == IF u \in ActiveRows THEN "password" ELSE "refused"
<1>1. /\ u \in UserIds /\ Unchanged
      /\ next \in Steps /\ next \in {"password", "refused"}
      /\ next = "password" => u \in ActiveRows
  BY DEF Login, FindByEmail, Rows, Steps
<1>2. Begin(r, next, e, u)
  OBVIOUS
<1> HIDE DEF next
<1>3. /\ TypeInv' /\ pc'[r] = next /\ req'[r].user = u
      /\ \A t \in Requests \ {r} :
            pc'[t] = pc[t] /\ req'[t] = req[t] /\ age'[t] = age[t]
  BY <1>1, <1>2, BeginTyped DEF IInv
<1>4. next = "password" => ~Off(u)'
  BY <1>1 DEF Off, ActiveRows, Rows, Unchanged
<1>5. RequestInv(r)'
  BY <1>1, <1>3, <1>4 DEF RequestInv, Off
<1> QED
  BY <1>1, <1>3, <1>5, UnchangedStep

LEMMA RefreshStep == ASSUME IInv, NEW r \in Requests, Refresh(r) PROVE IInv'
<1> PICK u \in UserIds, type \in TokenTypes :
         Verifies(type, "refresh", u) /\ Begin(r, "find", None, u)
  BY DEF Refresh
<1>1. Begin(r, "find", None, u) /\ Unchanged /\ left[u].refresh > 0
  BY DEF Refresh, Verifies
<1>2. /\ TypeInv' /\ pc'[r] = "find" /\ req'[r].user = u /\ age'[r] = 0
      /\ \A t \in Requests \ {r} :
            pc'[t] = pc[t] /\ req'[t] = req[t] /\ age'[t] = age[t]
  <2>1. "find" \in Steps /\ None \in Emails \cup {None} /\ u \in UserIds \cup {None}
    BY DEF Steps
  <2> QED
    BY <1>1, <2>1, BeginTyped DEF IInv
<1>3. since[u] < RefreshTtl
  <2>1. since[u] + left[u].refresh <= RefreshTtl
    BY <1>1 DEF IInv, TokenInv
  <2> QED
    BY <1>1, <2>1, TokenTyped, TtlAssumption DEF IInv
<1>4. RequestInv(r)'
  BY <1>1, <1>2, <1>3, TtlAssumption DEF RequestInv, Unchanged
<1> QED
  BY <1>1, <1>2, <1>4, UnchangedStep

LEMMA AdmitStep == ASSUME IInv, NEW r \in Requests, Admit(r) PROVE IInv'
<1> PICK u \in UserIds : Begin(r, "admitted", None, u)
  BY DEF Admit
<1>1. Unchanged
  BY DEF Admit
<1>2. /\ TypeInv' /\ pc'[r] = "admitted"
      /\ \A t \in Requests \ {r} :
            pc'[t] = pc[t] /\ req'[t] = req[t] /\ age'[t] = age[t]
  BY <1>1, BeginTyped DEF IInv, Steps
<1>3. RequestInv(r)'
  BY <1>2 DEF RequestInv
<1> QED
  BY <1>1, <1>2, <1>3, UnchangedStep

LEMMA PasswordMatchesStep ==
    ASSUME IInv, NEW r \in Requests, PasswordMatches(r) PROVE IInv'
<1>1. Unchanged /\ UNCHANGED req /\ Continue(r, "password", "issueBoth")
  BY DEF PasswordMatches
<1>2. /\ TypeInv' /\ pc[r] = "password" /\ pc'[r] = "issueBoth" /\ UNCHANGED age
      /\ \A t \in Requests \ {r} : pc'[t] = pc[t]
  BY <1>1, ContinueTyped DEF IInv, TypeInv, Steps, Unchanged
<1>3. RequestInv(r)'
  BY <1>1, <1>2 DEF IInv, RequestInv, Unchanged, Off, ActiveRows, Rows
<1> QED
  BY <1>1, <1>2, <1>3, UnchangedStep

LEMMA FindForRefreshStep ==
    ASSUME IInv, NEW r \in Requests, FindForRefresh(r) PROVE IInv'
<1>1. CASE End(r, "find")
  BY <1>1, EndStep DEF FindForRefresh
<1>2. CASE ~End(r, "find")
  <2>1. /\ Unchanged /\ UNCHANGED req /\ Continue(r, "find", "issueAccess")
        /\ req[r].user \in ActiveRows
    BY <1>2 DEF FindForRefresh, FindById
  <2>2. /\ TypeInv' /\ pc[r] = "find" /\ pc'[r] = "issueAccess" /\ UNCHANGED age
        /\ \A t \in Requests \ {r} : pc'[t] = pc[t]
    BY <2>1, ContinueTyped DEF IInv, TypeInv, Steps, Unchanged
  <2>3. ~Off(req[r].user)'
    BY <2>1 DEF Off, ActiveRows, Rows, Unchanged
  <2>4. RequestInv(r)'
    BY <2>1, <2>2, <2>3 DEF IInv, RequestInv, Unchanged, Off
  <2> QED
    BY <2>1, <2>2, <2>4, UnchangedStep
<1> QED
  BY <1>1, <1>2

LEMMA InsertStep == ASSUME IInv, NEW r \in Requests, Insert(r) PROVE IInv'
<1>1. CASE IndexRefuses(req[r].email)
  BY <1>1, EndStep DEF Insert
<1>2. CASE ~IndexRefuses(req[r].email)
  <2> DEFINE row == [email |-> Kept(req[r].email), active |-> TRUE]
  <2> PICK u \in UserIds :
           /\ users[u] = None
           /\ users' = [users EXCEPT ![u] = row]
           /\ Continue(r, "insert", "issueBoth")
           /\ req' = [req EXCEPT ![r].user = u]
           /\ UNCHANGED <<left, off, since>>
    BY <1>2 DEF Insert
  <2>1. /\ pc' \in [Requests -> Steps] /\ UNCHANGED age
        /\ pc[r] = "insert" /\ pc'[r] = "issueBoth"
        /\ \A t \in Requests \ {r} : pc'[t] = pc[t]
    BY ContinueTyped DEF IInv, Steps
  <2>2. row \in Row /\ row \notin {None, Deleted} /\ row.active
    <3>1. req[r].email \in Emails
      BY <2>1, TtlAssumption DEF IInv, RequestInv
    <3>2. Kept(req[r].email) \in {Normal[e] : e \in Emails}
      BY <3>1 DEF Kept
    <3>3. row \in Row /\ row.active
      BY <3>2 DEF Row
    <3> QED
      BY <3>3, TtlAssumption
  <2> HIDE DEF row
  <2>3. TypeInv'
    BY <2>1, <2>2 DEF IInv, TypeInv
  <2>4. /\ users'[u] = row /\ req'[r].user = u
        /\ \A t \in Requests \ {r} : req'[t] = req[t]
        /\ \A v \in UserIds \ {u} : users'[v] = users[v]
    BY DEF IInv, TypeInv
  <2>5. \A v \in UserIds : Off(v)' => Off(v)
    BY <2>2, <2>4 DEF Off, ActiveRows, Rows
  <2>6. ~Off(u)'
    BY <2>2, <2>4 DEF Off, ActiveRows, Rows
  <2>7. \A t \in Requests : RequestInv(t)'
    BY <2>1, <2>4, <2>5, <2>6 DEF IInv, RequestInv
  <2>8. \A v \in UserIds : TokenInv(v)'
    BY <2>5 DEF IInv, TokenInv
  <2> QED
    BY <2>3, <2>7, <2>8 DEF IInv
<1> QED
  BY <1>1, <1>2

LEMMA IssueTyped ==
    ASSUME TypeInv, NEW u \in UserIds, NEW types \in SUBSET TokenTypes, Issue(u, types)
    PROVE  /\ left' \in [UserIds -> [TokenTypes -> Nat]]
           /\ left'[u].access = IF "access" \in types THEN AccessTtl ELSE left[u].access
           /\ left'[u].refresh = IF "refresh" \in types THEN RefreshTtl ELSE left[u].refresh
           /\ \A v \in UserIds \ {u} : left'[v] = left[v]
<1> DEFINE issued == [t \in TokenTypes |-> IF t \in types THEN Ttl[t] ELSE left[u][t]]
<1>1. left' = [left EXCEPT ![u] = issued]
  BY DEF Issue
<1>2. issued \in [TokenTypes -> Nat]
  BY TtlAssumption DEF TypeInv, TokenTypes, Ttl
<1>3. /\ issued.access = IF "access" \in types THEN AccessTtl ELSE left[u].access
      /\ issued.refresh = IF "refresh" \in types THEN RefreshTtl ELSE left[u].refresh
  BY DEF TokenTypes, Ttl
<1> HIDE DEF issued
<1> QED
  BY <1>1, <1>2, <1>3 DEF TypeInv

LEMMA IssueSessionStep ==
    ASSUME IInv, NEW r \in Requests, IssueSession(r) PROVE IInv'
<1> DEFINE u == req[r].user
<1>1. /\ End(r, "issueBoth") /\ Issue(u, TokenTypes)
      /\ since' = [since EXCEPT ![u] = 0] /\ UNCHANGED <<users, off>>
  BY DEF IssueSession
<1>2. /\ pc' \in [Requests -> Steps] /\ UNCHANGED age
      /\ req' \in [Requests -> [email : Emails \cup {None}, user : UserIds \cup {None}]]
      /\ pc[r] = "issueBoth" /\ pc'[r] = "idle"
      /\ \A t \in Requests \ {r} : pc'[t] = pc[t] /\ req'[t] = req[t]
  BY <1>1, EndTyped DEF IInv
<1>3. u \in UserIds /\ (Off(u) => off[u] <= MaxDelay)
  <2>1. u \in UserIds /\ (Off(u) => off[u] <= age[r])
    BY <1>2 DEF IInv, RequestInv
  <2>2. age[r] \in 0 .. MaxDelay
    BY DEF IInv, TypeInv
  <2> QED
    BY <2>1, <2>2, TokenTyped, TtlAssumption DEF IInv
<1> HIDE DEF u
<1>4. /\ left' \in [UserIds -> [TokenTypes -> Nat]]
      /\ left'[u].access = AccessTtl /\ left'[u].refresh = RefreshTtl
      /\ \A v \in UserIds \ {u} : left'[v] = left[v]
  BY <1>1, <1>3, IssueTyped DEF IInv, TokenTypes
<1>5. TypeInv'
  BY <1>1, <1>2, <1>4 DEF IInv, TypeInv
<1>6. /\ since'[u] = 0 /\ \A v \in UserIds : since'[v] <= since[v]
      /\ \A v \in UserIds \ {u} : since'[v] = since[v]
      /\ \A v \in UserIds : Off(v)' <=> Off(v)
  BY <1>1, <1>3 DEF IInv, TypeInv, Off, ActiveRows, Rows
<1>7. ASSUME NEW t \in Requests PROVE RequestInv(t)'
  <2>1. CASE t = r
    BY <1>2, <2>1 DEF RequestInv
  <2>2. CASE t # r
    <3>1. RequestInv(t) /\ age[t] \in Nat
      BY TtlAssumption DEF IInv, TypeInv
    <3>2. ASSUME req[t].user \in UserIds, since[req[t].user] < RefreshTtl + age[t]
          PROVE  since'[req[t].user] < RefreshTtl + age[t]
      BY <1>5, <1>6, <3>1, <3>2, TtlAssumption DEF IInv, TypeInv
    <3> QED
      BY <1>1, <1>2, <1>6, <2>2, <3>1, <3>2 DEF RequestInv
  <2> QED
    BY <2>1, <2>2
<1>8. ASSUME NEW v \in UserIds PROVE TokenInv(v)'
  <2>1. CASE v = u
    BY <1>1, <1>3, <1>4, <1>6, <2>1, TokenTyped, TtlAssumption DEF IInv, TokenInv
  <2>2. CASE v # u
    BY <1>1, <1>4, <1>6, <2>2 DEF IInv, TokenInv
  <2> QED
    BY <2>1, <2>2
<1> QED
  BY <1>5, <1>7, <1>8 DEF IInv

LEMMA IssueAccessStep ==
    ASSUME IInv, NEW r \in Requests, IssueAccess(r) PROVE IInv'
<1> DEFINE u == req[r].user
<1>1. /\ End(r, "issueAccess") /\ Issue(u, {"access"})
      /\ UNCHANGED <<users, off, since>>
  BY DEF IssueAccess, Refreshed
<1>2. /\ pc' \in [Requests -> Steps] /\ UNCHANGED age
      /\ req' \in [Requests -> [email : Emails \cup {None}, user : UserIds \cup {None}]]
      /\ pc[r] = "issueAccess" /\ pc'[r] = "idle"
      /\ \A t \in Requests \ {r} : pc'[t] = pc[t] /\ req'[t] = req[t]
  BY <1>1, EndTyped DEF IInv
<1>3. /\ u \in UserIds
      /\ Off(u) => off[u] <= MaxDelay
      /\ since[u] <= RefreshTtl + MaxDelay
  <2>1. /\ u \in UserIds /\ (Off(u) => off[u] <= age[r])
        /\ since[u] < RefreshTtl + age[r]
    BY <1>2 DEF IInv, RequestInv
  <2>2. age[r] \in 0 .. MaxDelay
    BY DEF IInv, TypeInv
  <2> QED
    BY <2>1, <2>2, TokenTyped, TtlAssumption DEF IInv
<1> HIDE DEF u
<1>4. /\ left' \in [UserIds -> [TokenTypes -> Nat]]
      /\ left'[u].access = AccessTtl /\ left'[u].refresh = left[u].refresh
      /\ \A v \in UserIds \ {u} : left'[v] = left[v]
  BY <1>1, <1>3, IssueTyped DEF IInv, TokenTypes
<1>5. TypeInv'
  BY <1>1, <1>2, <1>4 DEF IInv, TypeInv
<1>6. \A v \in UserIds : Off(v)' <=> Off(v)
  BY <1>1 DEF Off, ActiveRows, Rows
<1>7. \A t \in Requests : RequestInv(t)'
  BY <1>1, <1>2, <1>6 DEF IInv, RequestInv
<1>8. ASSUME NEW v \in UserIds PROVE TokenInv(v)'
  <2>1. CASE v = u
    BY <1>1, <1>3, <1>4, <1>6, <2>1, TokenTyped, TtlAssumption DEF IInv, TokenInv
  <2>2. CASE v # u
    BY <1>1, <1>4, <1>6, <2>2 DEF IInv, TokenInv
  <2> QED
    BY <2>1, <2>2
<1> QED
  BY <1>5, <1>7, <1>8 DEF IInv

(* An account is turned off, or on: what it is off for starts anew.         *)
LEMMA AccountStep ==
    ASSUME IInv, NEW u \in UserIds, NEW row \in Row \cup {None, Deleted},
           users' = [users EXCEPT ![u] = row], off' = [off EXCEPT ![u] = 0],
           UNCHANGED <<left, pc, req, age, since>>
    PROVE  IInv'
<1>1. TypeInv'
  BY DEF IInv, TypeInv
<1>2. /\ \A v \in UserIds \ {u} : /\ users'[v] = users[v] /\ off'[v] = off[v]
                                  /\ Off(v)' <=> Off(v)
      /\ off'[u] = 0
  BY DEF IInv, TypeInv, Off, ActiveRows, Rows
<1>3. ASSUME NEW t \in Requests PROVE RequestInv(t)'
  <2>1. RequestInv(t) /\ age[t] >= 0
    BY TtlAssumption DEF IInv, TypeInv
  <2> QED
    BY <1>2, <2>1 DEF RequestInv
<1>4. ASSUME NEW v \in UserIds PROVE TokenInv(v)'
  <2>1. CASE v = u
    BY <1>2, <2>1, TokenTyped, TtlAssumption DEF IInv, TokenInv
  <2>2. CASE v # u
    BY <1>2, <2>2 DEF IInv, TokenInv
  <2> QED
    BY <2>1, <2>2
<1> QED
  BY <1>1, <1>3, <1>4 DEF IInv

LEMMA TableStep ==
    ASSUME IInv, NEW u \in UserIds, Deactivate(u) \/ Reactivate(u) \/ Delete(u)
    PROVE  IInv'
<1>1. CASE Delete(u)
  BY <1>1, AccountStep DEF Delete
<1>2. CASE Deactivate(u) \/ Reactivate(u)
  <2>1. users[u] \in Row
    BY <1>2 DEF IInv, TypeInv, Deactivate, Reactivate, ActiveRows, Rows
  <2>2. PICK active \in BOOLEAN :
           /\ users' = [users EXCEPT ![u] = [users[u] EXCEPT !.active = active]]
           /\ off' = [off EXCEPT ![u] = 0] /\ UNCHANGED <<left, pc, req, age, since>>
    BY <1>2 DEF Deactivate, Reactivate
  <2>3. [users[u] EXCEPT !.active = active] \in Row
    BY <2>1 DEF Row
  <2> QED
    BY <2>2, <2>3, AccountStep
<1> QED
  BY <1>1, <1>2

LEMMA TickStep == ASSUME IInv, Tick PROVE IInv'
<1>1. /\ MaxOff \in Nat /\ MaxSince \in Nat
      /\ AccessTtl \in Nat /\ RefreshTtl \in Nat /\ MaxDelay \in Nat
  BY TtlAssumption DEF MaxOff, MaxSince
<1>2. ASSUME NEW a \in Nat, NEW b \in Nat
      PROVE  Least(a, b) \in Nat /\ Least(a, b) <= a
  BY DEF Least
<1>3. ASSUME NEW u \in UserIds
      PROVE  /\ left'[u].access = IF left[u].access > 0 THEN left[u].access - 1 ELSE 0
             /\ left'[u].refresh = IF left[u].refresh > 0 THEN left[u].refresh - 1 ELSE 0
             /\ off'[u] \in Nat /\ off'[u] <= off[u] + 1
             /\ since'[u] \in Nat /\ since'[u] <= since[u] + 1
             /\ Off(u)' <=> Off(u)
  <2>1. /\ left'[u].access = IF left[u].access > 0 THEN left[u].access - 1 ELSE 0
        /\ left'[u].refresh = IF left[u].refresh > 0 THEN left[u].refresh - 1 ELSE 0
    BY DEF Tick, TokenTypes
  <2>2. off[u] + 1 \in Nat /\ since[u] + 1 \in Nat
    BY TokenTyped DEF IInv
  <2>3. /\ Least(off[u] + 1, MaxOff) \in Nat /\ Least(off[u] + 1, MaxOff) <= off[u] + 1
        /\ Least(since[u] + 1, MaxSince) \in Nat /\ Least(since[u] + 1, MaxSince) <= since[u] + 1
    BY <1>1, <1>2, <2>2
  <2>4. off'[u] \in Nat /\ off'[u] <= off[u] + 1
    BY <2>2, <2>3 DEF Tick
  <2>5. since'[u] \in Nat /\ since'[u] <= since[u] + 1
    BY <2>2, <2>3 DEF Tick
  <2>6. Off(u)' <=> Off(u)
    BY DEF Tick, Off, ActiveRows, Rows
  <2> QED
    BY <2>1, <2>4, <2>5, <2>6
<1>4. ASSUME NEW r \in Requests
      PROVE  /\ age'[r] \in 0 .. MaxDelay
             /\ pc[r] # "idle" => age'[r] = age[r] + 1
    BY <1>1 DEF Tick, IInv, TypeInv
<1>5. TypeInv'
  <2>1. left' \in [UserIds -> [TokenTypes -> Nat]]
    <3>1. \A u \in UserIds, t \in TokenTypes :
             (IF left[u][t] > 0 THEN left[u][t] - 1 ELSE 0) \in Nat
      BY DEF IInv, TypeInv
    <3> QED
      BY <3>1 DEF Tick
  <2>2. off' \in [UserIds -> Nat]
    BY <1>3 DEF Tick
  <2>3. since' \in [UserIds -> Nat]
    BY <1>3 DEF Tick
  <2>4. age' \in [Requests -> 0 .. MaxDelay]
    BY <1>4 DEF Tick
  <2> QED
    BY <2>1, <2>2, <2>3, <2>4 DEF Tick, IInv, TypeInv
<1>6. ASSUME NEW r \in Requests PROVE RequestInv(r)'
  <2>1. CASE pc[r] = "idle"
    BY <2>1 DEF Tick, RequestInv
  <2>2. CASE pc[r] # "idle"
    <3>1. RequestInv(r) /\ age[r] \in Nat /\ age'[r] = age[r] + 1
      BY <1>4, <2>2, TtlAssumption DEF IInv, TypeInv
    <3>2. pc'[r] = pc[r] /\ req'[r] = req[r]
      BY DEF Tick
    <3> DEFINE u == req[r].user
    <3>3. pc[r] \in {"password", "issueBoth", "issueAccess"} /\ Off(u)' => off'[u] <= age'[r]
      <4> SUFFICES ASSUME pc[r] \in {"password", "issueBoth", "issueAccess"}, Off(u)'
                   PROVE  off'[u] <= age'[r]
        BY <3>2
      <4>1. u \in UserIds
        BY <3>1 DEF RequestInv
      <4>2. Off(u)
        BY <1>3, <4>1, <3>2
      <4>3. off[u] <= age[r]
        BY <3>1, <4>2 DEF RequestInv
      <4> QED
        BY <1>3, <3>1, <4>1, <4>3, TokenTyped DEF IInv
    <3>4. pc[r] \in {"find", "issueAccess"} => since'[u] < RefreshTtl + age'[r]
      BY <1>1, <1>3, <3>1, TokenTyped DEF IInv, RequestInv
    <3> QED
      BY <3>1, <3>2, <3>3, <3>4 DEF RequestInv
  <2> QED
    BY <2>1, <2>2
<1>7. ASSUME NEW u \in UserIds PROVE TokenInv(u)'
  BY <1>1, <1>3, TokenTyped DEF IInv, TokenInv
<1> QED
  BY <1>5, <1>6, <1>7 DEF IInv

LEMMA StepIInv == IInv /\ [Next]_vars => IInv'
<1> SUFFICES ASSUME IInv, [Next]_vars PROVE IInv'
  OBVIOUS
<1>1. CASE Tick
  BY <1>1, TickStep
<1>2. ASSUME NEW r \in Requests,
             Register(r) \/ Login(r) \/ Refresh(r) \/ Admit(r)
      PROVE  IInv'
  BY <1>2, RegisterStep, LoginStep, RefreshStep, AdmitStep
<1>3. ASSUME NEW r \in Requests, Proceed(r) PROVE IInv'
  <2>1. CASE Refuse(r) \/ Serve(r) \/ Fail(r)
    BY <2>1, EndStep DEF Refuse, Serve, Fail
  <2> QED
    BY <1>3, <2>1, InsertStep, PasswordMatchesStep, IssueSessionStep,
       FindForRefreshStep, IssueAccessStep DEF Proceed
<1>4. ASSUME NEW u \in UserIds, Deactivate(u) \/ Reactivate(u) \/ Delete(u)
      PROVE  IInv'
  BY <1>4, TableStep
<1>5. CASE UNCHANGED vars
  BY <1>5 DEF vars, IInv, TypeInv, RequestInv, TokenInv, Off, ActiveRows, Rows
<1> QED
  BY <1>1, <1>2, <1>3, <1>4, <1>5 DEF Next

LEMMA AlwaysIInv == Spec => []IInv
  BY InitIInv, StepIInv, PTL DEF Spec

-----------------------------------------------------------------------------
(* The theorems *)

(* Whatever the lifetimes: once an account has been inactive or deleted for *)
(* the lifetime of an access token and the time a request takes, the guard, *)
(* which looks at the token alone, lets none of its tokens in: a token that *)
(* still lives was issued by a request that found the account active.       *)
THEOREM InactiveAccountShutOut == Spec => ShutOut
<1>1. ASSUME IInv, NEW r \in Requests, Admit(r), Off(req'[r].user)
      PROVE  off[req'[r].user] < AccessTtl + MaxDelay
  <2> PICK u \in UserIds : left[u].access > 0 /\ Begin(r, "admitted", None, u)
    BY <1>1 DEF Admit, Verifies
  <2>1. req'[r].user = u
    BY <1>1 DEF IInv, TypeInv, Begin
  <2>2. off[u] + left[u].access <= AccessTtl + MaxDelay
    BY <1>1, <2>1 DEF IInv, TokenInv
  <2> QED
    BY <1>1, <2>1, <2>2, TokenTyped, TtlAssumption DEF IInv
<1>2. IInv /\ [Next]_vars =>
        [\A r \in Requests : Admit(r) =>
           LET u == req'[r].user IN Off(u) => off[u] < AccessTtl + MaxDelay]_vars
  BY <1>1
<1> QED
  BY <1>2, AlwaysIInv, PTL DEF Spec, ShutOut

(* Whatever the lifetimes, no chain of refreshes keeps a session alive: the *)
(* last access token of an account dies within the two lifetimes and one    *)
(* request of the last login, since refreshing leaves the refresh token as  *)
(* it is.                                                                   *)
THEOREM SessionsEnd == Spec => []SessionEnds
<1>1. ASSUME IInv, NEW u \in UserIds, left[u].access > 0
      PROVE  since[u] < RefreshTtl + AccessTtl + MaxDelay
  <2>1. since[u] + left[u].access <= RefreshTtl + AccessTtl + MaxDelay
    BY <1>1 DEF IInv, TokenInv
  <2> QED
    BY <1>1, <2>1, TokenTyped, TtlAssumption DEF IInv
<1>2. IInv => SessionEnds
  BY <1>1 DEF SessionEnds
<1> QED
  BY <1>2, AlwaysIInv, PTL
=============================================================================
