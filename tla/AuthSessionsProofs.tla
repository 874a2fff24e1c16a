------------------------- MODULE AuthSessionsProofs -------------------------
(***************************************************************************)
(* Proofs about AuthSessions for any number of accounts, tokens and        *)
(* requests, any lifetime of a token and any leeway.                       *)
(*                                                                         *)
(* The inductive invariant says what both tables owe to history: a logged- *)
(* out token keeps its row in revoked_jti until its exp has passed         *)
(* (RowsKept), and a request that history calls late, banned or demoted    *)
(* still faces the row that will turn it away (CallOK).                    *)
(***************************************************************************)
EXTENDS AuthSessions, TLAPS

RowsKept == \A j \in loggedOut : now <= exp[j] => j \in revoked

(* Tokens are issued to accounts that exist.                               *)
SubsExist == \A j \in issued : role[sub[j]] # "absent"

(* The token r carries is one that was issued.                             *)
Carries(r) ==
  pc[r] \in {"verify", "row", "revoke"}
    \/ (pc[r] = "handler" /\ call[r].op # "register")

(* The route fits the place.                                               *)
PlaceOK(r) ==
  /\ pc[r] \in {"authenticate", "issue"} => call[r].op = "login"
  /\ pc[r] \in {"verify", "row", "handler", "revoke"} => call[r].op \in SessionOps
  /\ pc[r] = "issue" => role[call[r].user] # "absent"
  /\ Carries(r) => call[r].jti \in issued

LateOK(r) ==
  call[r].late => /\ call[r].jti \in loggedOut
                  /\ Admitted(r) => exp[call[r].jti] < now

(* r has passed the check of the users row.                                *)
Past(r) ==
  pc[r] = "issue"
    \/ (pc[r] \in {"handler", "revoke"} /\ call[r].op # "register")

BannedOK(r) ==
  call[r].banned => /\ call[r].op # "login" => call[r].jti \in issued
                    /\ disabled[OnBehalf(r)]
                    /\ ~Past(r)

DemotedOK(r) ==
  call[r].demoted => /\ call[r].op # "login" /\ call[r].jti \in issued
                     /\ role[sub[call[r].jti]] = "member"
                     /\ Past(r) => call[r].acts = "member"

CallOK(r) == PlaceOK(r) /\ LateOK(r) /\ BannedOK(r) /\ DemotedOK(r)

IInv == TypeOK /\ RowsKept /\ SubsExist /\ \A r \in Requests : CallOK(r)

-----------------------------------------------------------------------------
LEMMA NoCallType == AnyJti \in Jtis /\ NoCall \in Calls
<1>1. AnyJti \in Jtis
  BY JtisAssumption DEF AnyJti
<1> QED BY <1>1, AdminAssumption DEF NoCall, Calls, Ops, Roles

(* An idle connection without a call satisfies CallOK.                     *)
LEMMA IdleOK ==
  ASSUME NEW r \in Requests, pc[r] = "idle", call[r] = NoCall
  PROVE  CallOK(r)
BY DEF CallOK, PlaceOK, LateOK, BannedOK, DemotedOK, Carries, Past, NoCall, Admitted

LEMMA IdleOKNext ==
  ASSUME NEW r \in Requests, pc'[r] = "idle", call'[r] = NoCall
  PROVE  CallOK(r)'
BY DEF CallOK, PlaceOK, LateOK, BannedOK, DemotedOK, Carries, Past, NoCall, Admitted

LEMMA InitOK == Init => IInv
<1> SUFFICES ASSUME Init PROVE IInv
  OBVIOUS
<1>1. TypeOK
  BY NoCallType, AdminAssumption, TimesAssumption DEF Init, TypeOK, Roles, Places
<1>2. \A r \in Requests : CallOK(r)
  BY IdleOK DEF Init
<1> QED BY <1>1, <1>2 DEF Init, IInv, RowsKept, SubsExist

(* Whatever other requests and the clock do, a request that stays where it *)
(* is stays in order: tokens keep their claims once issued, the clock and  *)
(* the set of logged-out tokens only grow, an account that goes from       *)
(* disabled to enabled, or from member to admin, has its flags cleared.    *)
LEMMA BystanderOK ==
  ASSUME TypeOK, NEW q \in Requests, CallOK(q),
         pc'[q] = pc[q],
         /\ call'[q].op = call[q].op /\ call'[q].jti = call[q].jti
         /\ call'[q].user = call[q].user /\ call'[q].acts = call[q].acts
         /\ call'[q].late = call[q].late,
         publicRegister' = publicRegister,
         issued \subseteq issued', loggedOut \subseteq loggedOut',
         \A j \in issued : sub'[j] = sub[j] /\ exp'[j] = exp[j],
         now <= now', now' \in Int,
         \A u \in Users : role[u] # "absent" => role'[u] # "absent",
         call'[q].banned => call[q].banned /\ disabled'[OnBehalf(q)],
         call'[q].demoted =>
           call[q].demoted /\ role'[sub[call[q].jti]] = role[sub[call[q].jti]]
  PROVE  CallOK(q)'
<1>1. /\ call[q] \in Calls
      /\ \A j \in issued : exp[j] \in Int
      /\ now \in Int
      /\ loggedOut \subseteq issued
  BY DEF TypeOK
<1>2. PlaceOK(q)'
  BY <1>1 DEF CallOK, PlaceOK, Carries, Calls
<1>3. LateOK(q)'
  BY <1>1 DEF CallOK, LateOK, Admitted
<1>4. BannedOK(q)'
  BY <1>1 DEF CallOK, BannedOK, OnBehalf, Past
<1>5. DemotedOK(q)'
  BY <1>1 DEF CallOK, DemotedOK, Past
<1> QED BY <1>2, <1>3, <1>4, <1>5 DEF CallOK

-----------------------------------------------------------------------------
(* Steps that read the tables and move one request.                        *)

Tables == <<publicRegister, now, users, revoked, tokens, loggedOut>>

LEMMA QuietOK ==
  ASSUME IInv, NEW r \in Requests, NEW p \in Places, NEW c \in Calls,
         UNCHANGED Tables,
         pc' = [pc EXCEPT ![r] = p], call' = [call EXCEPT ![r] = c],
         CallOK(r)'
  PROVE  IInv'
<1>1. TypeOK'
  BY DEF IInv, TypeOK, Tables, users, tokens
<1>2. RowsKept' /\ SubsExist'
  BY DEF IInv, RowsKept, SubsExist, Tables, users, tokens
<1>3. ASSUME NEW q \in Requests, q # r
      PROVE  CallOK(q)'
  <2>1. pc'[q] = pc[q] /\ call'[q] = call[q]
    BY <1>3 DEF IInv, TypeOK
  <2>2. CallOK(q) /\ now \in Int
    BY DEF IInv, TypeOK
  <2>3. call[q].banned => disabled[OnBehalf(q)]
    BY <2>2 DEF CallOK, BannedOK
  <2> QED BY <2>1, <2>2, <2>3, BystanderOK DEF IInv, Tables, users, tokens
<1> QED BY <1>1, <1>2, <1>3 DEF IInv

LEMMA GateAsOK ==
  ASSUME IInv, NEW r \in Requests, NEW ok \in BOOLEAN, NEW p \in Places,
         NEW as, ok => as \in Roles,
         UNCHANGED Tables, GateAs(r, ok, p, as),
         ok => CallOK(r)'
  PROVE  IInv'
<1>1. CASE ok
  <2>1. [call[r] EXCEPT !.acts = as] \in Calls
    BY <1>1 DEF IInv, TypeOK, Calls
  <2> QED BY <1>1, <2>1, QuietOK DEF GateAs
<1>2. CASE ~ok
  <2>1. pc'[r] = "idle" /\ call'[r] = NoCall
    BY <1>2 DEF GateAs, IInv, TypeOK
  <2> QED BY <1>2, <2>1, QuietOK, IdleOKNext, NoCallType DEF GateAs, Places
<1> QED BY <1>1, <1>2

LEMMA BeginLoginOK ==
  ASSUME IInv, NEW r \in Requests, NEW u \in Users, BeginLogin(r, u)
  PROVE  IInv'
<1> DEFINE c == [NoCall EXCEPT !.op = "login", !.user = u, !.banned = disabled[u]]
<1>1. c \in Calls /\ c.op = "login" /\ ~c.late /\ ~c.demoted /\ c.user = u
      /\ c.banned = disabled[u]
  BY NoCallType DEF IInv, TypeOK, Calls, Ops, NoCall
<1>2. pc'[r] = "authenticate" /\ call'[r] = c
  BY DEF BeginLogin, IInv, TypeOK
<1>3. CallOK(r)'
  BY <1>1, <1>2 DEF BeginLogin, CallOK, PlaceOK, LateOK, BannedOK, DemotedOK,
                    Carries, Past, OnBehalf, users
<1> QED BY <1>1, <1>3, QuietOK DEF BeginLogin, Tables, Places

LEMMA BeginPublicRegisterOK ==
  ASSUME IInv, NEW r \in Requests, NEW u \in Users, BeginPublicRegister(r, u)
  PROVE  IInv'
<1> DEFINE c == [NoCall EXCEPT !.op = "register", !.user = u]
<1>1. c \in Calls /\ c.op = "register" /\ ~c.late /\ ~c.demoted /\ ~c.banned
  BY NoCallType DEF Calls, Ops, SessionOps, NoCall
<1>2. pc'[r] = "handler" /\ call'[r] = c
  BY DEF BeginPublicRegister, IInv, TypeOK
<1>3. CallOK(r)'
  BY <1>1, <1>2 DEF CallOK, PlaceOK, LateOK, BannedOK, DemotedOK, Carries, SessionOps
<1> QED BY <1>1, <1>3, QuietOK DEF BeginPublicRegister, Tables, Places

LEMMA BeginOK ==
  ASSUME IInv, NEW r \in Requests, NEW o \in SessionOps, NEW j \in Jtis,
         NEW u \in Users, Begin(r, o, j, u)
  PROVE  IInv'
<1> DEFINE c == [op |-> o, jti |-> j, user |-> u, acts |-> "member",
                 late |-> j \in loggedOut, banned |-> disabled[sub[j]],
                 demoted |-> role[sub[j]] # "admin"]
<1>1. c \in Calls /\ o # "login"
  BY DEF IInv, TypeOK, Calls, Ops, SessionOps, Roles
<1>2. pc'[r] = "verify" /\ call'[r] = c
  BY DEF Begin, IInv, TypeOK
<1>3. sub[j] \in Users /\ role[sub[j]] \in Roles
  BY DEF Begin, IInv, TypeOK, SubsExist
<1>4. PlaceOK(r)' /\ LateOK(r)'
  <2>1. PlaceOK(r)'
    BY <1>1, <1>2 DEF Begin, PlaceOK, Carries, tokens
  <2>2. ~Admitted(r)'
    BY <1>2 DEF Admitted
  <2>3. call'[r].late => j \in loggedOut
    <3>1. c.late => j \in loggedOut
      OBVIOUS
    <3> QED BY <1>2, <3>1
  <2>4. call'[r].jti = j /\ loggedOut' = loggedOut
    BY <1>2 DEF Begin
  <2>5. LateOK(r)'
    BY <2>2, <2>3, <2>4 DEF LateOK
  <2> QED BY <2>1, <2>5
<1>5. BannedOK(r)'
  BY <1>1, <1>2 DEF Begin, BannedOK, OnBehalf, Past, users, tokens
<1>6. DemotedOK(r)'
  <2>1. ~Past(r)' /\ call'[r].op # "login" /\ call'[r].jti = j
        /\ j \in issued'
    BY <1>1, <1>2 DEF Begin, Past, tokens
  <2>2. call'[r].demoted => role[sub[j]] # "admin"
    <3>1. c.demoted => role[sub[j]] # "admin"
      OBVIOUS
    <3> QED BY <1>2, <3>1
  <2>3. call'[r].demoted => role'[sub'[j]] = "member"
    BY <1>3, <2>2 DEF Begin, users, tokens, Roles
  <2> QED BY <2>1, <2>3 DEF DemotedOK
<1> QED BY <1>1, <1>4, <1>5, <1>6, QuietOK DEF Begin, CallOK, Tables, Places

LEMMA AuthenticateOK ==
  ASSUME IInv, NEW r \in Requests, NEW passwordOk \in BOOLEAN,
         Authenticate(r, passwordOk)
  PROVE  IInv'
<1> DEFINE u == call[r].user
           ok == role[u] # "absent" /\ ~disabled[u] /\ passwordOk
<1>1. ok \in BOOLEAN /\ (ok => role[u] \in Roles)
  BY DEF IInv, TypeOK, Calls
<1>2. ASSUME ok PROVE CallOK(r)'
  <2>1. /\ pc'[r] = "issue"
        /\ call'[r] = [call[r] EXCEPT !.acts = role[u]]
        /\ call[r] \in Calls /\ call[r].op = "login"
    BY <1>2 DEF Authenticate, GateAs, IInv, TypeOK, CallOK, PlaceOK
  <2> QED BY <1>2, <2>1 DEF Authenticate, IInv, CallOK, PlaceOK, LateOK, BannedOK,
            DemotedOK, Carries, Past, OnBehalf, Admitted, users, tokens, Calls
<1> QED BY <1>1, <1>2, GateAsOK DEF Authenticate, Tables, Places

LEMMA VerifyOK ==
  ASSUME IInv, NEW r \in Requests, Verify(r)
  PROVE  IInv'
<1> DEFINE j == call[r].jti
<1>1. /\ call[r] \in Calls /\ j \in issued /\ claim[j] \in Roles
      /\ call[r].op \in SessionOps
      /\ now \in Int /\ exp[j] \in Int
  BY DEF IInv, TypeOK, Verify, CallOK, PlaceOK, Carries, Calls
<1>2. Verifies(j) => (call[r].late => exp[j] < now)
  BY <1>1 DEF IInv, RowsKept, CallOK, LateOK, Verifies
<1>3. CASE call[r].op = "register"
  <2> DEFINE ok == Verifies(j) /\ claim[j] = "admin"
  <2>1. GateAs(r, ok, "handler", claim[j])
    BY <1>3 DEF Verify
  <2>2. ok \in BOOLEAN
    BY DEF Verifies
  <2>3. ASSUME ok PROVE CallOK(r)'
    <3>1. /\ pc'[r] = "handler"
          /\ call'[r] = [call[r] EXCEPT !.acts = claim[j]]
      BY <2>1, <2>3 DEF GateAs, IInv, TypeOK
    <3> QED BY <1>1, <1>2, <1>3, <2>3, <3>1 DEF Verify, IInv, CallOK, PlaceOK,
              LateOK, BannedOK, DemotedOK, Carries, Past, OnBehalf, Admitted,
              users, tokens, Calls
  <2> QED BY <1>1, <2>1, <2>2, <2>3, GateAsOK DEF Verify, Tables, Places
<1>4. CASE call[r].op # "register"
  <2>1. GateAs(r, Verifies(j), "row", claim[j])
    BY <1>4 DEF Verify
  <2>2. Verifies(j) \in BOOLEAN
    BY DEF Verifies
  <2>3. ASSUME Verifies(j) PROVE CallOK(r)'
    <3>1. /\ pc'[r] = "row"
          /\ call'[r] = [call[r] EXCEPT !.acts = claim[j]]
      BY <2>1, <2>3 DEF GateAs, IInv, TypeOK
    <3> QED BY <1>1, <1>2, <1>4, <2>3, <3>1 DEF Verify, IInv, CallOK, PlaceOK,
              LateOK, BannedOK, DemotedOK, Carries, Past, OnBehalf, Admitted,
              users, tokens, Calls
  <2> QED BY <1>1, <2>1, <2>2, <2>3, GateAsOK DEF Verify, Tables, Places
<1> QED BY <1>3, <1>4

LEMMA ReadRowOK ==
  ASSUME IInv, NEW r \in Requests, ReadRow(r)
  PROVE  IInv'
<1> DEFINE u == sub[call[r].jti]
           ok == /\ role[u] # "absent" /\ ~disabled[u]
                 /\ AdminRoute(r) => role[u] = "admin"
<1>1. /\ call[r] \in Calls /\ call[r].jti \in issued
      /\ call[r].op \in SessionOps /\ call[r].op # "login"
  BY DEF IInv, TypeOK, ReadRow, CallOK, PlaceOK, Carries, SessionOps
<1>2. u \in Users /\ ok \in BOOLEAN /\ (ok => role[u] \in Roles)
  BY <1>1 DEF IInv, TypeOK
<1>3. ASSUME ok PROVE CallOK(r)'
  <2>1. /\ pc'[r] = "handler"
        /\ call'[r] = [call[r] EXCEPT !.acts = role[u]]
    BY <1>3 DEF ReadRow, GateAs, IInv, TypeOK
  <2>2. ~call[r].banned
    BY <1>1, <1>3 DEF IInv, CallOK, BannedOK, OnBehalf
  <2> QED BY <1>1, <1>3, <2>1, <2>2 DEF ReadRow, IInv, CallOK, PlaceOK, LateOK,
            BannedOK, DemotedOK, Carries, Past, OnBehalf, Admitted, users, tokens,
            Calls
<1> QED BY <1>2, <1>3, GateAsOK DEF ReadRow, Tables, Places

LEMMA UseOK ==
  ASSUME IInv, NEW r \in Requests, Use(r)
  PROVE  IInv'
<1>1. pc'[r] = "idle" /\ call'[r] = NoCall
  BY DEF Use, Answer, IInv, TypeOK
<1> QED BY <1>1, IdleOKNext, QuietOK, NoCallType DEF Use, Answer, Tables, Places

LEMMA RevokeFailsOK ==
  ASSUME IInv, NEW r \in Requests, RevokeFails(r)
  PROVE  IInv'
<1>1. pc'[r] = "idle" /\ call'[r] = NoCall
  BY DEF RevokeFails, Answer, IInv, TypeOK
<1> QED BY <1>1, IdleOKNext, QuietOK, NoCallType DEF RevokeFails, Answer, Tables, Places

LEMMA LogoutVerifyOK ==
  ASSUME IInv, NEW r \in Requests, LogoutVerify(r)
  PROVE  IInv'
<1>1. /\ call[r] \in Calls /\ call[r].op = "logout" /\ pc[r] = "handler"
      /\ call \in [Requests -> Calls] /\ pc \in [Requests -> Places]
  BY DEF IInv, TypeOK, LogoutVerify, InHandler
<1>2. CASE Verifies(call[r].jti)
  <2>1. pc' = [pc EXCEPT ![r] = "revoke"] /\ call' = [call EXCEPT ![r] = call[r]]
    BY <1>1, <1>2 DEF LogoutVerify, Gate
  <2>2. pc'[r] = "revoke" /\ call'[r] = call[r]
    BY <1>1, <2>1
  <2>3. CallOK(r)'
    BY <1>1, <2>2 DEF LogoutVerify, IInv, CallOK, PlaceOK, LateOK, BannedOK,
         DemotedOK, Carries, Past, OnBehalf, Admitted, users, tokens
  <2> QED BY <1>1, <2>1, <2>3, QuietOK DEF LogoutVerify, Tables, Places
<1>3. CASE ~Verifies(call[r].jti)
  <2>1. pc'[r] = "idle" /\ call'[r] = NoCall
    BY <1>1, <1>3 DEF LogoutVerify, Gate
  <2> QED BY <1>3, <2>1, IdleOKNext, QuietOK, NoCallType
          DEF LogoutVerify, Gate, Tables, Places
<1> QED BY <1>2, <1>3

-----------------------------------------------------------------------------
(* Steps that change the tables or the clock.                              *)

(* In all of them the request that moves, if any, is answered.             *)
LEMMA AnswerType ==
  ASSUME TypeOK, NEW r \in Requests, Answer(r)
  PROVE  /\ pc' \in [Requests -> Places] /\ call' \in [Requests -> Calls]
         /\ pc'[r] = "idle" /\ call'[r] = NoCall
         /\ \A q \in Requests \ {r} : pc'[q] = pc[q] /\ call'[q] = call[q]
BY NoCallType DEF TypeOK, Answer, Places

(* What the flags of a request say of the tables.                          *)
LEMMA FlagsOK ==
  ASSUME IInv, NEW q \in Requests
  PROVE  /\ OnBehalf(q) \in Users /\ sub[call[q].jti] \in Users
         /\ call[q].banned => disabled[OnBehalf(q)]
         /\ call[q].demoted => /\ OnBehalf(q) = sub[call[q].jti]
                               /\ role[sub[call[q].jti]] = "member"
  BY DEF IInv, TypeOK, Calls, CallOK, BannedOK, DemotedOK, OnBehalf

LEMMA IssueTokenOK ==
  ASSUME IInv, NEW r \in Requests, NEW j \in Jtis, IssueToken(r, j)
  PROVE  IInv'
<1>1. /\ call[r] \in Calls /\ call[r].op = "login"
      /\ role[call[r].user] # "absent" /\ j \notin issued
      /\ now \in Nat /\ now + TTL \in Nat
  <2>1. j \notin issued
    <3>1. \E t \in Jtis \ issued : TRUE
      BY DEF IssueToken, IInv, TypeOK
    <3> QED BY <3>1 DEF IssueToken
  <2> QED BY <2>1, TimesAssumption
          DEF IInv, TypeOK, IssueToken, CallOK, PlaceOK
<1>2. TypeOK'
  BY <1>1, AnswerType DEF IInv, TypeOK, IssueToken, users, Calls
<1>3. RowsKept' /\ SubsExist'
  BY <1>1 DEF IInv, TypeOK, RowsKept, SubsExist, IssueToken, users
<1>4. ASSUME NEW q \in Requests, q # r
      PROVE  CallOK(q)'
  <2>1. pc'[q] = pc[q] /\ call'[q] = call[q]
    BY <1>4, AnswerType DEF IInv, IssueToken
  <2>2. \A i \in issued : sub'[i] = sub[i] /\ exp'[i] = exp[i]
    BY <1>1 DEF IssueToken, IInv, TypeOK
  <2> QED BY <1>1, <2>1, <2>2, FlagsOK, BystanderOK DEF IInv, IssueToken, users
<1> QED BY <1>2, <1>3, <1>4, AnswerType, IdleOKNext DEF IInv, IssueToken

LEMMA RevokeOK ==
  ASSUME IInv, NEW r \in Requests, Revoke(r)
  PROVE  IInv'
<1>1. call[r].jti \in issued
  BY DEF IInv, Revoke, CallOK, PlaceOK, Carries
<1>2. TypeOK'
  BY <1>1, AnswerType DEF IInv, TypeOK, Revoke, users, tokens
<1>3. RowsKept' /\ SubsExist'
  BY <1>1 DEF IInv, TypeOK, RowsKept, SubsExist, Revoke, users, tokens
<1>4. ASSUME NEW q \in Requests, q # r
      PROVE  CallOK(q)'
  <2>1. pc'[q] = pc[q] /\ call'[q] = call[q] /\ now \in Int
    BY <1>4, AnswerType DEF IInv, Revoke, TypeOK
  <2> QED BY <2>1, FlagsOK, BystanderOK DEF IInv, Revoke, users, tokens
<1> QED BY <1>2, <1>3, <1>4, AnswerType, IdleOKNext DEF IInv, Revoke

LEMMA RegisterOK ==
  ASSUME IInv, NEW r \in Requests, NEW asked \in Roles, Register(r, asked)
  PROVE  IInv'
<1> DEFINE u == call[r].user
<1>1. u \in Users /\ role' \in [Users -> Roles \cup {"absent"}]
      /\ \A v \in Users : role[v] # "absent" => role'[v] = role[v]
  BY DEF IInv, TypeOK, Register, Calls, Roles
<1>2. TypeOK'
  BY <1>1, AnswerType DEF IInv, TypeOK, Register, tokens
<1>3. RowsKept' /\ SubsExist'
  BY <1>1 DEF IInv, TypeOK, RowsKept, SubsExist, Register, tokens
<1>4. ASSUME NEW q \in Requests, q # r
      PROVE  CallOK(q)'
  <2>1. pc'[q] = pc[q] /\ call'[q] = call[q] /\ now \in Int
    BY <1>4, AnswerType DEF IInv, Register, TypeOK
  <2> QED BY <1>1, <2>1, FlagsOK, BystanderOK DEF IInv, Register, tokens
<1> QED BY <1>2, <1>3, <1>4, AnswerType, IdleOKNext DEF IInv, Register

(* f is call, but for flags cleared of the requests of account u.          *)
Clears(f, u, unbanned, promoted) ==
  /\ f \in [Requests -> Calls]
  /\ \A q \in Requests :
       /\ f[q].op = call[q].op /\ f[q].jti = call[q].jti
       /\ f[q].user = call[q].user
       /\ f[q].acts = call[q].acts /\ f[q].late = call[q].late
       /\ f[q].banned => call[q].banned /\ (OnBehalf(q) = u => ~unbanned)
       /\ f[q].demoted => call[q].demoted /\ (OnBehalf(q) = u => ~promoted)

(* Clearing flags changes nothing else of a request.                       *)
LEMMA ForgivenType ==
  ASSUME TypeOK, NEW u \in Users, NEW unbanned \in BOOLEAN,
         NEW promoted \in BOOLEAN
  PROVE  Clears(Forgiven(call, u, unbanned, promoted), u, unbanned, promoted)
<1> DEFINE f == Forgiven(call, u, unbanned, promoted)
<1>1. ASSUME NEW q \in Requests
      PROVE  /\ f[q] \in Calls
             /\ f[q].op = call[q].op /\ f[q].jti = call[q].jti
             /\ f[q].user = call[q].user
             /\ f[q].acts = call[q].acts /\ f[q].late = call[q].late
             /\ f[q].banned => call[q].banned /\ (OnBehalf(q) = u => ~unbanned)
             /\ f[q].demoted => call[q].demoted /\ (OnBehalf(q) = u => ~promoted)
  <2>1. call[q] \in Calls
    BY DEF TypeOK
  <2>2. CASE OnBehalf(q) = u
    <3>1. f[q] = [call[q] EXCEPT !.banned = call[q].banned /\ ~unbanned,
                                 !.demoted = call[q].demoted /\ ~promoted]
      BY <2>1, <2>2 DEF Forgiven, Calls
    <3>2. call[q].banned \in BOOLEAN /\ call[q].demoted \in BOOLEAN
      BY <2>1 DEF Calls
    <3> HIDE DEF f
    <3>3. f[q] \in Calls
      BY <2>1, <3>1, <3>2 DEF Calls
    <3>4. f[q].banned = (call[q].banned /\ ~unbanned)
      BY <2>1, <3>1 DEF Calls
    <3>5. f[q].demoted = (call[q].demoted /\ ~promoted)
      BY <2>1, <3>1 DEF Calls
    <3>6. /\ f[q].op = call[q].op /\ f[q].jti = call[q].jti
          /\ f[q].user = call[q].user
          /\ f[q].acts = call[q].acts /\ f[q].late = call[q].late
      BY <2>1, <3>1 DEF Calls
    <3> QED BY <3>3, <3>4, <3>5, <3>6
  <2>3. CASE OnBehalf(q) # u
    <3>1. f[q] = call[q]
      BY <2>3 DEF Forgiven
    <3> QED BY <2>1, <2>3, <3>1
  <2> QED BY <2>2, <2>3
<1>2. f = [q \in Requests |-> f[q]]
  BY DEF Forgiven
<1> HIDE DEF f
<1>3. f \in [Requests -> Calls]
  BY <1>1, <1>2
<1>4. Clears(f, u, unbanned, promoted)
  BY <1>1, <1>3 DEF Clears
<1> QED BY <1>4 DEF f

LEMMA SetUserDisabledOK ==
  ASSUME IInv, NEW r \in Requests, NEW flag \in BOOLEAN, SetUserDisabled(r, flag)
  PROVE  IInv'
<1> DEFINE u == call[r].user
           f == Forgiven(call, u, ~flag, FALSE)
<1>1. /\ u \in Users /\ disabled' \in [Users -> BOOLEAN]
      /\ \A v \in Users : disabled[v] => disabled'[v] \/ (v = u /\ ~flag)
  BY DEF IInv, TypeOK, SetUserDisabled, Calls
<1>2. Clears(f, u, ~flag, FALSE)
  BY <1>1, ForgivenType DEF IInv
<1>3. call' = [f EXCEPT ![r] = NoCall] /\ pc' = [pc EXCEPT ![r] = "idle"]
  BY DEF SetUserDisabled
<1> HIDE DEF f
<1>4. /\ pc'[r] = "idle" /\ call'[r] = NoCall
      /\ pc' \in [Requests -> Places] /\ call' \in [Requests -> Calls]
  BY <1>2, <1>3, NoCallType DEF IInv, TypeOK, Places, Clears
<1>5. TypeOK' /\ RowsKept' /\ SubsExist'
  BY <1>1, <1>4 DEF IInv, TypeOK, RowsKept, SubsExist, SetUserDisabled, tokens
<1>6. ASSUME NEW q \in Requests, q # r
      PROVE  CallOK(q)'
  <2>1. pc'[q] = pc[q] /\ call'[q] = f[q] /\ now \in Int
    BY <1>2, <1>3, <1>6 DEF IInv, TypeOK, Clears
  <2>2. call'[q].banned => call[q].banned /\ disabled'[OnBehalf(q)]
    BY <1>1, <1>2, <2>1, FlagsOK DEF Clears
  <2>3. call'[q].demoted => call[q].demoted
    BY <1>2, <2>1 DEF Clears
  <2>4. /\ call'[q].op = call[q].op /\ call'[q].jti = call[q].jti
        /\ call'[q].user = call[q].user /\ call'[q].acts = call[q].acts
        /\ call'[q].late = call[q].late
    BY <1>2, <2>1 DEF Clears
  <2>5. /\ publicRegister' = publicRegister /\ now' = now /\ role' = role
        /\ issued' = issued /\ loggedOut' = loggedOut
        /\ sub' = sub /\ exp' = exp
    BY DEF SetUserDisabled, tokens
  <2> QED BY <1>1, <2>1, <2>2, <2>3, <2>4, <2>5, BystanderOK DEF IInv
<1> QED BY <1>4, <1>5, <1>6, IdleOKNext DEF IInv

LEMMA SetRoleOK ==
  ASSUME IInv, NEW u \in Users, NEW to \in Roles, SetRole(u, to)
  PROVE  IInv'
<1> DEFINE f == Forgiven(call, u, FALSE, to = "admin")
<1>1. /\ role' \in [Users -> Roles \cup {"absent"}]
      /\ \A v \in Users : role[v] # "absent" => role'[v] # "absent"
      /\ \A v \in Users : v # u => role'[v] = role[v]
      /\ role'[u] = to
  BY DEF IInv, TypeOK, SetRole, Roles
<1>2. Clears(f, u, FALSE, to = "admin")
  BY ForgivenType DEF IInv
<1>3. call' = f
  BY DEF SetRole
<1> HIDE DEF f
<1>4. TypeOK' /\ RowsKept' /\ SubsExist'
  BY <1>1, <1>2, <1>3 DEF IInv, TypeOK, RowsKept, SubsExist, SetRole, tokens, Clears
<1>5. ASSUME NEW q \in Requests
      PROVE  CallOK(q)'
  <2>1. pc'[q] = pc[q] /\ call'[q] = f[q] /\ now \in Int
    <3>1. pc' = pc
      BY DEF SetRole
    <3> QED BY <1>3, <3>1 DEF IInv, TypeOK
  <2>2. call'[q].demoted =>
          call[q].demoted /\ role'[sub[call[q].jti]] = role[sub[call[q].jti]]
    BY <1>1, <1>2, <2>1, FlagsOK DEF Roles, Clears
  <2>3. call'[q].banned => call[q].banned /\ disabled'[OnBehalf(q)]
    <3>1. disabled' = disabled /\ sub' = sub
      BY DEF SetRole, tokens
    <3>2. call'[q].op = call[q].op /\ call'[q].user = call[q].user
          /\ call'[q].jti = call[q].jti /\ (call'[q].banned => call[q].banned)
      BY <1>2, <2>1 DEF Clears
    <3> QED BY <3>1, <3>2, FlagsOK DEF OnBehalf
  <2>4. /\ call'[q].op = call[q].op /\ call'[q].jti = call[q].jti
        /\ call'[q].user = call[q].user /\ call'[q].acts = call[q].acts
        /\ call'[q].late = call[q].late
    BY <1>2, <2>1 DEF Clears
  <2>5. /\ publicRegister' = publicRegister /\ now' = now
        /\ issued' = issued /\ loggedOut' = loggedOut
        /\ sub' = sub /\ exp' = exp
    BY DEF SetRole, tokens
  <2> QED BY <1>1, <2>1, <2>2, <2>3, <2>4, <2>5, BystanderOK DEF IInv
<1> QED BY <1>4, <1>5 DEF IInv

LEMMA TickOK == IInv /\ Tick => IInv'
<1> SUFFICES ASSUME IInv, Tick PROVE IInv'
  OBVIOUS
<1>1. TypeOK' /\ RowsKept' /\ SubsExist'
  BY TimesAssumption DEF IInv, TypeOK, RowsKept, SubsExist, Tick, users, tokens
<1>2. now <= now' /\ now' \in Int
  BY DEF IInv, TypeOK, Tick
<1>3. ASSUME NEW q \in Requests
      PROVE  CallOK(q)'
  BY <1>2, FlagsOK, BystanderOK DEF IInv, Tick, users, tokens
<1> QED BY <1>1, <1>3 DEF IInv

LEMMA RestartOK == IInv /\ Restart => IInv'
<1> SUFFICES ASSUME IInv, Restart PROVE IInv'
  OBVIOUS
<1>1. \A q \in Requests : pc'[q] = "idle" /\ call'[q] = NoCall
  BY DEF Restart
<1>2. TypeOK' /\ RowsKept' /\ SubsExist'
  BY NoCallType
     DEF IInv, TypeOK, RowsKept, SubsExist, Restart, users, tokens, Places
<1> QED BY <1>1, <1>2, IdleOKNext DEF IInv

LEMMA NextOK == IInv /\ [Next]_vars => IInv'
<1> SUFFICES ASSUME IInv, [Next]_vars PROVE IInv'
  OBVIOUS
<1>1. ASSUME NEW r \in Requests, NEW u \in Users,
             BeginLogin(r, u) \/ BeginPublicRegister(r, u)
      PROVE  IInv'
  BY <1>1, BeginLoginOK, BeginPublicRegisterOK
<1>2. ASSUME NEW r \in Requests, NEW o \in SessionOps, NEW j \in Jtis,
             NEW u \in Users, Begin(r, o, j, u)
      PROVE  IInv'
  BY <1>2, BeginOK
<1>3. ASSUME NEW r \in Requests, Step(r)
      PROVE  IInv'
  BY <1>3, AuthenticateOK, IssueTokenOK, VerifyOK, ReadRowOK, UseOK,
     SetUserDisabledOK, RegisterOK, LogoutVerifyOK, RevokeOK,
     RevokeFailsOK DEF Step
<1>4. CASE UNCHANGED vars
  <2>1. TypeOK' /\ RowsKept' /\ SubsExist'
    BY <1>4 DEF IInv, TypeOK, RowsKept, SubsExist, vars, users, tokens
  <2>2. \A q \in Requests : CallOK(q)'
    BY <1>4 DEF IInv, CallOK, PlaceOK, LateOK, BannedOK, DemotedOK, Carries, Past,
                OnBehalf, Admitted, vars, users, tokens
  <2> QED BY <2>1, <2>2 DEF IInv
<1> QED BY <1>1, <1>2, <1>3, <1>4, SetRoleOK, TickOK, RestartOK DEF Next

LEMMA Inductive == Spec => []IInv
BY InitOK, NextOK, PTL DEF Spec

-----------------------------------------------------------------------------
(* Every variable keeps its type, and only logged-out tokens of accounts   *)
(* that exist are in revoked_jti.                                          *)
THEOREM TypeCorrect == Spec => []TypeOK
<1>1. IInv => TypeOK
  BY DEF IInv
<1> QED BY <1>1, Inductive, PTL

(* However many sessions log out and purge the table in between, no        *)
(* request that begins after the logout of its session is let in before    *)
(* the token's exp.                                                        *)
THEOREM LogoutHolds == Spec => []LogoutHoldsUntilExpiry
<1>1. IInv => LogoutHoldsUntilExpiry
  BY DEF IInv, CallOK, LateOK, LogoutHoldsUntilExpiry
<1> QED BY <1>1, Inductive, PTL

(* No request a disabled account begins reaches a handler behind           *)
(* require_auth, and no login of it gets a token.                          *)
THEOREM DisablingHolds == Spec => []DisabledTakesEffect
<1>1. IInv => DisabledTakesEffect
  BY DEF IInv, CallOK, BannedOK, Past, DisabledTakesEffect
<1> QED BY <1>1, Inductive, PTL

(* No request begun after its account lost the admin role acts as an admin *)
(* behind require_auth.                                                    *)
THEOREM DemotionHolds == Spec => []DemotionTakesEffect
<1>1. IInv => DemotionTakesEffect
  BY DEF IInv, CallOK, DemotedOK, Past, DemotionTakesEffect
<1> QED BY <1>1, Inductive, PTL
=============================================================================
