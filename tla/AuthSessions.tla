---------------------------- MODULE AuthSessions ----------------------------
(***************************************************************************)
(* JWT sessions of the gateway (crates/auth/src/lib.rs and                 *)
(* crates/gateway/src/auth_routes.rs, AUTH_MODE=jwt): login, register,     *)
(* logout, and every route behind require_auth, against the two SQLite     *)
(* tables users and revoked_jti.  Each call of AuthService locks the       *)
(* connection for itself, so requests interleave between calls: between    *)
(* authenticate and issue_token, between the look-up of the jti and the    *)
(* re-read of the user row, between that row and the handler.              *)
(*                                                                         *)
(* A token is its jti: sub, claim and exp are the claims it was issued     *)
(* with.  jsonwebtoken is external: decode accepts a token until Leeway    *)
(* after its exp (Validation::default()).  Time is in any unit; passwords  *)
(* are right or wrong; cookies and bearer headers are not told apart.      *)
(***************************************************************************)
EXTENDS Integers, FiniteSets

CONSTANTS
  Users,     \* accounts that exist or may be registered
  Admin,     \* the account bootstrap_admin_if_empty created
  Jtis,      \* tokens that may be issued
  Requests,  \* connections, each carrying one request after another
  TTL,       \* jwt_ttl_secs
  Leeway,    \* leeway of Validation::default() on exp: 60 s
  MaxNow     \* bound on the clock

ASSUME AdminAssumption == Admin \in Users
ASSUME JtisAssumption == Jtis # {}
ASSUME TimesAssumption == TTL \in Nat /\ Leeway \in Nat /\ MaxNow \in Nat

VARIABLES
  publicRegister,  \* allow_public_register; fixed when the process starts
  now,             \* the clock, in the unit of exp
  role,            \* users.role, "absent" where there is no row
  disabled,        \* users.disabled
  revoked,         \* the jtis in revoked_jti
  issued,          \* jtis of the tokens handed out so far
  sub, claim, exp, \* their claims: sub, role, exp
  pc,              \* where each request is
  call,            \* the request: its route and the locals of its handler
  loggedOut        \* history: jtis whose logout wrote its row

users == <<role, disabled>>
tokens == <<issued, sub, claim, exp>>
vars == <<publicRegister, now, users, revoked, tokens, pc, call, loggedOut>>

-----------------------------------------------------------------------------
Roles == {"admin", "member"}

(* "use" is any route that only reads through AuthUser.                    *)
SessionOps == {"register", "use", "set_disabled", "logout"}
Ops == {"none", "login"} \cup SessionOps

Places == {"idle", "authenticate", "issue", "verify", "row",
           "handler", "revoke"}

(* jti: the token it carries.  user: the account it names.  acts: the role *)
(* its handler sees.  History: late, it began after its token was logged   *)
(* out; banned (demoted), the account it acts for has been disabled        *)
(* (without the admin role) ever since it began.                           *)
Calls == [op : Ops, jti : Jtis, user : Users, acts : Roles,
          late : BOOLEAN, banned : BOOLEAN, demoted : BOOLEAN]

AnyJti == CHOOSE j \in Jtis : TRUE

NoCall == [op |-> "none", jti |-> AnyJti, user |-> Admin, acts |-> "member",
           late |-> FALSE, banned |-> FALSE, demoted |-> FALSE]

TypeOK ==
  /\ publicRegister \in BOOLEAN
  /\ now \in 0..MaxNow
  /\ role \in [Users -> Roles \cup {"absent"}]
  /\ disabled \in [Users -> BOOLEAN]
  /\ revoked \subseteq loggedOut /\ loggedOut \subseteq issued /\ issued \subseteq Jtis
  /\ sub \in [Jtis -> Users] /\ claim \in [Jtis -> Roles] /\ exp \in [Jtis -> Nat]
  /\ pc \in [Requests -> Places]
  /\ call \in [Requests -> Calls]

(* An empty database gets its one admin; nobody is logged in.              *)
Init ==
  /\ publicRegister \in BOOLEAN
  /\ now = 0
  /\ role = [u \in Users |-> IF u = Admin THEN "admin" ELSE "absent"]
  /\ disabled = [u \in Users |-> FALSE]
  /\ revoked = {} /\ issued = {} /\ loggedOut = {}
  /\ sub = [j \in Jtis |-> Admin]
  /\ claim = [j \in Jtis |-> "member"]
  /\ exp = [j \in Jtis |-> 0]
  /\ pc = [r \in Requests |-> "idle"]
  /\ call = [r \in Requests |-> NoCall]

-----------------------------------------------------------------------------
(* r goes on to place if ok, and is answered otherwise.                    *)
Gate(r, ok, place) ==
  /\ pc' = [pc EXCEPT ![r] = IF ok THEN place ELSE "idle"]
  /\ call' = [call EXCEPT ![r] = IF ok THEN @ ELSE NoCall]

(* The same for a handler that has just learnt the role it acts with.      *)
GateAs(r, ok, place, as) ==
  /\ pc' = [pc EXCEPT ![r] = IF ok THEN place ELSE "idle"]
  /\ call' = [call EXCEPT ![r] = IF ok THEN [@ EXCEPT !.acts = as] ELSE NoCall]

(* The account r acts for.                                                 *)
OnBehalf(r) == IF call[r].op = "login" THEN call[r].user ELSE sub[call[r].jti]

(* r is answered, and of the requests of account u history forgets that it *)
(* was disabled, or that it was no admin.                                  *)
Answer(r) ==
  /\ pc' = [pc EXCEPT ![r] = "idle"]
  /\ call' = [call EXCEPT ![r] = NoCall]

Forgiven(c, u, unbanned, promoted) ==
  [q \in Requests |->
     IF OnBehalf(q) = u
     THEN [c[q] EXCEPT !.banned = @ /\ ~unbanned, !.demoted = @ /\ ~promoted]
     ELSE c[q]]

-----------------------------------------------------------------------------
(* A login or a public registration, POST /api/auth/.., arrives.           *)
BeginLogin(r, u) ==
  /\ pc[r] = "idle"
  /\ pc' = [pc EXCEPT ![r] = "authenticate"]
  /\ call' = [call EXCEPT ![r] =
                [NoCall EXCEPT !.op = "login", !.user = u, !.banned = disabled[u]]]
  /\ UNCHANGED <<publicRegister, now, users, revoked, tokens, loggedOut>>

(* Where registration is public, register makes nothing of a token.        *)
BeginPublicRegister(r, u) ==
  /\ publicRegister
  /\ pc[r] = "idle"
  /\ pc' = [pc EXCEPT ![r] = "handler"]
  /\ call' = [call EXCEPT ![r] = [NoCall EXCEPT !.op = "register", !.user = u]]
  /\ UNCHANGED <<publicRegister, now, users, revoked, tokens, loggedOut>>

(* A request that carries token j arrives; u is the account it names.      *)
Begin(r, o, j, u) ==
  /\ pc[r] = "idle"
  /\ j \in issued
  /\ o = "register" => ~publicRegister
  /\ o \in {"use", "logout"} => u = sub[j]
  /\ call' = [call EXCEPT ![r] =
                [op |-> o, jti |-> j, user |-> u, acts |-> "member",
                 late |-> j \in loggedOut, banned |-> disabled[sub[j]],
                 demoted |-> role[sub[j]] # "admin"]]
  /\ pc' = [pc EXCEPT ![r] = "verify"]
  /\ UNCHANGED <<publicRegister, now, users, revoked, tokens, loggedOut>>

-----------------------------------------------------------------------------
(* Fault: an unknown name is let through.                                  *)
AuthenticateUnknown(r, passwordOk) ==
  /\ pc[r] = "authenticate"
  /\ LET u == call[r].user IN
     GateAs(r, ~disabled[u] /\ passwordOk, "issue", role[u])
  /\ UNCHANGED <<publicRegister, now, users, revoked, tokens, loggedOut>>

(* login: authenticate checks the row and the password.                    *)
Authenticate(r, passwordOk) ==
  /\ pc[r] = "authenticate"
  /\ LET u == call[r].user IN
     GateAs(r, role[u] # "absent" /\ ~disabled[u] /\ passwordOk, "issue", role[u])
  /\ UNCHANGED <<publicRegister, now, users, revoked, tokens, loggedOut>>

(* issue_token: the claims are those of the row authenticate read.         *)
(* Which fresh jti the token gets makes no difference.                     *)
IssueToken(r, j) ==
  /\ pc[r] = "issue"
  /\ issued # Jtis
  /\ j = CHOOSE t \in Jtis \ issued : TRUE
  /\ issued' = issued \cup {j}
  /\ sub' = [sub EXCEPT ![j] = call[r].user]
  /\ claim' = [claim EXCEPT ![j] = call[r].acts]
  /\ exp' = [exp EXCEPT ![j] = now + TTL]
  /\ Answer(r)
  /\ UNCHANGED <<publicRegister, now, users, revoked, loggedOut>>

-----------------------------------------------------------------------------
(* verify_token: signature and exp, then the look-up in revoked_jti.  One  *)
(* step: a tick in between would matter only to a token past its exp.      *)
Verifies(j) == now <= exp[j] + Leeway /\ j \notin revoked

(* extract_claims.  register is not behind require_auth: its caller's role *)
(* is the token's claim.  Every other route goes on to the row.            *)
Verify(r) ==
  /\ pc[r] = "verify"
  /\ LET j == call[r].jti IN
     \/ /\ call[r].op = "register"
        /\ GateAs(r, Verifies(j) /\ claim[j] = "admin", "handler", claim[j])
     \/ /\ call[r].op # "register"
        /\ GateAs(r, Verifies(j), "row", claim[j])
  /\ UNCHANGED <<publicRegister, now, users, revoked, tokens, loggedOut>>

AdminRoute(r) == call[r].op = "set_disabled"

(* Faults: require_auth keeps the role of the token; it does not look at   *)
(* the disabled flag.                                                      *)
ReadRowTrustingClaim(r) ==
  /\ pc[r] = "row"
  /\ LET u == sub[call[r].jti]
         as == call[r].acts
     IN GateAs(r, /\ role[u] # "absent" /\ ~disabled[u]
                  /\ AdminRoute(r) => as = "admin", "handler", as)
  /\ UNCHANGED <<publicRegister, now, users, revoked, tokens, loggedOut>>

ReadRowIgnoringDisabled(r) ==
  /\ pc[r] = "row"
  /\ LET u == sub[call[r].jti] IN
     GateAs(r, /\ role[u] # "absent"
               /\ AdminRoute(r) => role[u] = "admin", "handler", role[u])
  /\ UNCHANGED <<publicRegister, now, users, revoked, tokens, loggedOut>>

(* require_auth re-reads the row of the token's user; require_admin, on    *)
(* the admin routes, looks at the role found there.                        *)
ReadRow(r) ==
  /\ pc[r] = "row"
  /\ LET u == sub[call[r].jti] IN
     GateAs(r, /\ role[u] # "absent" /\ ~disabled[u]
               /\ AdminRoute(r) => role[u] = "admin", "handler", role[u])
  /\ UNCHANGED <<publicRegister, now, users, revoked, tokens, loggedOut>>

-----------------------------------------------------------------------------
(* The handlers.                                                           *)
InHandler(r, o) == pc[r] = "handler" /\ call[r].op = o

Use(r) ==
  /\ InHandler(r, "use")
  /\ Answer(r)
  /\ UNCHANGED <<publicRegister, now, users, revoked, tokens, loggedOut>>

(* set_user_disabled: an unknown id is NOT_FOUND.                          *)
SetUserDisabled(r, flag) ==
  /\ InHandler(r, "set_disabled")
  /\ LET u == call[r].user IN
     /\ disabled' = [disabled EXCEPT ![u] = IF role[u] = "absent" THEN @ ELSE flag]
     /\ call' = [Forgiven(call, u, ~flag, FALSE) EXCEPT ![r] = NoCall]
  /\ pc' = [pc EXCEPT ![r] = "idle"]
  /\ UNCHANGED <<publicRegister, now, role, revoked, tokens, loggedOut>>

(* register: create_user, unless the name is taken.                        *)
Register(r, asked) ==
  /\ InHandler(r, "register")
  /\ LET u == call[r].user
         as == IF publicRegister THEN "member" ELSE asked
     IN role' = [role EXCEPT ![u] = IF @ = "absent" THEN as ELSE @]
  /\ Answer(r)
  /\ UNCHANGED <<publicRegister, now, disabled, revoked, tokens, loggedOut>>

(* logout verifies the token once more; what no longer verifies is not     *)
(* revoked, and the answer is the same.                                    *)
LogoutVerify(r) ==
  /\ InHandler(r, "logout")
  /\ Gate(r, Verifies(call[r].jti), "revoke")
  /\ UNCHANGED <<publicRegister, now, users, revoked, tokens, loggedOut>>

(* Fault: rows are purged at exp, not after it.                            *)
RevokePurgingAtExp(r) ==
  /\ pc[r] = "revoke"
  /\ revoked' = {j \in revoked \cup {call[r].jti} : exp[j] > now}
  /\ loggedOut' = loggedOut \cup {call[r].jti}
  /\ Answer(r)
  /\ UNCHANGED <<publicRegister, now, users, tokens>>

(* revoke_jti: one row in, and every row of an expired token out.          *)
Revoke(r) ==
  /\ pc[r] = "revoke"
  /\ revoked' = {j \in revoked \cup {call[r].jti} : exp[j] >= now}
  /\ loggedOut' = loggedOut \cup {call[r].jti}
  /\ Answer(r)
  /\ UNCHANGED <<publicRegister, now, users, tokens>>

(* The database refuses the row: logout answers ok all the same, and the   *)
(* token lives on.  A failure of any other call ends its request.          *)
RevokeFails(r) ==
  /\ pc[r] = "revoke"
  /\ Answer(r)
  /\ UNCHANGED <<publicRegister, now, users, revoked, tokens, loggedOut>>

-----------------------------------------------------------------------------
(* AuthService::set_role, which no route calls: an operator's change.      *)
SetRole(u, to) ==
  /\ role[u] # "absent"
  /\ role' = [role EXCEPT ![u] = to]
  /\ call' = Forgiven(call, u, FALSE, to = "admin")
  /\ UNCHANGED <<publicRegister, now, disabled, revoked, tokens, pc, loggedOut>>

Tick ==
  /\ now < MaxNow
  /\ now' = now + 1
  /\ UNCHANGED <<publicRegister, users, revoked, tokens, pc, call, loggedOut>>

(* The process restarts: what is in flight is lost, both tables are not,   *)
(* and bootstrap_admin_if_empty finds users.                               *)
Restart ==
  /\ pc' = [r \in Requests |-> "idle"]
  /\ call' = [r \in Requests |-> NoCall]
  /\ UNCHANGED <<publicRegister, now, users, revoked, tokens, loggedOut>>

-----------------------------------------------------------------------------
Step(r) ==
  \/ \E ok \in BOOLEAN : Authenticate(r, ok)
  \/ \E j \in Jtis : IssueToken(r, j)
  \/ Verify(r) \/ ReadRow(r)
  \/ Use(r)
  \/ \E flag \in BOOLEAN : SetUserDisabled(r, flag)
  \/ \E asked \in Roles : Register(r, asked)
  \/ LogoutVerify(r) \/ Revoke(r) \/ RevokeFails(r)

Next ==
  \/ \E r \in Requests :
       \/ \E u \in Users : BeginLogin(r, u) \/ BeginPublicRegister(r, u)
       \/ \E o \in SessionOps, j \in Jtis, u \in Users : Begin(r, o, j, u)
       \/ Step(r)
  \/ \E u \in Users, to \in Roles : SetRole(u, to)
  \/ Tick
  \/ Restart

Spec == Init /\ [][Next]_vars
-----------------------------------------------------------------------------
(* The session check let r in.                                             *)
Admitted(r) ==
  /\ pc[r] \in {"row", "handler", "revoke"}
  /\ call[r].op = "register" => ~publicRegister

(* Until a token expires, no request that begins after the logout of its   *)
(* session was recorded is let in, restarts and purges of other sessions'  *)
(* rows in between included (auth lib.rs:413-448).                         *)
LogoutHoldsUntilExpiry ==
  \A r \in Requests :
    call[r].late /\ Admitted(r) => exp[call[r].jti] < now

(* "Re-read the row so disabling a user or demoting their role takes       *)
(* effect immediately instead of at token expiry" (auth_routes.rs:236):    *)
(* nothing a disabled user begins behind require_auth reaches its handler, *)
(* and no login begun then issues it a token.  A login that was past       *)
(* authenticate when the user was disabled does (auth_routes.rs:67); no    *)
(* request that carries that token reaches a handler either.               *)
DisabledTakesEffect ==
  \A r \in Requests :
    \/ pc[r] = "issue"
    \/ pc[r] \in {"handler", "revoke"} /\ call[r].op # "register"
    => ~call[r].banned

(* The same for roles: a request begun after its user lost the admin role  *)
(* never acts as an admin behind require_auth, whatever its token claims.  *)
DemotionTakesEffect ==
  \A r \in Requests :
    /\ pc[r] \in {"handler", "revoke"}
    /\ call[r].op # "register"
    /\ call[r].demoted
    => call[r].acts = "member"

(* A logged-out session stays logged out: after logout the test            *)
(* logout_revokes_jti_session expects UNAUTHORIZED (main.rs:1186).         *)
SessionEndsAtLogout == \A r \in Requests : call[r].late => ~Admitted(r)

(* "disabling a user ... takes effect immediately instead of at token      *)
(* expiry" (auth_routes.rs:236), for the admin-only register route.        *)
RegisterHonoursDisable ==
  \A r \in Requests :
    InHandler(r, "register") /\ ~publicRegister => ~call[r].banned

=============================================================================
