---------------------------- MODULE ImageGateway ----------------------------
(***************************************************************************)
(* The image endpoint of the gateway (crates/gateway/src/main.rs,          *)
(* image_generations): requests resolve the pool accounts they may use,    *)
(* queue for one of the permits of the tokio semaphore st.image_sem, pass  *)
(* the quota precheck of the helper plane, and then try accounts in order, *)
(* moving to the next one only when an upstream attempt failed in a way    *)
(* the code calls retryable.  A client that disconnects drops the handler  *)
(* at whichever await it is in, and with it the permit.                    *)
(*                                                                         *)
(* E-mails are numbers in the order of their lower-cased spelling, which   *)
(* is the order keys.sort() puts them in.  An account is its e-mail and    *)
(* whether it carries an access token; proxies, device ids and prompts are *)
(* left out.  helper.list_candidates(..) is an environment step: it fails, *)
(* or returns some of HelperEmails.                                        *)
(***************************************************************************)
EXTENDS Integers, Sequences, FiniteSets, SequencesExt

CONSTANTS
  Requests,      \* the image requests that may arrive
  Emails,        \* every e-mail an account may have
  Pin,           \* st.pin.email
  Configured,    \* e-mails of ACCOUNTS_FILE and of the pin: loaded with a token
  HelperEmails,  \* e-mails the helper may list
  Permits,       \* IMAGE_GLOBAL_CONCURRENCY
  MaxAttempts    \* accounts an admin request may try: 5 in the code

ASSUME RequestsAssumption == IsFiniteSet(Requests)
ASSUME EmailsAssumption == Emails \subseteq Nat /\ IsFiniteSet(Emails)
ASSUME PoolAssumption ==
  /\ Pin \in Configured
  /\ Configured \subseteq Emails
  /\ HelperEmails \subseteq Emails
ASSUME PermitsAssumption == Permits \in Nat \ {0}
ASSUME AttemptsAssumption == MaxAttempts \in Nat \ {0}

VARIABLES
  plane,     \* cfg.data_plane, fixed when the process starts
  accounts,  \* st.accounts: what the shared map holds for each e-mail
  free,      \* permits in the semaphore
  queue,     \* requests waiting in the semaphore, oldest first
  pc,        \* where each request's handler is
  admin,     \* the role the auth layer gave the request
  want,      \* the account the request asks for
  cands,     \* the request's own copies of the accounts it may try
  tried,     \* history: the attempts made so far and how each ended
  reply      \* what the client was told

vars == <<plane, accounts, free, queue, pc, admin, want, cands, tried, reply>>

-----------------------------------------------------------------------------
Planes == {"upstream", "helper"}

Entry == {"absent", "empty", "token"}
Account == [email : Emails, token : BOOLEAN]

Outcomes(p) ==
  IF p = "upstream"
  THEN {"ok", "retryable", "fatal"}
  ELSE {"ok", "bridge_self", "bridge_gate", "bridge_other", "unreachable"}

Attempt == [email : Emails, token : BOOLEAN,
            outcome : Outcomes("upstream") \cup Outcomes("helper")]

(* A handler is suspended at one await: the helper's list inside           *)
(* resolve_account, the second list of collect_image_accounts, the         *)
(* semaphore, the quota precheck, or the running attempt.  "granted" is a  *)
(* request that owns a permit and has not been polled since.               *)
Holding == {"granted", "prechecking", "attempting"}
Awaiting == {"resolving", "listing", "waiting"} \cup Holding
Places == {"idle", "done"} \cup Awaiting

OkReplies == {"image", "empty_image", "image_url_failed"}
ErrorReplies ==
  {"n_unsupported", "account_override_forbidden", "account_not_found",
   "image_quota_insufficient", "quota_refresh_failed", "helper_unreachable",
   "upstream_unreachable", "image_failed"}
Replies == OkReplies \cup ErrorReplies \cup {"none", "gone"}

TypeOK ==
  /\ plane \in Planes
  /\ accounts \in [Emails -> Entry]
  /\ free \in 0..Permits
  /\ queue \in Seq(Requests)
  /\ pc \in [Requests -> Places]
  /\ admin \in [Requests -> BOOLEAN]
  /\ want \in [Requests -> Emails]
  /\ cands \in [Requests -> Seq(Account)]
  /\ tried \in [Requests -> Seq(Attempt)]
  /\ reply \in [Requests -> Replies]

-----------------------------------------------------------------------------
(* The pool map.  A listed account carries no credential                   *)
(* (CandidateAccount::to_pin), and insert replaces the entry that is there. *)

Merge(pool, listed) ==
  [e \in Emails |-> IF e \in listed THEN "empty" ELSE pool[e]]

Keys(pool) == {e \in Emails : pool[e] # "absent"}

CopyOf(e, pool) == [email |-> e, token |-> pool[e] = "token"]

(* The one sequence of the keys in S that keys.sort() leaves.              *)
Sorted(S) ==
  {s \in [1..Cardinality(S) -> S] :
     \A i, j \in 1..Cardinality(S) : i < j => s[i] < s[j]}

(* The map main() starts with: PIN_ACCOUNT_* and ACCOUNTS_FILE, then what  *)
(* the helper lists at startup (nothing when it cannot be reached).        *)
Loaded == [e \in Emails |-> IF e \in Configured THEN "token" ELSE "absent"]

Init ==
  /\ plane \in Planes
  /\ \E listed \in SUBSET HelperEmails : accounts = Merge(Loaded, listed)
  /\ free = Permits
  /\ queue = <<>>
  /\ pc = [r \in Requests |-> "idle"]
  /\ admin = [r \in Requests |-> FALSE]
  /\ want = [r \in Requests |-> Pin]
  /\ cands = [r \in Requests |-> <<>>]
  /\ tried = [r \in Requests |-> <<>>]
  /\ reply = [r \in Requests |-> "none"]

-----------------------------------------------------------------------------
(* The semaphore.  tokio hands a dropped permit to the oldest waiter.      *)

AcquirePermit(r) ==
  \/ /\ free > 0
     /\ free' = free - 1
     /\ pc' = [pc EXCEPT ![r] = "granted"]
     /\ UNCHANGED queue
  \/ /\ free = 0
     /\ queue' = Append(queue, r)
     /\ pc' = [pc EXCEPT ![r] = "waiting"]
     /\ UNCHANGED free

(* r leaves with answer a; it holds no permit.                             *)
Answer(r, a) ==
  /\ pc' = [pc EXCEPT ![r] = "done"]
  /\ reply' = [reply EXCEPT ![r] = a]
  /\ UNCHANGED <<free, queue>>

(* Faults for the mutation runs: the permit goes back to the semaphore and *)
(* to a waiter; to the newest waiter; or back without waking anyone.       *)
DropPermitTwice(r, a) ==
  /\ reply' = [reply EXCEPT ![r] = a]
  /\ free' = free + 1
  /\ \/ queue = <<>> /\ pc' = [pc EXCEPT ![r] = "done"] /\ UNCHANGED queue
     \/ /\ queue # <<>>
        /\ pc' = [pc EXCEPT ![r] = "done", ![Head(queue)] = "granted"]
        /\ queue' = Tail(queue)

DropPermitToNewest(r, a) ==
  /\ reply' = [reply EXCEPT ![r] = a]
  /\ \/ /\ queue = <<>>
        /\ free' = free + 1
        /\ pc' = [pc EXCEPT ![r] = "done"]
        /\ UNCHANGED queue
     \/ /\ queue # <<>>
        /\ pc' = [pc EXCEPT ![r] = "done", ![queue[Len(queue)]] = "granted"]
        /\ queue' = SubSeq(queue, 1, Len(queue) - 1)
        /\ UNCHANGED free

DropPermitQuietly(r, a) ==
  /\ reply' = [reply EXCEPT ![r] = a]
  /\ free' = free + 1
  /\ pc' = [pc EXCEPT ![r] = "done"]
  /\ UNCHANGED queue

(* r leaves with answer a and drops the permit it holds.                   *)
DropPermit(r, a) ==
  /\ reply' = [reply EXCEPT ![r] = a]
  /\ \/ /\ queue = <<>>
        /\ free' = free + 1
        /\ pc' = [pc EXCEPT ![r] = "done"]
        /\ UNCHANGED queue
     \/ /\ queue # <<>>
        /\ pc' = [pc EXCEPT ![r] = "done", ![Head(queue)] = "granted"]
        /\ queue' = Tail(queue)
        /\ UNCHANGED free

-----------------------------------------------------------------------------
(* Once the first account is known, an admin goes on to list the pool; a   *)
(* member asks for a permit.                                               *)
Resolve(r, isAdmin, found) ==
  /\ cands' = [cands EXCEPT ![r] = found]
  /\ \/ /\ isAdmin
        /\ pc' = [pc EXCEPT ![r] = "listing"]
        /\ UNCHANGED <<free, queue, reply>>
     \/ /\ ~isAdmin
        /\ found # <<>>
        /\ AcquirePermit(r)
        /\ UNCHANGED reply
     \/ /\ ~isAdmin
        /\ found = <<>>
        /\ Answer(r, "account_not_found")

(* Fault: the X-Preferred-Account-Email header is honoured for everyone.   *)
ArriveForAnyone(r, isAdmin, n, preferred) ==
  /\ pc[r] = "idle"
  /\ n = 1
  /\ LET key == IF preferred = {} THEN Pin ELSE CHOOSE e \in preferred : TRUE
     IN
     /\ accounts[key] # "absent"
     /\ admin' = [admin EXCEPT ![r] = isAdmin]
     /\ want' = [want EXCEPT ![r] = key]
     /\ Resolve(r, isAdmin, <<CopyOf(key, accounts)>>)
  /\ UNCHANGED <<plane, accounts, tried>>

(* A request arrives with n and, optionally, X-Preferred-Account-Email:    *)
(* preferred is the set of the header's value, empty when there is none.   *)
Arrive(r, isAdmin, n, preferred) ==
  /\ pc[r] = "idle"
  /\ n = 1 /\ (isAdmin \/ preferred = {})
  /\ LET key == IF preferred = {} THEN Pin ELSE CHOOSE e \in preferred : TRUE
     IN
     /\ admin' = [admin EXCEPT ![r] = isAdmin]
     /\ want' = [want EXCEPT ![r] = key]
     /\ \/ /\ accounts[key] # "absent"
           /\ Resolve(r, isAdmin, <<CopyOf(key, accounts)>>)
        \/ /\ accounts[key] = "absent"
           /\ pc' = [pc EXCEPT ![r] = "resolving"]
           /\ UNCHANGED <<free, queue, cands, reply>>
  /\ UNCHANGED <<plane, accounts, tried>>

(* More than one image, or a member naming an account: refused at once.    *)
Refuse(r, isAdmin, n, preferred) ==
  /\ pc[r] = "idle"
  /\ \/ n # 1 /\ Answer(r, "n_unsupported")
     \/ /\ n = 1 /\ ~isAdmin /\ preferred # {}
        /\ Answer(r, "account_override_forbidden")
  /\ UNCHANGED <<plane, accounts, admin, want, cands, tried>>

(* resolve_account's list_candidates(30) comes back: after a list the map  *)
(* is read again, after an error it is not.                                *)
ListForResolve(r) ==
  /\ pc[r] = "resolving"
  /\ UNCHANGED <<plane, admin, want, tried>>
  /\ \/ \E listed \in SUBSET HelperEmails :
          LET pool == Merge(accounts, listed) IN
          /\ accounts' = pool
          /\ Resolve(r, admin[r],
                     IF pool[want[r]] # "absent"
                     THEN <<CopyOf(want[r], pool)>> ELSE <<>>)
     \/ /\ UNCHANGED accounts
        /\ Resolve(r, admin[r], <<>>)

(* collect_image_accounts' own list comes back: every other key of the map *)
(* follows the resolved account, sorted.                                   *)
ListForCollect(r) ==
  /\ pc[r] = "listing"
  /\ UNCHANGED <<plane, admin, want, tried>>
  /\ \E pool \in {Merge(accounts, l) : l \in SUBSET HelperEmails} \cup {accounts} :
       LET seen == {cands[r][i].email : i \in DOMAIN cands[r]} IN
       \E ks \in Sorted(Keys(pool) \ seen) :
         LET all == cands[r] \o [i \in DOMAIN ks |-> CopyOf(ks[i], pool)] IN
         /\ accounts' = pool
         /\ cands' = [cands EXCEPT ![r] = all]
         /\ \/ /\ all # <<>>
               /\ AcquirePermit(r)
               /\ UNCHANGED reply
            \/ /\ all = <<>>
               /\ Answer(r, "account_not_found")

(* The handler resumes with its permit.                                    *)
ResumeWithPermit(r) ==
  /\ pc[r] = "granted"
  /\ pc' = [pc EXCEPT ![r] =
              IF plane = "upstream" THEN "attempting" ELSE "prechecking"]
  /\ UNCHANGED <<plane, accounts, free, queue, admin, want, cands, tried, reply>>

(* The helper answers the quota precheck, or cannot be reached.            *)
QuotaPrecheck(r) ==
  /\ pc[r] = "prechecking"
  /\ \/ /\ pc' = [pc EXCEPT ![r] = "attempting"]
        /\ UNCHANGED <<free, queue, reply>>
     \/ \E a \in {"image_quota_insufficient", "quota_refresh_failed",
                  "helper_unreachable"} : DropPermit(r, a)
  /\ UNCHANGED <<plane, accounts, admin, want, cands, tried>>

AttemptLimit(r) ==
  IF ~(admin[r] /\ plane = "upstream") THEN 1
  ELSE IF Len(cands[r]) < MaxAttempts THEN Len(cands[r]) ELSE MaxAttempts

(* Faults: any failure is retried; the last account is never tried.        *)
RetriesAnyFailure(r, outcome) ==
  /\ admin[r]
  /\ plane = "upstream"
  /\ outcome # "ok"
  /\ Len(tried[r]) + 1 < AttemptLimit(r)

RetriesTooFew(r, outcome) ==
  /\ admin[r]
  /\ plane = "upstream"
  /\ outcome = "retryable"
  /\ Len(tried[r]) + 2 < AttemptLimit(r)

Retries(r, outcome) ==
  /\ admin[r]
  /\ plane = "upstream"
  /\ outcome = "retryable"
  /\ Len(tried[r]) + 1 < AttemptLimit(r)

AnswersTo(outcome) ==
  CASE outcome = "ok" -> OkReplies
    [] outcome \in {"retryable", "fatal"} -> {"upstream_unreachable"}
    [] outcome = "bridge_gate" -> {"image_quota_insufficient"}
    [] outcome = "unreachable" -> {"helper_unreachable"}
    [] OTHER -> {"image_failed"}

(* The attempt on the next candidate ends: the loop goes on, or the permit *)
(* is dropped and the result is turned into the answer.                    *)
AttemptEnds(r) ==
  LET cand == cands[r][Len(tried[r]) + 1] IN
  /\ pc[r] = "attempting"
  /\ \E outcome \in Outcomes(plane) :
       /\ tried' = [tried EXCEPT ![r] =
                      Append(@, [email |-> cand.email, token |-> cand.token,
                                 outcome |-> outcome])]
       /\ \/ /\ Retries(r, outcome)
             /\ UNCHANGED <<free, queue, pc, reply>>
          \/ /\ ~Retries(r, outcome)
             /\ \E a \in AnswersTo(outcome) : DropPermit(r, a)
  /\ UNCHANGED <<plane, accounts, admin, want, cands>>

(* Faults: an owner's permit, or a waiter's place in the queue, outlives   *)
(* the handler.                                                            *)
DisconnectKeepsPermit(r) ==
  /\ pc[r] \in {"resolving", "listing"} \cup Holding
  /\ Answer(r, "gone")
  /\ UNCHANGED <<plane, accounts, admin, want, cands, tried>>

DisconnectKeepsPlace(r) ==
  /\ UNCHANGED <<plane, accounts, admin, want, cands, tried>>
  /\ \/ pc[r] \in {"resolving", "listing", "waiting"} /\ Answer(r, "gone")
     \/ pc[r] \in Holding /\ DropPermit(r, "gone")

(* The client disconnects and the server drops the handler: a waiter       *)
(* leaves the semaphore's queue, an owner gives its permit back.           *)
Disconnect(r) ==
  /\ UNCHANGED <<plane, accounts, admin, want, cands, tried>>
  /\ \/ /\ pc[r] \in {"resolving", "listing"}
        /\ Answer(r, "gone")
     \/ /\ pc[r] = "waiting"
        /\ \E k \in DOMAIN queue :
             /\ queue[k] = r
             /\ queue' = RemoveAt(queue, k)
        /\ pc' = [pc EXCEPT ![r] = "done"]
        /\ reply' = [reply EXCEPT ![r] = "gone"]
        /\ UNCHANGED free
     \/ /\ pc[r] \in Holding
        /\ DropPermit(r, "gone")

(* GET /v1/accounts/candidates and every other request that refreshes the  *)
(* shared map while image requests are under way.                          *)
AccountCandidates ==
  /\ \E listed \in SUBSET HelperEmails : accounts' = Merge(accounts, listed)
  /\ UNCHANGED <<plane, free, queue, pc, admin, want, cands, tried, reply>>

-----------------------------------------------------------------------------
Headers == {{}} \cup {{e} : e \in Emails}

Progress(r) ==
  \/ ListForResolve(r)
  \/ ListForCollect(r)
  \/ ResumeWithPermit(r)
  \/ QuotaPrecheck(r)
  \/ AttemptEnds(r)

Next ==
  \/ \E r \in Requests :
       \/ \E isAdmin \in BOOLEAN, n \in {1, 2}, preferred \in Headers :
            Arrive(r, isAdmin, n, preferred) \/ Refuse(r, isAdmin, n, preferred)
       \/ Progress(r)
       \/ Disconnect(r)
  \/ AccountCandidates

Spec == Init /\ [][Next]_vars

(* Every await of the handler ends: helper calls and upstream calls carry  *)
(* client timeouts (120 s, 180 s), and the semaphore is FIFO.              *)
FairSpec == Spec /\ \A r \in Requests : WF_vars(Progress(r))
-----------------------------------------------------------------------------
Holders == {r \in Requests : pc[r] \in Holding}

(* No permit is lost or minted: through refusals, retries, handovers and   *)
(* disconnects at any await (main.rs:655-767 drops it on every path), the  *)
(* permits in the semaphore and those owned by requests make up exactly    *)
(* IMAGE_GLOBAL_CONCURRENCY, so no more images than that are ever under    *)
(* way.                                                                    *)
PermitsConserved == free + Cardinality(Holders) = Permits

(* The semaphore's queue holds each waiting request once and nothing else, *)
(* and nobody waits while a permit is idle: a disconnecting waiter or      *)
(* owner leaves neither a ghost entry behind nor a waiter asleep.          *)
QueueConsistent ==
  /\ \A i, j \in DOMAIN queue : queue[i] = queue[j] => i = j
  /\ \A r \in Requests :
       pc[r] = "waiting" <=> \E k \in DOMAIN queue : queue[k] = r
  /\ queue # <<>> => free = 0

(* A member's image is only ever generated with the pin account, whatever  *)
(* the concurrently refreshed pool map holds (main.rs:287-289: "a member   *)
(* picking an arbitrary pool address would burn someone else's quota").    *)
MembersStayOnPin ==
  \A r \in Requests : ~admin[r] =>
    /\ Len(cands[r]) <= 1
    /\ \A i \in DOMAIN cands[r] : cands[r][i].email = Pin
    /\ \A i \in DOMAIN tried[r] : tried[r][i].email = Pin

(* A prompt is submitted again only after an attempt that failed           *)
(* retryably, on an account this request has not used yet, by an admin on  *)
(* the upstream plane, and at most MaxAttempts times (main.rs:715-764): a  *)
(* success or a final failure is never followed by another paid attempt.   *)
RetryDiscipline ==
  \A r \in Requests :
    /\ \A i, j \in DOMAIN tried[r] :
         i < j => /\ tried[r][i].outcome = "retryable"
                  /\ tried[r][i].email # tried[r][j].email
    /\ Len(tried[r]) <= MaxAttempts
    /\ Len(tried[r]) > 1 => admin[r] /\ plane = "upstream"

(* What the client is told is the result of the last attempt made for it:  *)
(* an image only after a success, an upstream failure only after one, and  *)
(* an answered admin request on the upstream plane has no account left to  *)
(* try when its last failure was retryable (main.rs:737-764).              *)
AnswerIsLastAttempt ==
  \A r \in Requests :
    LET n == Len(tried[r])
        last == tried[r][n].outcome
    IN /\ reply[r] \in OkReplies => n > 0 /\ last = "ok"
       /\ reply[r] = "upstream_unreachable" =>
            /\ n > 0 /\ last \in {"retryable", "fatal"}
            /\ last = "retryable" => n = AttemptLimit(r)
       /\ n > 0 /\ pc[r] = "done" /\ reply[r] # "gone" =>
            reply[r] \in AnswersTo(last)

(* The handlers, their permits and the semaphore's queue are a bounded     *)
(* admission, first come, first served (main.rs:655): a request that is    *)
(* ahead of another in the queue gets its permit first, whoever leaves     *)
(* from wherever, and no permit stays idle while somebody waits.           *)
Admission == INSTANCE BoundedAdmission WITH inside <- Holders, line <- queue

AdmissionIsBounded == Admission!Spec

(* Every upstream attempt carries an access token: "Previously this        *)
(* fabricated an account with an empty token and let the request continue, *)
(* surfacing as an opaque upstream failure" (main.rs:320-321).             *)
UpstreamCallsCarryToken ==
  plane = "upstream" =>
    \A r \in Requests : \A i \in DOMAIN tried[r] : tried[r][i].token

(* Every request that arrives is answered or its client has gone: no       *)
(* request is starved of a permit or stuck in the attempt loop.  A handler *)
(* past its awaits is done for good, so it is enough that there is always  *)
(* another moment at which nobody is at one (main.rs:655-767).             *)
EveryRequestAnswered ==
  []<>(\A r \in Requests : pc[r] \notin Awaiting)

=============================================================================
