---------------------------- MODULE HelperImages ----------------------------
(***************************************************************************)
(* execute_image of the Python helper (helper/protocol_bridge.py), run by  *)
(* the worker threads of one helper process: the quota gate, the wall      *)
(* clock, the per-email lock of the direct path, the pool slot of the      *)
(* sticky path, and the try / except / finally that gives them back.  The  *)
(* process serves either the bridge (/v1/internal/image) or the face       *)
(* (helper/openai_face.py, images), which wraps the call in an image lock  *)
(* of its own.                                                             *)
(*                                                                         *)
(* account_service (the pool's slots) and stream_image_outputs (the        *)
(* conversation with the upstream) are not under src/: a slot is counted   *)
(* up when it is handed out and down when it is released or its result is  *)
(* marked; either call may raise, which is swallowed, and then keeps the   *)
(* slot; and a conversation ends in any way.  The wall thread only sets    *)
(* cancel_event for that conversation, so a wall timeout is one of the     *)
(* ways it raises.                                                         *)
(***************************************************************************)
EXTENDS Integers, FiniteSets

CONSTANTS
  Jobs,      \* calls of execute_image, each on a thread of its own
  Emails,    \* the pool's accounts; a pool token is named by its account
  NoEmail,   \* the blank e-mail; also: no token
  SlotLimit  \* image slots account_service hands out per token

ASSUME JobsAssumption == IsFiniteSet(Jobs)
ASSUME NoEmailAssumption == NoEmail \notin Emails
ASSUME SlotLimitAssumption == SlotLimit \in Nat \ {0}

VARIABLES
  face,         \* the process serves the face; fixed when it starts
  forceSticky,  \* MVP_FORCE_POOL_STICKY; fixed when the process starts
  pc,           \* where each job is
  email,        \* body.account.email, stripped
  direct,       \* use_direct
  imageLock,    \* face only: is _IMAGE_LOCKS[key] locked
  locked,       \* is _email_locks[key] locked: a threading.Lock has no owner
  lockRef,      \* email_lock is not None
  inflight,     \* slots of each token that account_service counts as taken
  token,        \* the job's token of the sticky path
  released,     \* slot_released
  leaked,       \* history: whose slot a job's failed release has kept
  result,       \* what the call returned
  owners        \* history: jobs whose acquire succeeded and that still run

vars == <<face, forceSticky, pc, email, direct, imageLock, locked, lockRef,
          inflight, token, released, leaked, result, owners>>

(* What a step that touches no lock and no slot leaves alone.              *)
settings == <<face, forceSticky>>
jobVars == <<email, direct>>
lockVars == <<imageLock, locked, lockRef, owners>>
slotVars == <<inflight, token, released, leaked>>

Keys == Emails \cup {NoEmail}

Places == {"idle", "queued", "gating", "entering", "locking", "making",
           "slotting", "checking", "opening", "running", "failing",
           "finishing", "done"}

Results == {"none", "refused", "lock_timeout", "sticky_miss", "failed", "image"}

TypeOK ==
  /\ face \in BOOLEAN /\ forceSticky \in BOOLEAN
  /\ pc \in [Jobs -> Places]
  /\ email \in [Jobs -> Keys]
  /\ direct \in [Jobs -> BOOLEAN]
  /\ imageLock \in [Keys -> BOOLEAN]
  /\ locked \in [Keys -> BOOLEAN]
  /\ lockRef \in [Jobs -> BOOLEAN]
  /\ inflight \in [Emails -> 0..SlotLimit]
  /\ token \in [Jobs -> Keys]
  /\ released \in [Jobs -> BOOLEAN]
  /\ leaked \in [Jobs -> Keys]
  /\ result \in [Jobs -> Results]
  /\ owners \subseteq Jobs

Init ==
  /\ face \in BOOLEAN /\ forceSticky \in BOOLEAN
  /\ pc = [j \in Jobs |-> "idle"]
  /\ email = [j \in Jobs |-> NoEmail]
  /\ direct = [j \in Jobs |-> TRUE]
  /\ imageLock = [k \in Keys |-> FALSE]
  /\ locked = [k \in Keys |-> FALSE]
  /\ lockRef = [j \in Jobs |-> FALSE]
  /\ inflight = [e \in Emails |-> 0]
  /\ token = [j \in Jobs |-> NoEmail]
  /\ released = [j \in Jobs |-> FALSE]
  /\ leaked = [j \in Jobs |-> NoEmail]
  /\ result = [j \in Jobs |-> "none"]
  /\ owners = {}

Goto(j, place) == pc' = [pc EXCEPT ![j] = place]
Returns(j, res) == result' = [result EXCEPT ![j] = res]

-----------------------------------------------------------------------------
(* A call comes in, for an account that carries a token or does not.       *)
Call(j, e, hasToken) ==
  /\ pc[j] = "idle"
  /\ email' = [email EXCEPT ![j] = e]
  /\ direct' = [direct EXCEPT ![j] = ~forceSticky \/ hasToken]
  /\ Goto(j, IF face THEN "queued" ELSE "gating")
  /\ UNCHANGED <<settings, lockVars, slotVars, result>>

(* with _image_lock_for(account.email): blocks without a timeout.          *)
EnterFace(j) ==
  /\ pc[j] = "queued"
  /\ ~imageLock[email[j]]
  /\ imageLock' = [imageLock EXCEPT ![email[j]] = TRUE]
  /\ Goto(j, "gating")
  /\ UNCHANGED <<settings, jobVars, locked, lockRef, owners, slotVars, result>>

(* The quota gate, execute_quota in the bridge and the cached quota in the *)
(* face: the job goes on, or returns before it has taken anything more.    *)
QuotaGate(j) ==
  /\ pc[j] = "gating"
  /\ \/ /\ Goto(j, "entering")
        /\ UNCHANGED <<imageLock, result>>
     \/ /\ Goto(j, "done")
        /\ Returns(j, "refused")
        /\ imageLock' = [imageLock EXCEPT ![email[j]] = @ /\ ~face]
  /\ UNCHANGED <<settings, jobVars, locked, lockRef, owners, slotVars>>

(* The try block is entered.                                               *)
EnterTry(j) ==
  /\ pc[j] = "entering"
  /\ \/ /\ email[j] = NoEmail
        /\ Goto(j, "failing")
        /\ Returns(j, "failed")
        /\ UNCHANGED lockRef
     \/ /\ email[j] # NoEmail /\ direct[j]
        /\ Goto(j, "locking")
        /\ lockRef' = [lockRef EXCEPT ![j] = TRUE]
        /\ UNCHANGED result
     \/ /\ email[j] # NoEmail /\ ~direct[j]
        /\ Goto(j, "slotting")
        /\ UNCHANGED <<lockRef, result>>
  /\ UNCHANGED <<settings, jobVars, imageLock, locked, owners, slotVars>>

-----------------------------------------------------------------------------
(* The direct path.                                                        *)

(* Fault: the lock is not waited for.                                      *)
TakeLockAnyway(j) ==
  /\ pc[j] = "locking"
  /\ locked' = [locked EXCEPT ![email[j]] = TRUE]
  /\ owners' = owners \cup {j}
  /\ Goto(j, "making")
  /\ UNCHANGED <<settings, jobVars, imageLock, lockRef, slotVars, result>>

TakeLock(j) ==
  /\ pc[j] = "locking"
  /\ ~locked[email[j]]
  /\ locked' = [locked EXCEPT ![email[j]] = TRUE]
  /\ owners' = owners \cup {j}
  /\ Goto(j, "making")
  /\ UNCHANGED <<settings, jobVars, imageLock, lockRef, slotVars, result>>

(* acquire(timeout=MVP_EMAIL_LOCK_SECS) returns False.                     *)
LockTimeout(j) ==
  /\ pc[j] = "locking"
  /\ locked[email[j]]
  /\ Goto(j, "failing")
  /\ Returns(j, "lock_timeout")
  /\ UNCHANGED <<settings, jobVars, lockVars, slotVars>>

(* make_backend on the direct path, OpenAIBackendAPI(..) on the sticky one.*)
MakeBackend(j) ==
  /\ pc[j] \in {"making", "opening"}
  /\ \/ Goto(j, "running") /\ UNCHANGED result
     \/ Goto(j, "failing") /\ Returns(j, "failed")
  /\ UNCHANGED <<settings, jobVars, lockVars, slotVars>>

-----------------------------------------------------------------------------
(* The sticky path.                                                        *)

(* get_available_access_token(preferred_email): some account with a free   *)
(* slot, "falls through" to another one than asked for; or it raises.      *)
TakeSlot(j) ==
  /\ pc[j] = "slotting"
  /\ \/ \E t \in Emails :
          /\ inflight[t] < SlotLimit
          /\ inflight' = [inflight EXCEPT ![t] = @ + 1]
          /\ token' = [token EXCEPT ![j] = t]
          /\ Goto(j, "checking")
          /\ UNCHANGED result
     \/ /\ Goto(j, "failing")
        /\ Returns(j, "failed")
        /\ UNCHANGED <<inflight, token>>
  /\ UNCHANGED <<settings, jobVars, lockVars, released, leaked>>

(* release_image_slot(token): the slot is given back, or the call raises   *)
(* and nobody will try again.                                              *)
ReleaseSlot(j) ==
  \/ /\ inflight' = [inflight EXCEPT ![token[j]] = @ - 1]
     /\ UNCHANGED leaked
  \/ /\ leaked' = [leaked EXCEPT ![j] = token[j]]
     /\ UNCHANGED inflight

(* The account of the token is looked up; another one than the preferred   *)
(* one is given back at once.                                              *)
CheckSticky(j) ==
  /\ pc[j] = "checking"
  /\ \/ /\ token[j] = email[j]
        /\ Goto(j, "opening")
        /\ UNCHANGED <<inflight, leaked, token, result>>
     \/ /\ token[j] # email[j]
        /\ ReleaseSlot(j)
        /\ token' = [token EXCEPT ![j] = NoEmail]
        /\ Goto(j, "failing")
        /\ Returns(j, "sticky_miss")
     \/ /\ Goto(j, "failing")
        /\ Returns(j, "failed")
        /\ UNCHANGED <<inflight, leaked, token>>
  /\ UNCHANGED <<settings, jobVars, lockVars, released>>

-----------------------------------------------------------------------------
(* mark_image_result(token, ..): the slot is given back, unless it raises. *)
MarkResult(j) ==
  IF token[j] # NoEmail /\ ~released[j]
  THEN \/ /\ inflight' = [inflight EXCEPT ![token[j]] = @ - 1]
          /\ released' = [released EXCEPT ![j] = TRUE]
       \/ UNCHANGED <<inflight, released>>
  ELSE UNCHANGED <<inflight, released>>

(* The conversation ends: with an image, with an empty or short payload,   *)
(* or by raising (the cancelled one included).                             *)
ConversationEnds(j) ==
  /\ pc[j] = "running"
  /\ \/ /\ MarkResult(j)
        /\ Goto(j, "finishing")
        /\ \E res \in {"image", "failed"} : Returns(j, res)
     \/ /\ Goto(j, "failing")
        /\ Returns(j, "failed")
        /\ UNCHANGED <<inflight, released>>
  /\ UNCHANGED <<settings, jobVars, lockVars, token, leaked>>

(* except Exception.                                                       *)
HandleException(j) ==
  /\ pc[j] = "failing"
  /\ MarkResult(j)
  /\ Goto(j, "finishing")
  /\ UNCHANGED <<settings, jobVars, lockVars, token, leaked, result>>

(* Faults: finally releases a slot that marking gave back already; trusts  *)
(* that marking gave it back; releases the lock only after a success.      *)
FinallyReleasesAgain(j) ==
  /\ pc[j] = "finishing"
  /\ locked' = IF lockRef[j] THEN [locked EXCEPT ![email[j]] = FALSE] ELSE locked
  /\ owners' = owners \ {j}
  /\ inflight' = IF token[j] # NoEmail
                 THEN [inflight EXCEPT ![token[j]] = @ - 1] ELSE inflight
  /\ imageLock' = [imageLock EXCEPT ![email[j]] = @ /\ ~face]
  /\ Goto(j, "done")
  /\ UNCHANGED <<settings, jobVars, lockRef, token, released, leaked, result>>

FinallyKeepsSlot(j) ==
  /\ pc[j] = "finishing"
  /\ locked' = IF lockRef[j] THEN [locked EXCEPT ![email[j]] = FALSE] ELSE locked
  /\ owners' = owners \ {j}
  /\ imageLock' = [imageLock EXCEPT ![email[j]] = @ /\ ~face]
  /\ Goto(j, "done")
  /\ UNCHANGED <<settings, jobVars, lockRef, slotVars, result>>

FinallyAfterSuccess(j) ==
  /\ pc[j] = "finishing"
  /\ locked' = IF lockRef[j] /\ result[j] = "image"
               THEN [locked EXCEPT ![email[j]] = FALSE] ELSE locked
  /\ owners' = owners \ {j}
  /\ imageLock' = [imageLock EXCEPT ![email[j]] = @ /\ ~face]
  /\ Goto(j, "done")
  /\ UNCHANGED <<settings, jobVars, lockRef, slotVars, result>>

(* finally: the lock the job looked up is released whether or not the job  *)
(* ever got it (releasing an unlocked one raises, and that is swallowed),  *)
(* a slot still held is given back; the face then leaves its with block.   *)
Finally(j) ==
  /\ pc[j] = "finishing"
  /\ locked' = IF lockRef[j] THEN [locked EXCEPT ![email[j]] = FALSE] ELSE locked
  /\ owners' = owners \ {j}
  /\ \/ /\ token[j] # NoEmail /\ ~released[j]
        /\ ReleaseSlot(j)
     \/ /\ token[j] = NoEmail \/ released[j]
        /\ UNCHANGED <<inflight, leaked>>
  /\ imageLock' = [imageLock EXCEPT ![email[j]] = @ /\ ~face]
  /\ Goto(j, "done")
  /\ UNCHANGED <<settings, jobVars, lockRef, token, released, result>>

-----------------------------------------------------------------------------
Step(j) ==
  \/ EnterFace(j) \/ QuotaGate(j) \/ EnterTry(j)
  \/ TakeLock(j) \/ LockTimeout(j) \/ MakeBackend(j)
  \/ TakeSlot(j) \/ CheckSticky(j)
  \/ ConversationEnds(j) \/ HandleException(j) \/ Finally(j)

Next ==
  \E j \in Jobs :
    \/ \E e \in Keys, hasToken \in BOOLEAN : Call(j, e, hasToken)
    \/ Step(j)

Spec == Init /\ [][Next]_vars
-----------------------------------------------------------------------------
Inside(j) == pc[j] \notin {"idle", "queued", "done"}

OwnersOf(e) == {j \in owners : email[j] = e}

(* Jobs that hold a pool slot for token e, or could not give it back.      *)
SlotHolders(e) ==
  {j \in Jobs : leaked[j] = e \/ (token[j] = e /\ ~released[j] /\ pc[j] # "done")}

(* The pool's slots are given back exactly once: on success, after a       *)
(* sticky miss, when marking the result raises, and when the conversation  *)
(* raises, each token's count is the number of jobs that still hold it;    *)
(* the only slots ever lost are those whose release itself raised, in      *)
(* finally or after a sticky miss, one for each job at most                *)
(* (protocol_bridge.py:563-573, 607-612, 643-651, 668-675).                *)
SlotsAccounted ==
  \A e \in Emails : inflight[e] = Cardinality(SlotHolders(e))

(* Locks never outlive their owners: while an account's lock is locked     *)
(* some job that acquired it has not reached its finally block yet, and    *)
(* the face's image lock is locked exactly while one job is inside it, so  *)
(* no burst of refusals, failures and timeouts locks an account out for    *)
(* good (protocol_bridge.py:551-556, 662-667; openai_face.py:524-569).     *)
LocksHeldByLiveJobs ==
  \A k \in Keys :
    /\ locked[k] => OwnersOf(k) # {}
    /\ imageLock[k] <=> \E j \in Jobs : face /\ email[j] = k /\ Inside(j)

(* Two jobs only ever work on the same account at once after some job gave *)
(* up waiting for that account's lock, and never behind the face, whose    *)
(* image lock serialises them (openai_face.py:524).                        *)
DoubleHitOnlyAfterTimeout ==
  \A e \in Emails : Cardinality(OwnersOf(e)) > 1 =>
    /\ ~face
    /\ \E j \in Jobs : email[j] = e /\ result[j] = "lock_timeout"

(* "Per-email lock for direct-token image path (Rust face). Avoids         *)
(* double-hit on the same account" (protocol_bridge.py:124-125): at most   *)
(* one job at a time works on an account on the direct path.               *)
NoDoubleHit == \A e \in Emails : Cardinality(OwnersOf(e)) <= 1

=============================================================================
