----------------------------- MODULE FaceCaches -----------------------------
(***************************************************************************)
(* The caches of the helper's OpenAI face (helper/openai_face.py) and the  *)
(* threads that share them.  A request resolves its account, through a     *)
(* cache of pool rows; an image then takes the account's image lock and    *)
(* asks the quota cache whether the account may still make images; a quota *)
(* request refreshes that cache by force.                                  *)
(*                                                                         *)
(* An entry keeps the time it was stored (ts), which the code compares     *)
(* with the TTL, and, as history, the time its call began (read): what the *)
(* entry says may be as old as that.                                       *)
(***************************************************************************)
EXTENDS Integers

CONSTANTS
  Threads,   \* requests, each served by a thread of its own
  Emails,    \* the accounts
  Pin,       \* the account of PIN_ACCOUNT_FILE, never looked up
  NoEntry,   \* stands for no cache entry and for no thread
  TTL,       \* _ACCOUNT_CACHE_TTL_SECS and _QUOTA_CACHE_TTL_SECS, both 60
  Latency,   \* bound: how long a call to the pool or the upstream takes
  MaxNow     \* bound: the last time

ASSUME NamesAssumption == Pin \in Emails /\ NoEntry \notin Threads
ASSUME TimesAssumption == TTL \in Nat \ {0} /\ Latency \in Nat /\ MaxNow \in Nat

VARIABLES
  now,           \* time.time()
  accountCache,  \* _ACCOUNT_CACHE
  quotaCache,    \* _QUOTA_CACHE
  imageLock,     \* _IMAGE_LOCKS: who holds each account's
  quotaLock,     \* _QUOTA_KEY_LOCKS
  pc,            \* where each request is
  req,           \* its route, its account and the force of its _cached_quota
  began          \* history: when its call under way began, else 0

caches == <<accountCache, quotaCache>>
locks == <<imageLock, quotaLock>>
vars == <<now, caches, locks, pc, req, began>>

Ops == {"chat", "quota", "images"}
Verdicts == {"failed", "insufficient", "imageable"}

InCall == {"listing", "fetching"}
InQuota == {"looking", "quota_wait", "fetching"}
Places == {"idle", "image_wait", "imaging", "done"} \cup InCall \cup InQuota

NoRequest == [op |-> "none", email |-> Pin, force |-> FALSE]

Rows == [ts : Nat, read : Nat]
Quotas == [ts : Nat, read : Nat, verdict : Verdicts]

ASSUME EntriesAssumption == NoEntry \notin Rows \cup Quotas

Init ==
  /\ now = 0
  /\ accountCache = [e \in Emails |-> NoEntry]
  /\ quotaCache = [e \in Emails |-> NoEntry]
  /\ imageLock = [e \in Emails |-> NoEntry]
  /\ quotaLock = [e \in Emails |-> NoEntry]
  /\ pc = [t \in Threads |-> "idle"]
  /\ req = [t \in Threads |-> NoRequest]
  /\ began = [t \in Threads |-> 0]

-----------------------------------------------------------------------------
(* Fault: an entry lives one tick too long.                                *)
FreshAtTTL(slot) == slot # NoEntry /\ now - slot.ts <= TTL

Fresh(slot) == slot # NoEntry /\ now - slot.ts < TTL

(* Fault: the time an entry expires takes the place of the time it was     *)
(* stored.                                                                 *)
StampExpiry == now + TTL

Stamp == now

(* The end of a request, with the image lock its handler holds.            *)
Done(t) ==
  /\ pc' = [pc EXCEPT ![t] = "done"]
  /\ req' = [req EXCEPT ![t] = NoRequest]
  /\ imageLock' = [e \in Emails |->
                     IF imageLock[e] = t THEN NoEntry ELSE imageLock[e]]

(* resolve_account has returned: chat has no more to do with the caches    *)
(* (execute_text is all that is left), a quota request refreshes by force, *)
(* an image goes for its account's lock.                                   *)
Resolved(t, o, e) ==
  \/ o = "chat" /\ Done(t)
  \/ /\ o # "chat"
     /\ pc' = [pc EXCEPT ![t] = IF o = "quota" THEN "quota_wait" ELSE "image_wait"]
     /\ req' = [req EXCEPT ![t] = [op |-> o, email |-> e, force |-> o = "quota"]]
     /\ UNCHANGED imageLock

(* A request for account e.  The pin is at hand; another account is served *)
(* from its cache entry while that is fresh, else an aged entry is dropped *)
(* and the pool listed.                                                    *)
Begin(t, o, e) ==
  /\ pc[t] = "idle"
  /\ \/ /\ e = Pin \/ Fresh(accountCache[e])
        /\ Resolved(t, o, e)
        /\ UNCHANGED <<accountCache, began>>
     \/ /\ e # Pin /\ ~Fresh(accountCache[e])
        /\ accountCache' = [accountCache EXCEPT ![e] = NoEntry]
        /\ began' = [began EXCEPT ![t] = now]
        /\ pc' = [pc EXCEPT ![t] = "listing"]
        /\ req' = [req EXCEPT ![t] = [op |-> o, email |-> e, force |-> o = "quota"]]
        /\ UNCHANGED imageLock
  /\ UNCHANGED <<now, quotaCache, quotaLock>>

(* list_accounts comes back: the row found is stored after the aged ones   *)
(* are swept out; or there is none, it lacks a token or a proxy, or the    *)
(* list fails, and the request is refused.                                 *)
ListReturns(t) ==
  LET found == [ts |-> Stamp, read |-> began[t]] IN
  /\ pc[t] = "listing"
  /\ \/ /\ accountCache' = [e \in Emails |->
             IF e = req[t].email THEN found
             ELSE IF Fresh(accountCache[e]) THEN accountCache[e] ELSE NoEntry]
        /\ Resolved(t, req[t].op, req[t].email)
     \/ Done(t) /\ UNCHANGED accountCache
  /\ began' = [began EXCEPT ![t] = 0]
  /\ UNCHANGED <<now, quotaCache, quotaLock>>

TakeImageLock(t) ==
  /\ pc[t] = "image_wait"
  /\ imageLock[req[t].email] = NoEntry
  /\ imageLock' = [imageLock EXCEPT ![req[t].email] = t]
  /\ pc' = [pc EXCEPT ![t] = "looking"]
  /\ UNCHANGED <<now, caches, quotaLock, req, began>>

-----------------------------------------------------------------------------
(* Fault: an account without quota is let through.                         *)
JudgeAny(t, quota) ==
  /\ \/ /\ req[t].op = "images"
        /\ pc' = [pc EXCEPT ![t] = "imaging"]
        /\ UNCHANGED <<imageLock, req>>
     \/ /\ req[t].op = "quota"
        /\ Done(t)

(* _cached_quota has returned.  A quota request is answered.  An image is  *)
(* made when the account may make one; after a failure it asks once more,  *)
(* by force.                                                               *)
Judge(t, quota) ==
  /\ \/ /\ req[t].op = "images" /\ quota.verdict = "imageable"
        /\ pc' = [pc EXCEPT ![t] = "imaging"]
        /\ UNCHANGED <<imageLock, req>>
     \/ /\ req[t].op = "images" /\ quota.verdict = "failed" /\ ~req[t].force
        /\ req' = [req EXCEPT ![t].force = TRUE]
        /\ pc' = [pc EXCEPT ![t] = "quota_wait"]
        /\ UNCHANGED imageLock
     \/ /\ \/ req[t].op = "quota"
           \/ quota.verdict = "insufficient"
           \/ quota.verdict = "failed" /\ req[t].force
        /\ Done(t)

(* _cached_quota's look before the lock, made by unforced calls only.      *)
Look(t) ==
  /\ pc[t] = "looking"
  /\ \/ /\ Fresh(quotaCache[req[t].email])
        /\ Judge(t, quotaCache[req[t].email])
     \/ /\ ~Fresh(quotaCache[req[t].email])
        /\ pc' = [pc EXCEPT ![t] = "quota_wait"]
        /\ UNCHANGED <<imageLock, req>>
  /\ UNCHANGED <<now, caches, quotaLock, began>>

Fetch(t) ==
  /\ quotaLock' = [quotaLock EXCEPT ![req[t].email] = t]
  /\ began' = [began EXCEPT ![t] = now]
  /\ pc' = [pc EXCEPT ![t] = "fetching"]
  /\ UNCHANGED <<imageLock, req>>

(* Faults: the second look is left out; the lock is not waited for.        *)
TakeQuotaLockBlindly(t) ==
  /\ pc[t] = "quota_wait"
  /\ quotaLock[req[t].email] = NoEntry
  /\ Fetch(t)
  /\ UNCHANGED <<now, caches>>

FetchUnlocked(t) ==
  /\ pc[t] = "quota_wait"
  /\ began' = [began EXCEPT ![t] = now]
  /\ pc' = [pc EXCEPT ![t] = "fetching"]
  /\ UNCHANGED <<now, caches, locks, req>>

(* The account's quota lock is taken: what another thread stored meanwhile *)
(* is served and the lock given back, or the quota is fetched under it.    *)
TakeQuotaLock(t) ==
  /\ pc[t] = "quota_wait"
  /\ quotaLock[req[t].email] = NoEntry
  /\ \/ /\ ~req[t].force /\ Fresh(quotaCache[req[t].email])
        /\ Judge(t, quotaCache[req[t].email])
        /\ UNCHANGED <<quotaLock, began>>
     \/ /\ req[t].force \/ ~Fresh(quotaCache[req[t].email])
        /\ Fetch(t)
  /\ UNCHANGED <<now, caches>>

(* Fault: a call that raises keeps the lock.                               *)
FetchRaisesLocked(t) ==
  /\ pc[t] = "fetching"
  /\ \/ \E verdict \in Verdicts :
          LET quota == [ts |-> Stamp, read |-> began[t], verdict |-> verdict] IN
          /\ quotaCache' = [quotaCache EXCEPT ![req[t].email] = quota]
          /\ quotaLock' = [quotaLock EXCEPT ![req[t].email] = NoEntry]
          /\ Judge(t, quota)
     \/ /\ Done(t)
        /\ UNCHANGED <<quotaCache, quotaLock>>
  /\ began' = [began EXCEPT ![t] = 0]
  /\ UNCHANGED <<now, accountCache>>

(* execute_quota comes back: its answer, a failure included, is stored; or *)
(* it raised (make_backend is outside its try) and the request fails.      *)
FetchReturns(t) ==
  /\ pc[t] = "fetching"
  /\ quotaLock' = [quotaLock EXCEPT ![req[t].email] = NoEntry]
  /\ \/ \E verdict \in Verdicts :
          LET quota == [ts |-> Stamp, read |-> began[t], verdict |-> verdict] IN
          /\ quotaCache' = [quotaCache EXCEPT ![req[t].email] = quota]
          /\ Judge(t, quota)
     \/ /\ Done(t)
        /\ UNCHANGED quotaCache
  /\ began' = [began EXCEPT ![t] = 0]
  /\ UNCHANGED <<now, accountCache>>

(* execute_image comes back (HelperImages models what it does).            *)
ImageEnds(t) ==
  /\ pc[t] = "imaging"
  /\ Done(t)
  /\ UNCHANGED <<now, caches, quotaLock, began>>

(* Time passes; a call under way ends within Latency.                      *)
Tick ==
  /\ now < MaxNow
  /\ \A t \in Threads : pc[t] \in InCall => now - began[t] < Latency
  /\ now' = now + 1
  /\ UNCHANGED <<caches, locks, pc, req, began>>

-----------------------------------------------------------------------------
Progress(t) ==
  \/ ListReturns(t)
  \/ TakeImageLock(t)
  \/ Look(t)
  \/ TakeQuotaLock(t)
  \/ FetchReturns(t)
  \/ ImageEnds(t)

Next ==
  \/ \E t \in Threads :
       \/ \E o \in Ops, e \in Emails : Begin(t, o, e)
       \/ Progress(t)
  \/ Tick

Spec == Init /\ [][Next]_vars

-----------------------------------------------------------------------------
(* Types, and no entry from the future.                                    *)
TypeOK ==
  /\ now \in 0..MaxNow
  /\ \A e \in Emails :
       /\ accountCache[e] # NoEntry =>
            accountCache[e] \in Rows /\ accountCache[e].ts <= now
       /\ quotaCache[e] # NoEntry =>
            quotaCache[e] \in Quotas /\ quotaCache[e].ts <= now
  /\ pc \in [Threads -> Places]
  /\ req \in [Threads -> [op : Ops \cup {"none"}, email : Emails, force : BOOLEAN]]
  /\ \A t \in Threads : began[t] \in 0..now

(* Nothing a request goes on with was read longer ago than the TTL and one *)
(* call: the account's row when it is served from its cache, and the quota *)
(* on which an image is made ("every entry is timestamped and re-read past *)
(* its TTL", openai_face.py:105-107).                                      *)
NothingServedStale ==
  [][\A t \in Threads :
       /\ pc[t] = "idle" /\ pc'[t] \notin {"idle", "listing"} /\ req'[t].email # Pin =>
            now - accountCache[req'[t].email].read < TTL + Latency
       /\ pc[t] # "imaging" /\ pc'[t] = "imaging" =>
            now - quotaCache'[req[t].email].read < TTL + Latency]_vars

(* "a burst of readers costs one upstream refresh, not one each"           *)
(* (openai_face.py:122-124): nobody asks the upstream about an account     *)
(* while another thread does, or, unforced, while a fresh answer is there. *)
BurstCostsOneRefresh ==
  [][\A t \in Threads :
       pc[t] # "fetching" /\ pc'[t] = "fetching" =>
         /\ \A u \in Threads \ {t} :
              ~(pc[u] = "fetching" /\ req[u].email = req[t].email)
         /\ req[t].force \/ ~Fresh(quotaCache[req[t].email])]_vars

(* A late answer never replaces a later one in the quota cache, forced     *)
(* refreshes included (openai_face.py:257-268).                            *)
QuotaNeverGoesBack ==
  [][\A e \in Emails :
       quotaCache[e] # NoEntry => /\ quotaCache'[e] # NoEntry
                                  /\ quotaCache'[e].read >= quotaCache[e].read]_vars

(* An image is made only on an answer, the cache's last, that the account  *)
(* may make one, and for one request of an account at a time               *)
(* (openai_face.py:524-569).                                               *)
ImagesAreGated ==
  [][\A t \in Threads : pc[t] # "imaging" /\ pc'[t] = "imaging" =>
       /\ quotaCache'[req[t].email].verdict = "imageable"
       /\ \A u \in Threads \ {t} :
            ~(pc[u] = "imaging" /\ req[u].email = req[t].email)]_vars

(* Each lock is held exactly by the request inside it: whatever raises,    *)
(* none is left locked and none is given back by another request           *)
(* (openai_face.py:257, 524).                                              *)
LocksHeldInside ==
  \A t \in Threads, e \in Emails :
    /\ quotaLock[e] = t <=> pc[t] = "fetching" /\ req[t].email = e
    /\ imageLock[e] = t <=>
         /\ pc[t] \in InQuota \cup {"imaging"}
         /\ req[t].op = "images" /\ req[t].email = e

=============================================================================
