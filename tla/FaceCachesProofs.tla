-------------------------- MODULE FaceCachesProofs --------------------------
(***************************************************************************)
(* Proofs about FaceCaches for any number of requests and accounts, any    *)
(* TTL and any latency.                                                    *)
(*                                                                         *)
(* The locks carry the argument: a thread that fetches an account's quota  *)
(* is the one that holds its quota lock, so nobody stores another answer   *)
(* while it is away, and what is in the cache was read before its call     *)
(* began.                                                                  *)
(***************************************************************************)
EXTENDS FaceCaches, TLAPS

Reqs == [op : Ops \cup {"none"}, email : Emails, force : BOOLEAN]

Typed ==
  /\ now \in Nat
  /\ DOMAIN accountCache = Emails /\ DOMAIN quotaCache = Emails
  /\ imageLock \in [Emails -> Threads \cup {NoEntry}]
  /\ quotaLock \in [Emails -> Threads \cup {NoEntry}]
  /\ pc \in [Threads -> Places]
  /\ req \in [Threads -> Reqs]
  /\ began \in [Threads -> Nat]

(* An entry was stored within a call of its reading.                       *)
Dated(entry) == entry.ts <= now /\ entry.read <= entry.ts /\ entry.ts - entry.read <= Latency

CachesDated ==
  \A e \in Emails :
    /\ accountCache[e] # NoEntry => accountCache[e] \in Rows /\ Dated(accountCache[e])
    /\ quotaCache[e] # NoEntry => quotaCache[e] \in Quotas /\ Dated(quotaCache[e])

(* A call under way began no longer ago than it may take, and what is in   *)
(* the cache was read before a fetch under way began.                      *)
CallsTimed ==
  \A t \in Threads :
    /\ began[t] <= now
    /\ pc[t] \in InCall => now - began[t] <= Latency

FetchesLater ==
  \A t \in Threads :
    pc[t] = "fetching" /\ quotaCache[req[t].email] # NoEntry =>
      quotaCache[req[t].email].read <= began[t]

(* What a thread's place says of its request.                              *)
PlacesFit ==
  \A t \in Threads :
    /\ pc[t] = "listing" => req[t].op \in Ops
    /\ pc[t] \in {"image_wait", "looking", "imaging"} => req[t].op = "images"
    /\ pc[t] \in {"quota_wait", "fetching"} => req[t].op \in {"quota", "images"}

ThreadsOK == CallsTimed /\ FetchesLater /\ PlacesFit

IInv == now <= MaxNow /\ Typed /\ CachesDated /\ ThreadsOK /\ LocksHeldInside

-----------------------------------------------------------------------------
LEMMA NoRequestType == NoRequest \in Reqs
BY NamesAssumption DEF NoRequest, Reqs

LEMMA InitOK == Init => IInv
<1> SUFFICES ASSUME Init PROVE IInv
  OBVIOUS
<1> USE NamesAssumption, TimesAssumption DEF Init
<1>1. now <= MaxNow /\ Typed
  BY NoRequestType DEF Typed, Places
<1>2. CachesDated
  BY DEF CachesDated
<1>3. ThreadsOK
  BY DEF ThreadsOK, CallsTimed, FetchesLater, PlacesFit, InCall
<1>4. LocksHeldInside
  BY DEF LocksHeldInside, InQuota
<1> QED BY <1>1, <1>2, <1>3, <1>4 DEF IInv

(* What an entry stored by t, whose call is over, is like.                 *)
LEMMA StampDated ==
  ASSUME IInv, NEW t \in Threads, pc[t] \in InCall
  PROVE  /\ now \in Nat /\ began[t] \in Nat
         /\ began[t] <= now /\ now - began[t] <= Latency
BY DEF IInv, Typed, ThreadsOK, CallsTimed, FetchesLater, PlacesFit

-----------------------------------------------------------------------------
(* Thread t goes to a place in S with a request of the types; it leaves    *)
(* others alone, and a request that goes on keeps its account and route.   *)
Moves(t, S) ==
  /\ pc' \in [Threads -> Places]
  /\ req' \in [Threads -> Reqs]
  /\ imageLock' \in [Emails -> Threads \cup {NoEntry}]
  /\ \A u \in Threads \ {t} : pc'[u] = pc[u] /\ req'[u] = req[u]
  /\ pc'[t] \in S
  /\ \/ pc'[t] = "done" /\ \A e \in Emails :
          imageLock'[e] = IF imageLock[e] = t THEN NoEntry ELSE imageLock[e]
     \/ pc'[t] # "done" /\ imageLock' = imageLock

LEMMA DoneMoves ==
  ASSUME IInv, NEW t \in Threads, Done(t)
  PROVE  Moves(t, {"done"})
<1> USE DEF IInv, Typed, Done, Moves
<1>1. pc' \in [Threads -> Places] /\ req' \in [Threads -> Reqs]
  BY NoRequestType DEF Places
<1> QED BY <1>1

LEMMA ResolvedMoves ==
  ASSUME IInv, NEW t \in Threads, NEW o \in Ops, NEW e \in Emails, Resolved(t, o, e)
  PROVE  /\ Moves(t, {"done", "quota_wait", "image_wait"})
         /\ pc'[t] # "done" =>
              /\ req'[t].op = IF pc'[t] = "quota_wait" THEN "quota" ELSE "images"
              /\ req'[t].email = e
<1>1. CASE Done(t)
  BY <1>1, DoneMoves DEF Done, Moves, IInv, Typed
<1>2. CASE /\ o # "chat"
           /\ pc' = [pc EXCEPT ![t] = IF o = "quota" THEN "quota_wait" ELSE "image_wait"]
           /\ req' = [req EXCEPT ![t] = [op |-> o, email |-> e, force |-> o = "quota"]]
           /\ UNCHANGED imageLock
  <2>1. [op |-> o, email |-> e, force |-> o = "quota"] \in Reqs
    BY DEF Reqs
  <2>2. pc' \in [Threads -> Places] /\ req' \in [Threads -> Reqs]
    BY <1>2, <2>1 DEF IInv, Typed, Places, InQuota
  <2>3. o = "quota" \/ o = "images"
    BY <1>2 DEF Ops
  <2> QED BY <1>2, <2>2, <2>3 DEF Moves, IInv, Typed
<1> QED BY <1>1, <1>2 DEF Resolved

LEMMA JudgeMoves ==
  ASSUME IInv, NEW t \in Threads, NEW quota, Judge(t, quota)
  PROVE  /\ Moves(t, {"done", "quota_wait", "imaging"})
         /\ pc'[t] # "done" => /\ req[t].op = "images" /\ req'[t].op = "images"
                               /\ req'[t].email = req[t].email
         /\ pc'[t] = "imaging" => quota.verdict = "imageable"
<1>1. CASE Done(t)
  BY <1>1, DoneMoves DEF Done, Moves, IInv, Typed
<1>2. CASE /\ req[t].op = "images" /\ quota.verdict = "imageable"
           /\ pc' = [pc EXCEPT ![t] = "imaging"]
           /\ UNCHANGED <<imageLock, req>>
  BY <1>2 DEF Moves, IInv, Typed, Places
<1>3. CASE /\ req[t].op = "images"
           /\ req' = [req EXCEPT ![t].force = TRUE]
           /\ pc' = [pc EXCEPT ![t] = "quota_wait"]
           /\ UNCHANGED imageLock
  <2>1. /\ req[t] \in Reqs
        /\ [req[t] EXCEPT !.force = TRUE] \in Reqs
        /\ [req[t] EXCEPT !.force = TRUE].op = req[t].op
        /\ [req[t] EXCEPT !.force = TRUE].email = req[t].email
    BY DEF IInv, Typed, Reqs
  <2>2. /\ req' \in [Threads -> Reqs]
        /\ req'[t] = [req[t] EXCEPT !.force = TRUE]
        /\ \A u \in Threads \ {t} : req'[u] = req[u]
    BY <1>3, <2>1 DEF IInv, Typed
  <2>3. pc' \in [Threads -> Places]
    BY <1>3 DEF IInv, Typed, Places, InQuota
  <2> QED BY <1>3, <2>1, <2>2, <2>3 DEF Moves, IInv, Typed
<1> QED BY <1>1, <1>2, <1>3 DEF Judge

-----------------------------------------------------------------------------
(* A thread outside holds no lock.                                         *)
LEMMA OutsideHoldsNone ==
  ASSUME IInv, NEW t \in Threads, pc[t] \in {"idle", "listing", "image_wait", "done"}
  PROVE  \A e \in Emails : imageLock[e] # t /\ quotaLock[e] # t
BY DEF IInv, LocksHeldInside, InQuota

LEMMA BeginOK ==
  ASSUME IInv, NEW t \in Threads, NEW o \in Ops, NEW e \in Emails, Begin(t, o, e)
  PROVE  IInv'
<1> DEFINE r == [op |-> o, email |-> e, force |-> o = "quota"]
<1>0. /\ now' = now /\ quotaCache' = quotaCache /\ quotaLock' = quotaLock
      /\ pc[t] = "idle"
      /\ accountCache' = accountCache \/ accountCache' = [accountCache EXCEPT ![e] = NoEntry]
      /\ began' = began \/ began' = [began EXCEPT ![t] = now]
      /\ pc'[t] = "listing" => began' = [began EXCEPT ![t] = now]
  BY DEF Begin, Resolved, Done, IInv, Typed
<1>1. Moves(t, {"done", "quota_wait", "image_wait", "listing"})
  <2>1. CASE Resolved(t, o, e)
    BY <2>1, ResolvedMoves DEF Moves
  <2>2. CASE /\ pc' = [pc EXCEPT ![t] = "listing"]
             /\ req' = [req EXCEPT ![t] = r]
             /\ UNCHANGED imageLock
    <3>1. r \in Reqs
      BY DEF Reqs
    <3> QED BY <2>2, <3>1 DEF Moves, IInv, Typed, Places, InCall
  <2> QED BY <2>1, <2>2 DEF Begin
<1>6. /\ pc'[t] # "done" => req'[t].email = e
      /\ pc'[t] = "listing" => req'[t].op = o
      /\ pc'[t] = "image_wait" => req'[t].op = "images"
      /\ pc'[t] = "quota_wait" => req'[t].op = "quota"
  <2>1. CASE Resolved(t, o, e)
    BY <2>1, ResolvedMoves DEF Moves
  <2>2. CASE /\ pc' = [pc EXCEPT ![t] = "listing"]
             /\ req' = [req EXCEPT ![t] = r]
    BY <2>2 DEF IInv, Typed
  <2> QED BY <2>1, <2>2 DEF Begin
<1>2. Typed'
  BY <1>0, <1>1 DEF Moves, IInv, Typed
<1>3. CachesDated'
  BY <1>0 DEF IInv, Typed, CachesDated, Dated
<1>4. ThreadsOK'
  <2>1. CallsTimed'
    BY <1>0, <1>1, <1>6, TimesAssumption DEF Moves, InCall, IInv, Typed, ThreadsOK, CallsTimed
  <2>2. FetchesLater'
    BY <1>0, <1>1, <1>6 DEF Moves, InCall, IInv, Typed, ThreadsOK, FetchesLater
  <2>3. PlacesFit'
    BY <1>0, <1>1, <1>6 DEF Moves, InCall, IInv, Typed, ThreadsOK, PlacesFit
  <2> QED BY <2>1, <2>2, <2>3 DEF ThreadsOK
<1>5. LocksHeldInside'
  BY <1>0, <1>1, <1>6, OutsideHoldsNone DEF Moves, IInv, Typed, LocksHeldInside, InQuota
<1> QED BY <1>2, <1>3, <1>4, <1>5, <1>0 DEF IInv

LEMMA ListReturnsOK ==
  ASSUME IInv, NEW t \in Threads, ListReturns(t)
  PROVE  IInv'
<1>0. /\ now' = now /\ quotaCache' = quotaCache /\ quotaLock' = quotaLock
      /\ pc[t] = "listing" /\ began' = [began EXCEPT ![t] = 0]
  BY DEF ListReturns
<1>7. req[t].op \in Ops /\ req[t].email \in Emails
  BY <1>0 DEF IInv, Typed, Reqs, ThreadsOK, PlacesFit
<1>1. /\ Moves(t, {"done", "quota_wait", "image_wait"})
      /\ pc'[t] = "quota_wait" => req'[t].op = "quota"
      /\ pc'[t] = "image_wait" => req'[t].op = "images"
  BY <1>7, ResolvedMoves, DoneMoves DEF ListReturns, Moves
<1>8. DOMAIN accountCache' = Emails
  BY DEF ListReturns, IInv, Typed
<1>2. Typed'
  BY <1>0, <1>1, <1>8 DEF Moves, IInv, Typed
<1>3. CachesDated'
  BY <1>0, StampDated DEF ListReturns, IInv, Typed, CachesDated, Dated, Rows, Stamp, InCall
<1>4. ThreadsOK'
  <2>1. CallsTimed'
    BY <1>0, <1>1, TimesAssumption DEF Moves, InCall, IInv, Typed, ThreadsOK, CallsTimed
  <2>2. FetchesLater'
    BY <1>0, <1>1 DEF Moves, InCall, IInv, Typed, ThreadsOK, FetchesLater
  <2>3. PlacesFit'
    BY <1>0, <1>1 DEF Moves, InCall, IInv, Typed, ThreadsOK, PlacesFit
  <2> QED BY <2>1, <2>2, <2>3 DEF ThreadsOK
<1>5. LocksHeldInside'
  BY <1>0, <1>1, OutsideHoldsNone DEF Moves, IInv, Typed, LocksHeldInside, InQuota
<1> QED BY <1>2, <1>3, <1>4, <1>5, <1>0 DEF IInv

LEMMA TakeImageLockOK ==
  ASSUME IInv, NEW t \in Threads, TakeImageLock(t)
  PROVE  IInv'
<1>0. /\ now' = now /\ UNCHANGED <<accountCache, quotaCache, quotaLock, req, began>>
      /\ pc[t] = "image_wait" /\ pc' = [pc EXCEPT ![t] = "looking"]
      /\ req[t].op = "images" /\ req[t].email \in Emails
      /\ imageLock' = [imageLock EXCEPT ![req[t].email] = t]
      /\ imageLock[req[t].email] = NoEntry
  BY DEF TakeImageLock, caches, IInv, Typed, Reqs, ThreadsOK, PlacesFit
<1>2. Typed'
  BY <1>0 DEF IInv, Typed, Places, InQuota
<1>3. CachesDated'
  BY <1>0 DEF IInv, CachesDated, Dated
<1>4. ThreadsOK'
  <2>1. CallsTimed'
    BY <1>0, TimesAssumption DEF InCall, IInv, Typed, ThreadsOK, CallsTimed
  <2>2. FetchesLater'
    BY <1>0 DEF InCall, IInv, Typed, ThreadsOK, FetchesLater
  <2>3. PlacesFit'
    BY <1>0 DEF InCall, IInv, Typed, ThreadsOK, PlacesFit
  <2> QED BY <2>1, <2>2, <2>3 DEF ThreadsOK
<1>5. LocksHeldInside'
  BY <1>0, OutsideHoldsNone, NamesAssumption DEF IInv, Typed, LocksHeldInside, InQuota
<1> QED BY <1>2, <1>3, <1>4, <1>5, <1>0 DEF IInv

LEMMA ImageEndsOK ==
  ASSUME IInv, NEW t \in Threads, ImageEnds(t)
  PROVE  IInv'
<1>0. /\ now' = now /\ UNCHANGED <<accountCache, quotaCache, quotaLock, began>>
      /\ pc[t] = "imaging"
  BY DEF ImageEnds, caches
<1>1. Moves(t, {"done"})
  BY DoneMoves DEF ImageEnds
<1>2. Typed'
  BY <1>0, <1>1 DEF Moves, IInv, Typed
<1>3. CachesDated'
  BY <1>0 DEF IInv, CachesDated, Dated
<1>4. ThreadsOK'
  <2>1. CallsTimed'
    BY <1>0, <1>1, TimesAssumption DEF Moves, InCall, IInv, Typed, ThreadsOK, CallsTimed
  <2>2. FetchesLater'
    BY <1>0, <1>1 DEF Moves, InCall, IInv, Typed, ThreadsOK, FetchesLater
  <2>3. PlacesFit'
    BY <1>0, <1>1 DEF Moves, InCall, IInv, Typed, ThreadsOK, PlacesFit
  <2> QED BY <2>1, <2>2, <2>3 DEF ThreadsOK
<1>5. LocksHeldInside'
  BY <1>0, <1>1, NamesAssumption DEF Moves, IInv, Typed, LocksHeldInside, InQuota
<1> QED BY <1>2, <1>3, <1>4, <1>5, <1>0 DEF IInv

LEMMA LookOK ==
  ASSUME IInv, NEW t \in Threads, Look(t)
  PROVE  IInv'
<1>0. /\ now' = now /\ UNCHANGED <<accountCache, quotaCache, quotaLock, began>>
      /\ pc[t] = "looking" /\ req[t].op = "images" /\ req[t].email \in Emails
  BY DEF Look, caches, IInv, Typed, Reqs, ThreadsOK, PlacesFit
<1>1. /\ Moves(t, {"done", "quota_wait", "imaging"})
      /\ pc'[t] \in {"quota_wait", "imaging"} =>
           /\ req[t].op = "images" /\ req'[t].op = "images"
           /\ req'[t].email = req[t].email
  <2>1. CASE Judge(t, quotaCache[req[t].email])
    BY <2>1, JudgeMoves DEF Moves
  <2>2. CASE pc' = [pc EXCEPT ![t] = "quota_wait"] /\ UNCHANGED <<imageLock, req>>
    BY <1>0, <2>2 DEF Moves, IInv, Typed, Places, InQuota
  <2> QED BY <2>1, <2>2 DEF Look
<1>2. Typed'
  BY <1>0, <1>1 DEF Moves, IInv, Typed
<1>3. CachesDated'
  BY <1>0 DEF IInv, CachesDated, Dated
<1>4. ThreadsOK'
  <2>1. CallsTimed'
    BY <1>0, <1>1, TimesAssumption DEF Moves, InCall, IInv, Typed, ThreadsOK, CallsTimed
  <2>2. FetchesLater'
    BY <1>0, <1>1 DEF Moves, InCall, IInv, Typed, ThreadsOK, FetchesLater
  <2>3. PlacesFit'
    BY <1>0, <1>1 DEF Moves, InCall, IInv, Typed, ThreadsOK, PlacesFit
  <2> QED BY <2>1, <2>2, <2>3 DEF ThreadsOK
<1>5. LocksHeldInside'
  BY <1>0, <1>1, NamesAssumption DEF Moves, IInv, Typed, LocksHeldInside, InQuota
<1> QED BY <1>2, <1>3, <1>4, <1>5, <1>0 DEF IInv

LEMMA TakeQuotaLockOK ==
  ASSUME IInv, NEW t \in Threads, TakeQuotaLock(t)
  PROVE  IInv'
<1>0. /\ now' = now /\ UNCHANGED <<accountCache, quotaCache>>
      /\ pc[t] = "quota_wait" /\ req[t].email \in Emails
      /\ quotaLock[req[t].email] = NoEntry
      /\ \A e \in Emails : quotaLock[e] # t
      /\ req[t].op \in {"quota", "images"}
  BY DEF TakeQuotaLock, caches, IInv, Typed, Reqs, ThreadsOK, PlacesFit, LocksHeldInside
<1>1. /\ Moves(t, {"done", "quota_wait", "imaging", "fetching"})
      /\ pc'[t] \in {"quota_wait", "imaging"} =>
           /\ req[t].op = "images" /\ req'[t].op = "images"
           /\ req'[t].email = req[t].email
      /\ IF pc'[t] = "fetching"
         THEN /\ quotaLock' = [quotaLock EXCEPT ![req[t].email] = t]
              /\ began' = [began EXCEPT ![t] = now] /\ req' = req
         ELSE UNCHANGED <<quotaLock, began>>
  <2>1. CASE Judge(t, quotaCache[req[t].email]) /\ UNCHANGED <<quotaLock, began>>
    BY <2>1, JudgeMoves DEF Moves
  <2>2. CASE Fetch(t)
    BY <1>0, <2>2 DEF Fetch, Moves, IInv, Typed, Places, InQuota, InCall
  <2> QED BY <2>1, <2>2 DEF TakeQuotaLock
<1>2. Typed'
  BY <1>0, <1>1 DEF Moves, IInv, Typed
<1>3. CachesDated'
  BY <1>0 DEF IInv, CachesDated, Dated
<1>6. quotaCache[req[t].email] # NoEntry =>
        /\ quotaCache[req[t].email].read \in Nat /\ quotaCache[req[t].email].ts \in Nat
        /\ quotaCache[req[t].email].read <= quotaCache[req[t].email].ts
        /\ quotaCache[req[t].email].ts <= now
  BY <1>0 DEF IInv, CachesDated, Dated, Quotas
<1>4. ThreadsOK'
  <2>1. CallsTimed'
    BY <1>0, <1>1, <1>6, TimesAssumption DEF Moves, InCall, IInv, Typed, ThreadsOK, CallsTimed
  <2>2. FetchesLater'
    BY <1>0, <1>1, <1>6 DEF Moves, InCall, IInv, Typed, ThreadsOK, FetchesLater
  <2>3. PlacesFit'
    BY <1>0, <1>1, <1>6 DEF Moves, InCall, IInv, Typed, ThreadsOK, PlacesFit
  <2> QED BY <2>1, <2>2, <2>3 DEF ThreadsOK
<1>5. LocksHeldInside'
  BY <1>0, <1>1, NamesAssumption DEF Moves, IInv, Typed, LocksHeldInside, InQuota
<1> QED BY <1>2, <1>3, <1>4, <1>5, <1>0 DEF IInv

LEMMA FetchReturnsOK ==
  ASSUME IInv, NEW t \in Threads, FetchReturns(t)
  PROVE  IInv'
<1>0. /\ now' = now /\ accountCache' = accountCache
      /\ pc[t] = "fetching" /\ req[t].email \in Emails
      /\ quotaLock' = [quotaLock EXCEPT ![req[t].email] = NoEntry]
      /\ began' = [began EXCEPT ![t] = 0]
      /\ \/ quotaCache' = quotaCache
         \/ \E verdict \in Verdicts :
              quotaCache' = [quotaCache EXCEPT ![req[t].email] =
                [ts |-> Stamp, read |-> began[t], verdict |-> verdict]]
      /\ req[t].op \in {"quota", "images"}
  BY DEF FetchReturns, IInv, Typed, Reqs, ThreadsOK, PlacesFit
<1>1. /\ Moves(t, {"done", "quota_wait", "imaging"})
      /\ pc'[t] \in {"quota_wait", "imaging"} =>
           /\ req[t].op = "images" /\ req'[t].op = "images"
           /\ req'[t].email = req[t].email
  BY JudgeMoves, DoneMoves DEF FetchReturns, Moves
<1>2. Typed'
  BY <1>0, <1>1 DEF Moves, IInv, Typed
<1>3. CachesDated'
  <2>1. CASE quotaCache' = quotaCache
    BY <1>0, <2>1 DEF IInv, CachesDated, Dated
  <2>2. ASSUME NEW verdict \in Verdicts,
               quotaCache' = [quotaCache EXCEPT ![req[t].email] =
                 [ts |-> Stamp, read |-> began[t], verdict |-> verdict]]
        PROVE  CachesDated'
    <3> DEFINE quota == [ts |-> now, read |-> began[t], verdict |-> verdict]
    <3>1. /\ quota \in Quotas
          /\ quota.ts <= now /\ quota.read <= quota.ts /\ quota.ts - quota.read <= Latency
      BY <1>0, StampDated DEF Quotas, InCall
    <3>2. \A e \in Emails : quotaCache'[e] = IF e = req[t].email THEN quota ELSE quotaCache[e]
      BY <1>0, <2>2 DEF Stamp, IInv, Typed
    <3> HIDE DEF quota
    <3> QED BY <1>0, <3>1, <3>2 DEF IInv, CachesDated, Dated
  <2> QED BY <1>0, <2>1, <2>2
<1>6. /\ \A u \in Threads \ {t} :
           ~(pc[u] = "fetching" /\ req[u].email = req[t].email)
      /\ \A e \in Emails : quotaLock[e] = t => e = req[t].email
      /\ \A e \in Emails \ {req[t].email} : quotaCache'[e] = quotaCache[e]
  <2>1. quotaLock[req[t].email] = t
    BY <1>0 DEF IInv, LocksHeldInside
  <2>2. \A e \in Emails \ {req[t].email} : quotaCache'[e] = quotaCache[e]
    BY <1>0 DEF IInv, Typed
  <2> QED BY <1>0, <2>1, <2>2 DEF IInv, LocksHeldInside
<1>4. ThreadsOK'
  <2>1. CallsTimed'
    BY <1>0, <1>1, <1>6, TimesAssumption DEF Moves, InCall, Reqs, IInv, Typed, ThreadsOK, CallsTimed
  <2>2. FetchesLater'
    <3> SUFFICES ASSUME NEW u \in Threads,
                        pc'[u] = "fetching", quotaCache'[req'[u].email] # NoEntry
                 PROVE  quotaCache'[req'[u].email].read <= began'[u]
      BY DEF FetchesLater
    <3>1. u # t
      BY <1>1 DEF Moves
    <3>2. pc[u] = "fetching" /\ req'[u] = req[u] /\ began'[u] = began[u]
      BY <1>0, <1>1, <3>1 DEF Moves, IInv, Typed
    <3>3. req[u].email \in Emails \ {req[t].email}
      BY <1>6, <3>1, <3>2 DEF IInv, Typed, Reqs
    <3> QED BY <1>6, <3>2, <3>3 DEF IInv, ThreadsOK, FetchesLater
  <2>3. PlacesFit'
    BY <1>0, <1>1, <1>6 DEF Moves, InCall, Reqs, IInv, Typed, ThreadsOK, PlacesFit
  <2> QED BY <2>1, <2>2, <2>3 DEF ThreadsOK
<1>5. LocksHeldInside'
  <2> SUFFICES ASSUME NEW u \in Threads, NEW e \in Emails
               PROVE  /\ quotaLock'[e] = u <=> pc'[u] = "fetching" /\ req'[u].email = e
                      /\ imageLock'[e] = u <=>
                           /\ pc'[u] \in InQuota \cup {"imaging"}
                           /\ req'[u].op = "images" /\ req'[u].email = e
    BY DEF LocksHeldInside
  <2>1. /\ quotaLock[e] = u <=> pc[u] = "fetching" /\ req[u].email = e
        /\ imageLock[e] = u <=>
             /\ pc[u] \in InQuota \cup {"imaging"}
             /\ req[u].op = "images" /\ req[u].email = e
    BY DEF IInv, LocksHeldInside
  <2>2. quotaLock'[e] = IF e = req[t].email THEN NoEntry ELSE quotaLock[e]
    BY <1>0 DEF IInv, Typed
  <2>3. CASE u = t
    BY <1>0, <1>1, <2>1, <2>2, <2>3, NamesAssumption DEF Moves, InQuota
  <2>4. CASE u # t
    BY <1>0, <1>1, <1>6, <2>1, <2>2, <2>4, NamesAssumption DEF Moves
  <2> QED BY <2>3, <2>4
<1> QED BY <1>2, <1>3, <1>4, <1>5, <1>0 DEF IInv

LEMMA TickOK == IInv /\ Tick => IInv'
<1> SUFFICES ASSUME IInv, Tick PROVE IInv'
  OBVIOUS
<1> USE TimesAssumption DEF Tick, caches, locks
<1>1. now' <= MaxNow /\ Typed'
  BY DEF IInv, Typed
<1>2. CachesDated'
  BY DEF IInv, Typed, CachesDated, Dated, Rows, Quotas
<1>3. ThreadsOK'
  <2>1. CallsTimed'
    BY DEF IInv, Typed, ThreadsOK, CallsTimed
  <2>2. FetchesLater'
    BY DEF IInv, Typed, ThreadsOK, FetchesLater, PlacesFit
  <2>3. PlacesFit'
    BY DEF IInv, Typed, ThreadsOK, PlacesFit
  <2> QED BY <2>1, <2>2, <2>3 DEF ThreadsOK
<1>4. LocksHeldInside'
  BY DEF IInv, LocksHeldInside
<1> QED BY <1>1, <1>2, <1>3, <1>4 DEF IInv

LEMMA NextOK == IInv /\ [Next]_vars => IInv'
<1> SUFFICES ASSUME IInv, [Next]_vars PROVE IInv'
  OBVIOUS
<1>1. ASSUME NEW t \in Threads, NEW o \in Ops, NEW e \in Emails, Begin(t, o, e)
      PROVE  IInv'
  BY <1>1, BeginOK
<1>2. ASSUME NEW t \in Threads, Progress(t)
      PROVE  IInv'
  BY <1>2, ListReturnsOK, TakeImageLockOK, LookOK, TakeQuotaLockOK,
     FetchReturnsOK, ImageEndsOK DEF Progress
<1>3. CASE UNCHANGED vars
  BY <1>3 DEF vars, caches, locks, IInv, Typed, CachesDated, Dated, ThreadsOK,
              CallsTimed, FetchesLater, PlacesFit, LocksHeldInside
<1> QED BY <1>1, <1>2, <1>3, TickOK DEF Next

LEMMA Inductive == Spec => []IInv
BY InitOK, NextOK, PTL DEF Spec

-----------------------------------------------------------------------------
(* Type correctness, and no entry from the future.                         *)
THEOREM TypeCorrect == Spec => []TypeOK
<1>1. IInv => TypeOK
  BY TimesAssumption DEF IInv, Typed, Reqs, CachesDated, Dated, ThreadsOK, CallsTimed, TypeOK
<1> QED BY <1>1, Inductive, PTL

(* Each lock is held exactly by the request inside it                      *)
(* (openai_face.py:257, 524).                                              *)
THEOREM LocksAreHeldInside == Spec => []LocksHeldInside
<1>1. IInv => LocksHeldInside
  BY DEF IInv
<1> QED BY <1>1, Inductive, PTL

(* A step of thread t other than one of u's leaves u's place alone.        *)
LEMMA OneMoves ==
  ASSUME IInv, [Next]_vars, NEW t \in Threads, pc'[t] # pc[t]
  PROVE  \/ \E o \in Ops, e \in Emails : Begin(t, o, e)
         \/ Progress(t)
<1>1. ASSUME NEW u \in Threads, u # t,
             \/ \E o \in Ops, e \in Emails : Begin(u, o, e)
             \/ Progress(u)
      PROVE  FALSE
  BY <1>1 DEF IInv, Typed, Progress, Begin, ListReturns, TakeImageLock, Look,
              TakeQuotaLock, FetchReturns, ImageEnds, Fetch, Judge, Done, Resolved
<1>2. ~Tick /\ ~UNCHANGED vars
  BY DEF Tick, vars
<1> QED BY <1>1, <1>2 DEF Next

(* The quota lock lets one thread at a time refresh an account's quota,    *)
(* and a thread that waited for it looks again (openai_face.py:253-265).   *)
THEOREM BurstsCostOneRefresh == Spec => BurstCostsOneRefresh
<1> DEFINE Goal(t) ==
      pc[t] # "fetching" /\ pc'[t] = "fetching" =>
        /\ \A u \in Threads \ {t} :
             ~(pc[u] = "fetching" /\ req[u].email = req[t].email)
        /\ req[t].force \/ ~Fresh(quotaCache[req[t].email])
<1>1. IInv /\ [Next]_vars => \A t \in Threads : Goal(t)
  <2> SUFFICES ASSUME IInv, [Next]_vars, NEW t \in Threads,
                      pc[t] # "fetching", pc'[t] = "fetching"
               PROVE  Goal(t)
    OBVIOUS
  <2>1. TakeQuotaLock(t)
    BY OneMoves DEF IInv, Typed, Progress, Begin, ListReturns, TakeImageLock, Look,
                    FetchReturns, ImageEnds, Judge, Done, Resolved
  <2>2. quotaLock[req[t].email] = NoEntry /\ (req[t].force \/ ~Fresh(quotaCache[req[t].email]))
    BY <2>1 DEF TakeQuotaLock, Judge, Done, IInv, Typed
  <2>3. req[t].email \in Emails
    BY DEF IInv, Typed, Reqs
  <2> QED BY <2>2, <2>3, NamesAssumption DEF IInv, LocksHeldInside
<1> QED BY <1>1, Inductive, PTL DEF Spec, BurstCostsOneRefresh

(* Under the lock, answers are stored in the order their calls began       *)
(* (openai_face.py:257-268).                                               *)
THEOREM QuotaGoesForward == Spec => QuotaNeverGoesBack
<1> DEFINE Goal(e) ==
      quotaCache[e] # NoEntry => /\ quotaCache'[e] # NoEntry
                                 /\ quotaCache'[e].read >= quotaCache[e].read
<1>1. IInv /\ [Next]_vars => \A e \in Emails : Goal(e)
  <2> SUFFICES ASSUME IInv, [Next]_vars, NEW e \in Emails, quotaCache[e] # NoEntry
               PROVE  Goal(e)
    OBVIOUS
  <2>0. quotaCache[e].read \in Nat
    BY DEF IInv, CachesDated, Quotas
  <2>1. CASE quotaCache' = quotaCache
    BY <2>0, <2>1
  <2>2. ASSUME NEW t \in Threads, FetchReturns(t)
        PROVE  Goal(e)
    <3>1. CASE quotaCache' = quotaCache
      BY <2>0, <3>1
    <3>2. ASSUME NEW verdict \in Verdicts,
                 quotaCache' = [quotaCache EXCEPT ![req[t].email] =
                   [ts |-> Stamp, read |-> began[t], verdict |-> verdict]]
          PROVE  Goal(e)
      <4> DEFINE quota == [ts |-> Stamp, read |-> began[t], verdict |-> verdict]
      <4>1. CASE e # req[t].email
        BY <2>0, <3>2, <4>1
      <4>2. CASE e = req[t].email
        <5>1. quotaCache'[e] = quota /\ quota.read = began[t]
          BY <3>2, <4>2 DEF IInv, Typed
        <5>2. quotaCache[e].read <= began[t] /\ began[t] \in Nat
          BY <2>2, <4>2 DEF FetchReturns, IInv, Typed, ThreadsOK, FetchesLater
        <5>3. quota \in Quotas
          <6>1. began[t] \in Nat /\ Stamp \in Nat
            BY DEF IInv, Typed, Stamp
          <6> QED BY <6>1 DEF Quotas
        <5>4. quotaCache'[e] # NoEntry
          BY <5>1, <5>3, EntriesAssumption
        <5> QED BY <2>0, <5>1, <5>2, <5>4
      <4> QED BY <4>1, <4>2
    <3> QED BY <2>2, <3>1, <3>2 DEF FetchReturns
  <2>3. (\E t \in Threads : FetchReturns(t)) \/ quotaCache' = quotaCache
    BY DEF Next, Progress, Begin, ListReturns, TakeImageLock, Look, TakeQuotaLock,
           ImageEnds, Tick, vars, caches
  <2> QED BY <2>1, <2>2, <2>3
<1> QED BY <1>1, Inductive, PTL DEF Spec, QuotaNeverGoesBack

-----------------------------------------------------------------------------
(* A thread starts an image at the end of _cached_quota, whichever way it  *)
(* goes, on an entry of the cache that says "imageable".                   *)
LEMMA StartsFromCache ==
  ASSUME IInv, [Next]_vars, NEW t \in Threads, pc[t] # "imaging", pc'[t] = "imaging"
  PROVE  /\ req[t].op = "images" /\ req[t].email \in Emails
         /\ pc[t] \in InQuota
         /\ quotaCache'[req[t].email].verdict = "imageable"
         /\ now' = now
         /\ \/ quotaCache' = quotaCache /\ Fresh(quotaCache[req[t].email])
            \/ /\ pc[t] = "fetching"
               /\ quotaCache'[req[t].email].read = began[t]
<1> DEFINE e == req[t].email
<1>0. e \in Emails
  BY DEF IInv, Typed, Reqs
<1>1. Look(t) \/ TakeQuotaLock(t) \/ FetchReturns(t)
  BY OneMoves DEF IInv, Typed, Progress, Begin, ListReturns, TakeImageLock,
                  ImageEnds, Done, Resolved
<1>2. ~Done(t)
  BY DEF Done, IInv, Typed
<1>3. CASE Look(t)
  <2>1. Fresh(quotaCache[e]) /\ Judge(t, quotaCache[e])
    BY <1>3 DEF Look, IInv, Typed
  <2>2. quotaCache[e].verdict = "imageable" /\ req[t].op = "images"
    BY <1>2, <2>1, JudgeMoves
  <2> QED BY <1>0, <1>3, <2>1, <2>2 DEF Look, caches, InQuota
<1>4. CASE TakeQuotaLock(t)
  <2>1. Fresh(quotaCache[e]) /\ Judge(t, quotaCache[e])
    BY <1>4 DEF TakeQuotaLock, Fetch, IInv, Typed
  <2>2. quotaCache[e].verdict = "imageable" /\ req[t].op = "images"
    BY <1>2, <2>1, JudgeMoves
  <2> QED BY <1>0, <1>4, <2>1, <2>2 DEF TakeQuotaLock, caches, InQuota
<1>5. CASE FetchReturns(t)
  <2>1. PICK verdict \in Verdicts :
          LET quota == [ts |-> Stamp, read |-> began[t], verdict |-> verdict] IN
          /\ quotaCache' = [quotaCache EXCEPT ![e] = quota]
          /\ Judge(t, quota)
    BY <1>2, <1>5 DEF FetchReturns
  <2> DEFINE quota == [ts |-> Stamp, read |-> began[t], verdict |-> verdict]
  <2>2. quotaCache'[e] = quota
    BY <1>0, <2>1 DEF IInv, Typed
  <2>3. quota.verdict = "imageable" /\ req[t].op = "images"
    BY <1>2, <2>1, JudgeMoves
  <2> QED BY <1>0, <1>5, <2>2, <2>3 DEF FetchReturns, InQuota
<1> QED BY <1>1, <1>3, <1>4, <1>5

(* The image lock lets one request of an account at a time through the     *)
(* gate, and the gate lets it through on an "imageable" answer             *)
(* (openai_face.py:524-569).                                               *)
THEOREM ImagesPassTheGate == Spec => ImagesAreGated
<1> DEFINE Goal(t) ==
      pc[t] # "imaging" /\ pc'[t] = "imaging" =>
        /\ quotaCache'[req[t].email].verdict = "imageable"
        /\ \A u \in Threads \ {t} :
             ~(pc[u] = "imaging" /\ req[u].email = req[t].email)
<1>1. IInv /\ [Next]_vars => \A t \in Threads : Goal(t)
  <2> SUFFICES ASSUME IInv, [Next]_vars, NEW t \in Threads,
                      pc[t] # "imaging", pc'[t] = "imaging"
               PROVE  Goal(t)
    OBVIOUS
  <2>1. imageLock[req[t].email] = t
    BY StartsFromCache DEF IInv, LocksHeldInside
  <2>2. \A u \in Threads : pc[u] = "imaging" /\ req[u].email = req[t].email =>
                              imageLock[req[t].email] = u
    BY StartsFromCache DEF IInv, LocksHeldInside, ThreadsOK, PlacesFit
  <2> QED BY <2>1, <2>2, StartsFromCache
<1> QED BY <1>1, Inductive, PTL DEF Spec, ImagesAreGated

(* What is served from a cache is fresh, and was stored within a call of   *)
(* its reading (openai_face.py:105-107).                                   *)
THEOREM EntriesAreServedFresh == Spec => NothingServedStale
<1> DEFINE Row(t) ==
      pc[t] = "idle" /\ pc'[t] \notin {"idle", "listing"} /\ req'[t].email # Pin =>
        now - accountCache[req'[t].email].read < TTL + Latency
    Image(t) ==
      pc[t] # "imaging" /\ pc'[t] = "imaging" =>
        now - quotaCache'[req[t].email].read < TTL + Latency
<1>1. IInv /\ [Next]_vars => \A t \in Threads : Row(t)
  <2> SUFFICES ASSUME IInv, [Next]_vars, NEW t \in Threads, pc[t] = "idle",
                      pc'[t] \notin {"idle", "listing"}, req'[t].email # Pin
               PROVE  now - accountCache[req'[t].email].read < TTL + Latency
    OBVIOUS
  <2>1. PICK o \in Ops, e \in Emails : Begin(t, o, e)
    BY OneMoves DEF Progress, ListReturns, TakeImageLock, Look, TakeQuotaLock,
                    FetchReturns, ImageEnds
  <2>2. Resolved(t, o, e) /\ (e = Pin \/ Fresh(accountCache[e]))
    BY <2>1 DEF Begin, IInv, Typed
  <2>3. CASE Done(t)
    BY <2>3, NoRequestType DEF Done, NoRequest, IInv, Typed
  <2>4. CASE ~Done(t)
    <3>1. req'[t].email = e
      BY <2>2, <2>4 DEF Resolved, IInv, Typed
    <3>2. Fresh(accountCache[e])
      BY <2>2, <3>1
    <3>3. /\ accountCache[e] \in Rows /\ Dated(accountCache[e])
          /\ now - accountCache[e].ts < TTL
      BY <3>2 DEF Fresh, IInv, CachesDated
    <3> QED BY <3>1, <3>3, TimesAssumption DEF Dated, Rows, IInv, Typed
  <2> QED BY <2>3, <2>4
<1>2. IInv /\ [Next]_vars => \A t \in Threads : Image(t)
  <2> SUFFICES ASSUME IInv, [Next]_vars, NEW t \in Threads,
                      pc[t] # "imaging", pc'[t] = "imaging"
               PROVE  now - quotaCache'[req[t].email].read < TTL + Latency
    OBVIOUS
  <2> DEFINE e == req[t].email
  <2>1. CASE quotaCache' = quotaCache /\ Fresh(quotaCache[e])
    <3>1. /\ quotaCache[e] \in Quotas /\ Dated(quotaCache[e])
          /\ now - quotaCache[e].ts < TTL
      BY <2>1, StartsFromCache DEF Fresh, IInv, CachesDated
    <3> QED BY <2>1, <3>1, TimesAssumption DEF Dated, Quotas, IInv, Typed
  <2>2. CASE pc[t] = "fetching" /\ quotaCache'[e].read = began[t]
    BY <2>2, StampDated, TimesAssumption DEF InCall
  <2> QED BY <2>1, <2>2, StartsFromCache
<1>3. IInv /\ [Next]_vars => \A t \in Threads :
        /\ pc[t] = "idle" /\ pc'[t] \notin {"idle", "listing"} /\ req'[t].email # Pin =>
             now - accountCache[req'[t].email].read < TTL + Latency
        /\ pc[t] # "imaging" /\ pc'[t] = "imaging" =>
             now - quotaCache'[req[t].email].read < TTL + Latency
  BY <1>1, <1>2
<1> QED BY <1>3, Inductive, PTL DEF Spec, NothingServedStale

=============================================================================
