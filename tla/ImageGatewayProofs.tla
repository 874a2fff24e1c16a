------------------------- MODULE ImageGatewayProofs -------------------------
(***************************************************************************)
(* Proofs about ImageGateway for every set of requests, every pool and     *)
(* every number of permits and attempts.                                   *)
(*                                                                         *)
(* The inductive invariant has two halves.  SemInv is about the semaphore: *)
(* who is queued, who owns a permit, how many are left.  ReqOK(r) is about *)
(* one request: how its place, its candidates and its attempts fit         *)
(* together.  The two meet in Moves: whatever one handler does to the      *)
(* semaphore, another request either stays where it is or goes from        *)
(* "waiting" to "granted".                                                 *)
(***************************************************************************)
EXTENDS ImageGateway, SequenceTheorems, FiniteSetTheorems, TLAPS

SemType ==
  /\ free \in 0..Permits
  /\ queue \in Seq(Requests)
  /\ pc \in [Requests -> Places]

SemInv == SemType /\ QueueConsistent /\ PermitsConserved

(* A request that neither owns a permit nor waits for one.                 *)
Outside(r) == pc[r] \notin Holding /\ pc[r] # "waiting"

(* r goes to one of the places in S; nobody else moves, except that a      *)
(* waiter may be granted a permit.                                         *)
Moves(r, S) ==
  /\ pc'[r] \in S
  /\ \A q \in Requests \ {r} :
       pc'[q] = pc[q] \/ (pc[q] = "waiting" /\ pc'[q] = "granted")

-----------------------------------------------------------------------------
(* The semaphore.                                                          *)

LEMMA HoldersFinite ==
  ASSUME NEW S \in SUBSET Requests
  PROVE  IsFiniteSet(S) /\ Cardinality(S) \in Nat
BY RequestsAssumption, FS_Subset, FS_CardinalityType

(* An immediate permit and a place in the queue both keep SemInv.          *)
LEMMA AcquireKeepsSem ==
  ASSUME SemInv, NEW r \in Requests, Outside(r), AcquirePermit(r)
  PROVE  SemInv' /\ Moves(r, {"granted", "waiting"})
<1> USE DEF SemInv, SemType, Outside
<1>1. CASE /\ free > 0
           /\ free' = free - 1
           /\ pc' = [pc EXCEPT ![r] = "granted"]
           /\ UNCHANGED queue
  <2>1. Holders' = Holders \cup {r} /\ r \notin Holders
    BY <1>1 DEF Holders, Holding, Places, Awaiting
  <2>2. Cardinality(Holders') = Cardinality(Holders) + 1
    BY <2>1, HoldersFinite, FS_AddElement DEF Holders
  <2>3. SemType' /\ PermitsConserved'
    BY <1>1, <2>2, PermitsAssumption, HoldersFinite
       DEF PermitsConserved, Places, Awaiting, Holding, Holders
  <2>4. QueueConsistent'
    <3>1. queue = <<>>
      BY <1>1 DEF QueueConsistent
    <3>2. \A q \in Requests : pc'[q] # "waiting"
      BY <1>1, <3>1 DEF QueueConsistent
    <3> QED BY <1>1, <3>1, <3>2 DEF QueueConsistent
  <2> QED BY <1>1, <2>3, <2>4 DEF Moves
<1>2. CASE /\ free = 0
           /\ queue' = Append(queue, r)
           /\ pc' = [pc EXCEPT ![r] = "waiting"]
           /\ UNCHANGED free
  <2>1. Holders' = Holders
    BY <1>2 DEF Holders, Holding, Places, Awaiting
  <2>2. SemType' /\ PermitsConserved'
    BY <1>2, <2>1 DEF PermitsConserved, Places, Awaiting, Holding
  <2>3. /\ Len(queue') = Len(queue) + 1
        /\ \A k \in DOMAIN queue : queue'[k] = queue[k]
        /\ queue'[Len(queue) + 1] = r
        /\ DOMAIN queue = 1..Len(queue)
        /\ DOMAIN queue' = 1..(Len(queue) + 1)
        /\ Len(queue) \in Nat
    BY <1>2, AppendProperties, LenProperties
  <2>4. \A k \in DOMAIN queue : queue[k] # r
    BY DEF QueueConsistent
  <2>5. QueueConsistent'
    <3>1. \A i, j \in DOMAIN queue' : queue'[i] = queue'[j] => i = j
      BY <2>3, <2>4 DEF QueueConsistent
    <3>2. ASSUME NEW q \in Requests
          PROVE  pc'[q] = "waiting" <=> \E k \in DOMAIN queue' : queue'[k] = q
      <4>1. CASE q = r
        BY <1>2, <2>3, <4>1
      <4>2. CASE q # r
        <5>1. pc'[q] = pc[q]
          BY <1>2, <4>2
        <5>2. pc[q] = "waiting" <=> \E k \in DOMAIN queue : queue[k] = q
          BY DEF QueueConsistent
        <5> QED BY <2>3, <4>2, <5>1, <5>2
      <4> QED BY <4>1, <4>2
    <3>3. free' = 0
      BY <1>2
    <3> QED BY <3>1, <3>2, <3>3 DEF QueueConsistent
  <2> QED BY <1>2, <2>2, <2>5 DEF Moves
<1> QED BY <1>1, <1>2 DEF AcquirePermit

(* A request that is outside may leave without touching the semaphore.     *)
LEMMA OutsideKeepsSem ==
  ASSUME SemInv, NEW r \in Requests, Outside(r),
         NEW p \in Places \ (Holding \cup {"waiting"}),
         pc' = [pc EXCEPT ![r] = p], UNCHANGED <<free, queue>>
  PROVE  SemInv' /\ Moves(r, {p})
<1> USE DEF SemInv, SemType, Outside
<1>1. Holders' = Holders
  BY DEF Holders
<1>2. QueueConsistent'
  BY DEF QueueConsistent
<1>3. SemType' /\ PermitsConserved'
  BY <1>1 DEF PermitsConserved
<1> QED BY <1>2, <1>3 DEF Moves

(* An owner that moves on and stays an owner leaves the semaphore alone.   *)
LEMMA OwnerKeepsSem ==
  ASSUME SemInv, NEW r \in Requests, pc[r] \in Holding, NEW p \in Holding,
         pc' = [pc EXCEPT ![r] = p], UNCHANGED <<free, queue>>
  PROVE  SemInv' /\ Moves(r, {p})
<1> USE DEF SemInv, SemType
<1>1. Holders' = Holders
  BY DEF Holders
<1>2. QueueConsistent'
  BY DEF QueueConsistent, Holding
<1>3. SemType' /\ PermitsConserved'
  BY <1>1 DEF PermitsConserved, Places, Awaiting
<1> QED BY <1>2, <1>3 DEF Moves
(* Dropping a permit either frees it or hands it to the oldest waiter.     *)
LEMMA DropKeepsSem ==
  ASSUME SemInv, NEW r \in Requests, pc[r] \in Holding, NEW a, DropPermit(r, a)
  PROVE  SemInv' /\ Moves(r, {"done"})
<1> USE DEF SemInv, SemType
<1>0. /\ r \in Holders
      /\ IsFiniteSet(Holders) /\ Cardinality(Holders) \in Nat
  <2>1. Holders \in SUBSET Requests /\ r \in Holders
    BY DEF Holders
  <2> QED BY <2>1, HoldersFinite
<1>1. CASE /\ queue = <<>>
           /\ free' = free + 1
           /\ pc' = [pc EXCEPT ![r] = "done"]
           /\ UNCHANGED queue
  <2>1. Holders' = Holders \ {r}
    BY <1>1 DEF Holders, Holding
  <2>2. /\ Cardinality(Holders') = Cardinality(Holders) - 1
        /\ Cardinality(Holders') \in Nat
    <3>1. /\ IsFiniteSet(Holders \ {r})
          /\ Cardinality(Holders \ {r}) = Cardinality(Holders) - 1
      BY <1>0, FS_RemoveElement
    <3>2. Cardinality(Holders \ {r}) \in Nat
      BY <3>1, FS_CardinalityType
    <3> QED BY <2>1, <3>1, <3>2
  <2>3. PermitsConserved'
    BY <1>0, <1>1, <2>2, PermitsAssumption DEF PermitsConserved
  <2>4. SemType'
    <3>1. free' \in 0..Permits
      BY <1>1, <2>2, <2>3, PermitsAssumption DEF PermitsConserved
    <3> QED BY <1>1, <3>1 DEF Places
  <2>5. QueueConsistent'
    <3>1. \A q \in Requests : pc'[q] # "waiting"
      BY <1>1 DEF QueueConsistent
    <3> QED BY <1>1, <3>1 DEF QueueConsistent
  <2> QED BY <1>1, <2>3, <2>4, <2>5 DEF Moves
<1>2. CASE /\ queue # <<>>
           /\ pc' = [pc EXCEPT ![r] = "done", ![Head(queue)] = "granted"]
           /\ queue' = Tail(queue)
           /\ UNCHANGED free
  <2> DEFINE h == Head(queue)
  <2>1. /\ Len(queue) \in Nat /\ Len(queue) > 0
        /\ DOMAIN queue = 1..Len(queue)
        /\ h = queue[1] /\ h \in Requests
        /\ queue' \in Seq(Requests)
        /\ Len(queue') = Len(queue) - 1
        /\ DOMAIN queue' = 1..(Len(queue) - 1)
        /\ \A k \in 1..(Len(queue) - 1) : queue'[k] = queue[k + 1]
    BY <1>2, HeadTailProperties, LenProperties, EmptySeq
  <2>2. pc[h] = "waiting"
    BY <2>1 DEF QueueConsistent
  <2>3. h # r
    BY <2>2 DEF Holding
  <2>4. /\ pc'[r] = "done" /\ pc'[h] = "granted"
        /\ \A q \in Requests \ {r, h} : pc'[q] = pc[q]
    BY <1>2, <2>1, <2>3
  <2>5. Holders' = (Holders \ {r}) \cup {h} /\ h \notin Holders \ {r}
    BY <2>1, <2>2, <2>3, <2>4 DEF Holders, Holding
  <2>6. Cardinality(Holders') = Cardinality(Holders)
    <3>1. /\ Cardinality(Holders \ {r}) = Cardinality(Holders) - 1
          /\ IsFiniteSet(Holders \ {r})
      BY <1>0, FS_RemoveElement
    <3>2. Cardinality((Holders \ {r}) \cup {h}) = Cardinality(Holders \ {r}) + 1
      BY <2>5, <3>1, FS_AddElement
    <3> QED BY <1>0, <2>5, <3>1, <3>2
  <2>7. SemType' /\ PermitsConserved'
    BY <1>2, <2>1, <2>6 DEF PermitsConserved, Places, Awaiting, Holding
  <2>8. QueueConsistent'
    <3>1. ASSUME NEW i \in DOMAIN queue', NEW j \in DOMAIN queue',
                 queue'[i] = queue'[j]
          PROVE  i = j
      <4>1. /\ i + 1 \in DOMAIN queue /\ j + 1 \in DOMAIN queue
            /\ queue[i + 1] = queue[j + 1] /\ i \in Int /\ j \in Int
        BY <2>1, <3>1
      <4>2. i + 1 = j + 1
        BY <4>1 DEF QueueConsistent
      <4> QED BY <4>1, <4>2
    <3>2. ASSUME NEW q \in Requests
          PROVE  pc'[q] = "waiting" <=> \E k \in DOMAIN queue' : queue'[k] = q
      <4>1. CASE q = r
        <5>1. \A k \in DOMAIN queue : queue[k] # r
          BY DEF QueueConsistent, Holding
        <5>2. ASSUME NEW k \in DOMAIN queue', queue'[k] = r
              PROVE  FALSE
          <6>1. k + 1 \in DOMAIN queue /\ queue[k + 1] = r
            BY <2>1, <5>2
          <6> QED BY <5>1, <6>1
        <5> QED BY <2>4, <4>1, <5>2
      <4>2. CASE q = h
        <5>1. ASSUME NEW k \in DOMAIN queue', queue'[k] = h
              PROVE  FALSE
          <6>1. k + 1 \in DOMAIN queue /\ 1 \in DOMAIN queue
                /\ queue[k + 1] = queue[1] /\ k \in Nat \ {0}
            BY <2>1, <5>1
          <6>2. k + 1 = 1
            BY <6>1 DEF QueueConsistent
          <6> QED BY <6>1, <6>2
        <5> QED BY <2>4, <4>2, <5>1
      <4>3. CASE q # r /\ q # h
        <5>1. pc'[q] = pc[q]
          BY <2>4, <4>3
        <5>2. ASSUME NEW k \in DOMAIN queue, queue[k] = q
              PROVE  k - 1 \in DOMAIN queue' /\ queue'[k - 1] = q
          BY <2>1, <4>3, <5>2
        <5>3. ASSUME NEW k \in DOMAIN queue', queue'[k] = q
              PROVE  k + 1 \in DOMAIN queue /\ queue[k + 1] = q
          BY <2>1, <5>3
        <5>4. pc[q] = "waiting" <=> \E k \in DOMAIN queue : queue[k] = q
          BY DEF QueueConsistent
        <5> QED BY <5>1, <5>2, <5>3, <5>4
      <4> QED BY <4>1, <4>2, <4>3
    <3>3. free' = 0
      BY <1>2 DEF QueueConsistent
    <3> QED BY <3>1, <3>2, <3>3 DEF QueueConsistent
  <2> QED BY <2>2, <2>4, <2>7, <2>8 DEF Moves
<1> QED BY <1>1, <1>2 DEF DropPermit

(* A waiter that gives up leaves no trace in the queue.                    *)
LEMMA GiveUpKeepsSem ==
  ASSUME SemInv, NEW r \in Requests, pc[r] = "waiting",
         NEW k \in DOMAIN queue, queue[k] = r, queue' = RemoveAt(queue, k),
         pc' = [pc EXCEPT ![r] = "done"], UNCHANGED free
  PROVE  SemInv' /\ Moves(r, {"done"})
<1> USE DEF SemInv, SemType
<1> DEFINE n == Len(queue)
<1>1. /\ n \in Nat /\ DOMAIN queue = 1..n /\ k \in 1..n
      /\ \A i \in 1..n : queue[i] \in Requests
  BY LenProperties, ElementOfSeq
<1>2. /\ SubSeq(queue, 1, k - 1) \in Seq(Requests)
      /\ Len(SubSeq(queue, 1, k - 1)) = k - 1
      /\ \A i \in 1..(k - 1) : SubSeq(queue, 1, k - 1)[i] = queue[i]
  BY <1>1, SubSeqProperties
<1>3. /\ SubSeq(queue, k + 1, n) \in Seq(Requests)
      /\ Len(SubSeq(queue, k + 1, n)) = n - k
      /\ \A i \in 1..(n - k) : SubSeq(queue, k + 1, n)[i] = queue[k + i]
  <2>1. /\ k + 1 \in Int /\ n \in Int
        /\ \A i \in (k + 1)..n : queue[i] \in Requests
    BY <1>1
  <2> HIDE DEF n
  <2>2. /\ SubSeq(queue, k + 1, n) \in Seq(Requests)
        /\ Len(SubSeq(queue, k + 1, n))
             = IF k + 1 <= n THEN n - (k + 1) + 1 ELSE 0
        /\ \A i \in 1..(n - (k + 1) + 1) :
             SubSeq(queue, k + 1, n)[i] = queue[(k + 1) + i - 1]
    BY <2>1, SubSeqProperties
  <2>3. n - (k + 1) + 1 = n - k /\ (k + 1 <= n \/ n - k = 0)
    BY <1>1
  <2>4. Len(SubSeq(queue, k + 1, n)) = n - k
    BY <2>2, <2>3
  <2>5. ASSUME NEW i \in 1..(n - k)
        PROVE  SubSeq(queue, k + 1, n)[i] = queue[k + i]
    <3>1. i \in 1..(n - (k + 1) + 1) /\ (k + 1) + i - 1 = k + i
      BY <1>1, <2>3
    <3> QED BY <2>2, <3>1
  <2> QED BY <2>2, <2>4, <2>5
<1>4. queue' = SubSeq(queue, 1, k - 1) \o SubSeq(queue, k + 1, n)
  BY DEF RemoveAt
<1>5. /\ queue' \in Seq(Requests) /\ Len(queue') = n - 1
      /\ DOMAIN queue' = 1..(n - 1)
      /\ \A i \in 1..(n - 1) :
           queue'[i] = IF i < k THEN queue[i] ELSE queue[i + 1]
  <2>1. /\ queue' \in Seq(Requests) /\ Len(queue') = (k - 1) + (n - k)
        /\ \A i \in 1..((k - 1) + (n - k)) :
             queue'[i] = IF i <= k - 1 THEN SubSeq(queue, 1, k - 1)[i]
                         ELSE SubSeq(queue, k + 1, n)[i - (k - 1)]
    <3> DEFINE before == SubSeq(queue, 1, k - 1)
               after == SubSeq(queue, k + 1, n)
    <3>1. /\ before \in Seq(Requests) /\ after \in Seq(Requests)
          /\ Len(before) = k - 1 /\ Len(after) = n - k
      BY <1>2, <1>3
    <3> HIDE DEF before, after
    <3>2. /\ before \o after \in Seq(Requests)
          /\ Len(before \o after) = Len(before) + Len(after)
          /\ \A i \in 1..(Len(before) + Len(after)) :
               (before \o after)[i] = IF i <= Len(before) THEN before[i]
                                      ELSE after[i - Len(before)]
      BY <3>1, ConcatProperties
    <3>3. queue' = before \o after
      BY <1>4 DEF before, after
    <3>4. /\ queue' \in Seq(Requests) /\ Len(queue') = (k - 1) + (n - k)
          /\ \A i \in 1..((k - 1) + (n - k)) :
               queue'[i] = IF i <= k - 1 THEN before[i] ELSE after[i - (k - 1)]
      BY <3>1, <3>2, <3>3
    <3> QED BY <3>4 DEF before, after
  <2>2. ASSUME NEW i \in 1..(n - 1)
        PROVE  queue'[i] = IF i < k THEN queue[i] ELSE queue[i + 1]
    <3>1. CASE i < k
      BY <1>1, <1>2, <2>1, <3>1
    <3>2. CASE ~(i < k)
      <4>1. i - (k - 1) \in 1..(n - k) /\ k + (i - (k - 1)) = i + 1
        BY <1>1, <3>2
      <4>2. queue'[i] = SubSeq(queue, k + 1, n)[i - (k - 1)]
        BY <1>1, <2>1, <3>2
      <4> QED BY <1>3, <3>2, <4>1, <4>2
    <3> QED BY <3>1, <3>2
  <2> QED BY <1>1, <2>1, <2>2, LenProperties
<1>6. Holders' = Holders
  BY DEF Holders, Holding
<1>7. SemType' /\ PermitsConserved'
  BY <1>5, <1>6 DEF PermitsConserved, Places
<1>8. QueueConsistent'
  <2> DEFINE was(i) == IF i < k THEN i ELSE i + 1
  <2>0. \A i \in DOMAIN queue' :
          was(i) \in DOMAIN queue /\ queue'[i] = queue[was(i)]
    BY <1>1, <1>5
  <2>1. ASSUME NEW i \in DOMAIN queue', NEW j \in DOMAIN queue',
               queue'[i] = queue'[j]
        PROVE  i = j
    <3>1. was(i) = was(j)
      BY <2>0, <2>1 DEF QueueConsistent
    <3> QED BY <1>1, <1>5, <3>1
  <2>2. ASSUME NEW q \in Requests
        PROVE  pc'[q] = "waiting" <=> \E i \in DOMAIN queue' : queue'[i] = q
    <3>1. CASE q = r
      <4>1. \A i \in DOMAIN queue : queue[i] = r => i = k
        BY DEF QueueConsistent
      <4>2. \A i \in DOMAIN queue' : was(i) # k
        BY <1>1, <1>5
      <4>3. ~ \E i \in DOMAIN queue' : queue'[i] = r
        <5> HIDE DEF was
        <5> QED BY <2>0, <4>1, <4>2
      <4>4. pc'[q] = "done"
        BY <3>1 DEF SemInv, SemType
      <4> QED BY <3>1, <4>3, <4>4
    <3>2. CASE q # r
      <4>1. pc'[q] = pc[q]
        BY <3>2
      <4>2. pc[q] = "waiting" <=> \E i \in DOMAIN queue : queue[i] = q
        BY DEF QueueConsistent
      <4>3. ASSUME NEW i \in DOMAIN queue, queue[i] = q
            PROVE  \E j \in DOMAIN queue' : queue'[j] = q
        <5>1. CASE i < k
          BY <1>1, <1>5, <4>3, <5>1
        <5>2. CASE i > k
          <6>1. i - 1 \in 1..(n - 1) /\ ~(i - 1 < k) /\ (i - 1) + 1 = i
            BY <1>1, <5>2
          <6> QED BY <1>5, <4>3, <6>1
        <5> QED BY <1>1, <3>2, <4>3, <5>1, <5>2
      <4>4. ASSUME NEW j \in DOMAIN queue', queue'[j] = q
            PROVE  \E i \in DOMAIN queue : queue[i] = q
        <5>1. j \in DOMAIN queue /\ j + 1 \in DOMAIN queue
          BY <1>1, <1>5
        <5> QED BY <1>5, <4>4, <5>1
      <4> QED BY <4>1, <4>2, <4>3, <4>4
    <3> QED BY <3>1, <3>2
  <2>3. free' = 0
    <3>1. queue # <<>>
      BY <1>1, EmptySeq
    <3> QED BY <3>1 DEF QueueConsistent
  <2> QED BY <2>1, <2>2, <2>3 DEF QueueConsistent
<1> QED BY <1>7, <1>8 DEF Moves

-----------------------------------------------------------------------------
(* One request.                                                            *)

ReqType ==
  /\ plane \in Planes
  /\ accounts \in [Emails -> Entry]
  /\ admin \in [Requests -> BOOLEAN]
  /\ want \in [Requests -> Emails]
  /\ cands \in [Requests -> Seq(Account)]
  /\ tried \in [Requests -> Seq(Attempt)]
  /\ reply \in [Requests -> Replies]

(* What the request has at each place of its handler.                      *)
PlaceOK(r) ==
  /\ pc[r] \in {"idle", "resolving"} => cands[r] = <<>>
  /\ pc[r] \notin {"attempting", "done"} => tried[r] = <<>>
  /\ pc[r] # "done" => reply[r] = "none"
  /\ pc[r] = "listing" => admin[r]
  /\ pc[r] = "waiting" \/ pc[r] \in Holding =>
       cands[r] # <<>> /\ Len(tried[r]) < AttemptLimit(r)

(* A member has the pin or nothing; no account is a candidate twice.       *)
CandidatesOK(r) ==
  /\ ~admin[r] => /\ want[r] = Pin
                  /\ Len(cands[r]) <= 1
                  /\ \A i \in DOMAIN cands[r] : cands[r][i].email = Pin
  /\ \A i, j \in DOMAIN cands[r] :
       cands[r][i].email = cands[r][j].email => i = j

(* The attempts walk down the candidates, past retryable failures only.    *)
AttemptsOK(r) ==
  /\ tried[r] # <<>> => cands[r] # <<>> /\ Len(tried[r]) <= AttemptLimit(r)
  /\ \A i \in DOMAIN tried[r] : tried[r][i].email = cands[r][i].email
  /\ \A i \in DOMAIN tried[r] :
       i < Len(tried[r]) \/ pc[r] = "attempting" =>
         tried[r][i].outcome = "retryable"

(* What the client is told fits the last attempt.                          *)
AnswerOK(r) ==
  LET n == Len(tried[r])
      last == tried[r][n].outcome
  IN /\ reply[r] \in OkReplies => n > 0 /\ last = "ok"
     /\ reply[r] = "upstream_unreachable" =>
          /\ n > 0 /\ last \in {"retryable", "fatal"}
          /\ last = "retryable" => n = AttemptLimit(r)
     /\ n > 0 /\ pc[r] = "done" /\ reply[r] # "gone" =>
          reply[r] \in AnswersTo(last)

ReqOK(r) == PlaceOK(r) /\ CandidatesOK(r) /\ AttemptsOK(r) /\ AnswerOK(r)

IInv == ReqType /\ SemInv /\ \A r \in Requests : ReqOK(r)

(* Nothing of q but, perhaps, its place changes.                           *)
Same(q) ==
  /\ plane' = plane
  /\ admin'[q] = admin[q]
  /\ want'[q] = want[q]
  /\ cands'[q] = cands[q]
  /\ tried'[q] = tried[q]
  /\ reply'[q] = reply[q]

(* A step of another handler does not disturb q.                           *)
LEMMA BystanderOK ==
  ASSUME NEW q \in Requests, ReqOK(q), Same(q),
         pc'[q] = pc[q] \/ (pc[q] = "waiting" /\ pc'[q] = "granted")
  PROVE  ReqOK(q)'
<1>1. AttemptLimit(q)' = AttemptLimit(q)
  BY DEF AttemptLimit, Same
<1>2. PlaceOK(q)'
  BY <1>1 DEF ReqOK, PlaceOK, Same, Holding
<1>3. CandidatesOK(q)'
  BY DEF ReqOK, CandidatesOK, Same
<1>4. AttemptsOK(q)'
  BY <1>1 DEF ReqOK, AttemptsOK, Same
<1>5. AnswerOK(q)'
  BY <1>1 DEF ReqOK, AnswerOK, Same
<1> QED BY <1>2, <1>3, <1>4, <1>5 DEF ReqOK

(* So a step keeps IInv if it keeps the types, the semaphore and the       *)
(* request that takes it.                                                  *)
LEMMA StepOK ==
  ASSUME IInv, NEW r \in Requests, NEW S, ReqType', SemInv', Moves(r, S),
         \A q \in Requests \ {r} : Same(q), ReqOK(r)'
  PROVE  IInv'
<1>1. ASSUME NEW q \in Requests
      PROVE  ReqOK(q)'
  <2>1. CASE q = r
    BY <2>1
  <2>2. CASE q # r
    BY <2>2, BystanderOK DEF IInv, Moves
  <2> QED BY <2>1, <2>2
<1> QED BY <1>1 DEF IInv

LEMMA MergeType ==
  ASSUME NEW pool \in [Emails -> Entry], NEW listed
  PROVE  Merge(pool, listed) \in [Emails -> Entry]
BY DEF Merge, Entry

LEMMA CopyType ==
  ASSUME NEW pool \in [Emails -> Entry], NEW e \in Emails
  PROVE  CopyOf(e, pool) \in Account /\ CopyOf(e, pool).email = e
BY DEF CopyOf, Account

LEMMA LimitAtLeastOne ==
  ASSUME NEW r \in Requests, cands \in [Requests -> Seq(Account)],
         cands[r] # <<>>
  PROVE  /\ AttemptLimit(r) \in Nat /\ AttemptLimit(r) >= 1
         /\ AttemptLimit(r) <= Len(cands[r])
         /\ AttemptLimit(r) <= MaxAttempts
BY AttemptsAssumption, EmptySeq, LenProperties DEF AttemptLimit

-----------------------------------------------------------------------------
(* The actions.                                                            *)

(* A request that holds no attempts may leave with an error.               *)
LEMMA LeaveOK ==
  ASSUME NEW r \in Requests, ReqType, ReqOK(r), tried[r] = <<>>, tried' = tried,
         pc'[r] = "done", reply'[r] \in (ErrorReplies \cup {"gone"}) \ {"upstream_unreachable"},
         CandidatesOK(r)'
  PROVE  ReqOK(r)'
<1>1. PlaceOK(r)'
  BY DEF PlaceOK, Holding
<1>2. AttemptsOK(r)' /\ AnswerOK(r)'
  BY DEF AttemptsOK, AnswerOK, OkReplies, ErrorReplies
<1> QED BY <1>1, <1>2 DEF ReqOK

(* What resolve_account found: nothing, or one account, the pin for a      *)
(* member.                                                                 *)
Finding(isAdmin, found) ==
  \/ found = <<>>
  \/ \E acc \in Account : found = <<acc>> /\ (isAdmin \/ acc.email = Pin)

LEMMA FindingType ==
  ASSUME NEW isAdmin \in BOOLEAN, NEW found, Finding(isAdmin, found)
  PROVE  /\ found \in Seq(Account) /\ Len(found) <= 1
         /\ \A i \in DOMAIN found : found[i].email = Pin \/ isAdmin
         /\ \A i, j \in DOMAIN found : i = j
<1>1. CASE found = <<>>
  BY <1>1, EmptySeq
<1>2. ASSUME NEW acc \in Account, found = <<acc>>, isAdmin \/ acc.email = Pin
      PROVE  /\ found \in Seq(Account) /\ Len(found) = 1
             /\ DOMAIN found = {1} /\ found[1] = acc
  BY <1>2
<1>3. CASE \E acc \in Account : found = <<acc>> /\ (isAdmin \/ acc.email = Pin)
  <2>1. PICK acc \in Account : found = <<acc>> /\ (isAdmin \/ acc.email = Pin)
    BY <1>3
  <2>2. /\ found \in Seq(Account) /\ Len(found) = 1
        /\ DOMAIN found = {1} /\ found[1] = acc
    BY <1>2, <2>1
  <2>3. \A i \in DOMAIN found : i = 1
    BY <2>2
  <2> QED BY <2>1, <2>2, <2>3
<1> QED BY <1>1, <1>3 DEF Finding

LEMMA ResolveOK ==
  ASSUME IInv, NEW r \in Requests, NEW isAdmin \in BOOLEAN, NEW found,
         Finding(isAdmin, found), pc[r] \in {"idle", "resolving"},
         plane' = plane, accounts' \in [Emails -> Entry], tried' = tried,
         admin' = [admin EXCEPT ![r] = isAdmin],
         \E e \in Emails : want' = [want EXCEPT ![r] = e] /\ (isAdmin \/ e = Pin),
         Resolve(r, isAdmin, found)
  PROVE  IInv'
<1> USE DEF IInv
<1>1. Outside(r) /\ tried[r] = <<>> /\ reply[r] = "none"
  BY DEF Outside, ReqOK, PlaceOK, Holding
<1>2. CandidatesOK(r)'
  BY FindingType DEF CandidatesOK, Resolve, ReqType
<1>3. cands' \in [Requests -> Seq(Account)] /\ cands'[r] = found
  BY FindingType DEF Resolve, ReqType
<1>4. ReqType' /\ \A q \in Requests \ {r} : Same(q)
  <2>1. /\ plane' \in Planes /\ accounts' \in [Emails -> Entry]
        /\ admin' \in [Requests -> BOOLEAN] /\ want' \in [Requests -> Emails]
        /\ tried' \in [Requests -> Seq(Attempt)]
        /\ \A q \in Requests \ {r} : admin'[q] = admin[q] /\ want'[q] = want[q]
    BY DEF ReqType
  <2>2. \/ UNCHANGED reply
        \/ reply' = [reply EXCEPT ![r] = "account_not_found"]
    BY DEF Resolve, Answer
  <2>3. /\ reply' \in [Requests -> Replies]
        /\ \A q \in Requests \ {r} : reply'[q] = reply[q]
    BY <2>2 DEF ReqType, Replies, ErrorReplies
  <2>4. \A q \in Requests \ {r} : cands'[q] = cands[q]
    BY DEF Resolve, ReqType
  <2> QED BY <1>3, <2>1, <2>3, <2>4 DEF ReqType, Same
<1>5. CASE /\ isAdmin
           /\ pc' = [pc EXCEPT ![r] = "listing"]
           /\ UNCHANGED <<free, queue, reply>>
  <2>1. SemInv' /\ Moves(r, {"listing"})
    BY <1>1, <1>5, OutsideKeepsSem DEF Places, Awaiting, Holding
  <2>2. pc'[r] = "listing" /\ admin'[r] = TRUE /\ tried'[r] = <<>> /\ reply'[r] = "none"
    BY <1>1, <1>5, <2>1 DEF Moves, ReqType
  <2>3. ReqOK(r)'
    BY <1>2, <2>2 DEF ReqOK, PlaceOK, AttemptsOK, AnswerOK, Holding, OkReplies
  <2> QED BY <1>4, <2>1, <2>3, StepOK
<1>6. CASE /\ ~isAdmin
           /\ found # <<>>
           /\ AcquirePermit(r)
           /\ UNCHANGED reply
  <2>1. SemInv' /\ Moves(r, {"granted", "waiting"})
    BY <1>1, <1>6, AcquireKeepsSem
  <2>2. /\ pc'[r] \in {"granted", "waiting"} /\ cands'[r] # <<>>
        /\ tried'[r] = <<>> /\ reply'[r] = "none" /\ Len(tried'[r]) = 0
    BY <1>1, <1>3, <1>6, <2>1 DEF Moves
  <2>3. AttemptLimit(r)' \in Nat /\ AttemptLimit(r)' >= 1
    BY <1>3, <2>2, AttemptsAssumption, EmptySeq, LenProperties DEF AttemptLimit
  <2>4. ReqOK(r)'
    BY <1>2, <2>2, <2>3 DEF ReqOK, PlaceOK, AttemptsOK, AnswerOK, OkReplies
  <2> QED BY <1>4, <2>1, <2>4, StepOK
<1>7. CASE /\ ~isAdmin
           /\ found = <<>>
           /\ Answer(r, "account_not_found")
  <2>1. SemInv' /\ Moves(r, {"done"})
    BY <1>1, <1>7, OutsideKeepsSem DEF Answer, Places, Holding
  <2>2. pc'[r] = "done" /\ reply'[r] = "account_not_found"
    BY <1>7, <2>1 DEF Moves, Answer, ReqType
  <2>3. ReqOK(r)'
    BY <1>1, <1>2, <2>2, LeaveOK DEF ErrorReplies
  <2> QED BY <1>4, <2>1, <2>3, StepOK
<1> QED BY <1>5, <1>6, <1>7 DEF Resolve

LEMMA ArriveOK ==
  ASSUME IInv, NEW r \in Requests, NEW isAdmin \in BOOLEAN, NEW n,
         NEW preferred \in Headers, Arrive(r, isAdmin, n, preferred)
  PROVE  IInv'
<1> DEFINE key == IF preferred = {} THEN Pin ELSE CHOOSE e \in preferred : TRUE
<1>1. key \in Emails /\ (isAdmin \/ key = Pin)
  BY PoolAssumption DEF Headers, Arrive
<1> HIDE DEF key
<1>2. /\ pc[r] = "idle"
      /\ admin' = [admin EXCEPT ![r] = isAdmin]
      /\ want' = [want EXCEPT ![r] = key]
      /\ plane' = plane /\ accounts' = accounts /\ tried' = tried
  BY DEF Arrive, key
<1>3. CASE Resolve(r, isAdmin, <<CopyOf(key, accounts)>>)
  <2>1. Finding(isAdmin, <<CopyOf(key, accounts)>>)
    BY <1>1, CopyType DEF Finding, IInv, ReqType
  <2> QED BY <1>1, <1>2, <1>3, <2>1, ResolveOK DEF IInv, ReqType
<1>4. CASE /\ pc' = [pc EXCEPT ![r] = "resolving"]
           /\ UNCHANGED <<free, queue, cands, reply>>
  <2>1. Outside(r) /\ tried[r] = <<>> /\ reply[r] = "none" /\ cands[r] = <<>>
    BY <1>2 DEF Outside, IInv, ReqOK, PlaceOK, Holding
  <2>2. SemInv' /\ Moves(r, {"resolving"})
    BY <1>4, <2>1, OutsideKeepsSem DEF IInv, Places, Awaiting, Holding
  <2>3. ReqType' /\ \A q \in Requests \ {r} : Same(q)
    BY <1>1, <1>2, <1>4 DEF IInv, ReqType, Same
  <2>4. ReqOK(r)'
    BY <1>1, <1>2, <1>4, <2>1, <2>2
       DEF IInv, ReqType, ReqOK, PlaceOK, CandidatesOK, AttemptsOK, AnswerOK,
           Moves, Holding, OkReplies
  <2> QED BY <2>2, <2>3, <2>4, StepOK
<1> QED BY <1>3, <1>4 DEF Arrive, key

LEMMA RefuseOK ==
  ASSUME IInv, NEW r \in Requests, NEW isAdmin \in BOOLEAN, NEW n,
         NEW preferred, Refuse(r, isAdmin, n, preferred)
  PROVE  IInv'
<1>1. PICK a \in {"n_unsupported", "account_override_forbidden"} : Answer(r, a)
  BY DEF Refuse
<1>2. Outside(r) /\ tried[r] = <<>>
  BY DEF Refuse, Outside, IInv, ReqOK, PlaceOK, Holding
<1>3. SemInv' /\ Moves(r, {"done"})
  BY <1>1, <1>2, OutsideKeepsSem DEF IInv, Answer, Places, Holding
<1>4. ReqType' /\ \A q \in Requests \ {r} : Same(q)
  BY <1>1 DEF IInv, ReqType, Refuse, Answer, Same, Replies, ErrorReplies
<1>5. CandidatesOK(r)'
  BY DEF IInv, ReqOK, CandidatesOK, Refuse
<1>6. ReqOK(r)'
  BY <1>1, <1>2, <1>3, <1>5, LeaveOK
     DEF IInv, ReqType, Refuse, Answer, ErrorReplies, Moves
<1> QED BY <1>3, <1>4, <1>6, StepOK

(* Answers only what a member, or an admin, may be told: the pool read in  *)
(* ListForResolve gives the pin to a member.                               *)
LEMMA ListForResolveOK ==
  ASSUME IInv, NEW r \in Requests, ListForResolve(r)
  PROVE  IInv'
<1>1. /\ pc[r] = "resolving" /\ plane' = plane /\ admin' = admin
      /\ want' = want /\ tried' = tried
      /\ admin[r] \in BOOLEAN /\ want[r] \in Emails
      /\ admin[r] \/ want[r] = Pin
  BY DEF ListForResolve, IInv, ReqType, ReqOK, CandidatesOK
<1>2. /\ admin' = [admin EXCEPT ![r] = admin[r]]
      /\ \E e \in Emails : want' = [want EXCEPT ![r] = e] /\ (admin[r] \/ e = Pin)
  <2>1. /\ admin' = [admin EXCEPT ![r] = admin[r]]
        /\ want' = [want EXCEPT ![r] = want[r]]
    BY <1>1 DEF IInv, ReqType
  <2> QED BY <1>1, <2>1
<1>3. CASE \E listed \in SUBSET HelperEmails :
             LET pool == Merge(accounts, listed) IN
             /\ accounts' = pool
             /\ Resolve(r, admin[r],
                        IF pool[want[r]] # "absent"
                        THEN <<CopyOf(want[r], pool)>> ELSE <<>>)
  <2>1. PICK listed \in SUBSET HelperEmails :
          /\ accounts' = Merge(accounts, listed)
          /\ Resolve(r, admin[r],
                     IF Merge(accounts, listed)[want[r]] # "absent"
                     THEN <<CopyOf(want[r], Merge(accounts, listed))>> ELSE <<>>)
    BY <1>3
  <2> DEFINE found == IF accounts'[want[r]] # "absent"
                      THEN <<CopyOf(want[r], accounts')>> ELSE <<>>
  <2>2. accounts' \in [Emails -> Entry]
    BY <2>1, MergeType DEF IInv, ReqType
  <2>3. Finding(admin[r], found)
    BY <1>1, <2>2, CopyType DEF Finding
  <2>4. Resolve(r, admin[r], found)
    BY <2>1
  <2> HIDE DEF found
  <2> QED BY <1>1, <1>2, <2>2, <2>3, <2>4, ResolveOK
<1>4. CASE UNCHANGED accounts /\ Resolve(r, admin[r], <<>>)
  <2>1. Finding(admin[r], <<>>) /\ accounts' \in [Emails -> Entry]
    BY <1>4 DEF Finding, IInv, ReqType
  <2> QED BY <1>1, <1>2, <1>4, <2>1, ResolveOK
<1> QED BY <1>3, <1>4 DEF ListForResolve

(* The keys appended to the candidates are new and in strict order, so no  *)
(* account becomes a candidate twice.                                      *)
LEMMA SortedKeys ==
  ASSUME NEW S \in SUBSET Emails, NEW ks \in Sorted(S)
  PROVE  /\ ks \in Seq(S) /\ DOMAIN ks = 1..Len(ks) /\ Len(ks) \in Nat
         /\ \A i \in DOMAIN ks : ks[i] \in S
         /\ \A i, j \in DOMAIN ks : ks[i] = ks[j] => i = j
<1> DEFINE m == Cardinality(S)
<1>1. m \in Nat
  BY EmailsAssumption, FS_Subset, FS_CardinalityType
<1>2. ks \in [1..m -> S] /\ \A i, j \in 1..m : i < j => ks[i] < ks[j]
  BY DEF Sorted
<1> HIDE DEF m
<1>3. ks \in Seq(S) /\ Len(ks) = m /\ DOMAIN ks = 1..m
  BY <1>1, <1>2, IsASeq
<1>4. ASSUME NEW i \in 1..m, NEW j \in 1..m, ks[i] = ks[j]
      PROVE  i = j
  <2>1. ks[i] \in Nat /\ ks[j] \in Nat
    BY <1>2, EmailsAssumption
  <2>2. ~(i < j) /\ ~(j < i)
    BY <1>2, <1>4, <2>1
  <2> QED BY <1>1, <2>2
<1> QED BY <1>1, <1>2, <1>3, <1>4

LEMMA ListForCollectOK ==
  ASSUME IInv, NEW r \in Requests, ListForCollect(r)
  PROVE  IInv'
<1> DEFINE seen == {cands[r][i].email : i \in DOMAIN cands[r]}
<1>1. PICK pool \in {Merge(accounts, l) : l \in SUBSET HelperEmails} \cup {accounts} :
        \E ks \in Sorted(Keys(pool) \ seen) :
          LET all == cands[r] \o [i \in DOMAIN ks |-> CopyOf(ks[i], pool)] IN
          /\ accounts' = pool
          /\ cands' = [cands EXCEPT ![r] = all]
          /\ \/ all # <<>> /\ AcquirePermit(r) /\ UNCHANGED reply
             \/ all = <<>> /\ Answer(r, "account_not_found")
  BY DEF ListForCollect
<1>2. PICK ks \in Sorted(Keys(pool) \ seen) :
        LET all == cands[r] \o [i \in DOMAIN ks |-> CopyOf(ks[i], pool)] IN
        /\ accounts' = pool
        /\ cands' = [cands EXCEPT ![r] = all]
        /\ \/ all # <<>> /\ AcquirePermit(r) /\ UNCHANGED reply
           \/ all = <<>> /\ Answer(r, "account_not_found")
  BY <1>1
<1> DEFINE rest == [i \in DOMAIN ks |-> CopyOf(ks[i], pool)]
           all == cands[r] \o rest
<1>3. /\ pc[r] = "listing" /\ admin[r] /\ tried[r] = <<>> /\ reply[r] = "none"
      /\ UNCHANGED <<plane, admin, want, tried>>
      /\ Outside(r)
  BY DEF ListForCollect, IInv, ReqOK, PlaceOK, Outside, Holding
<1>4. pool \in [Emails -> Entry]
  <2>1. accounts \in [Emails -> Entry]
    BY DEF IInv, ReqType
  <2>2. \A l : Merge(accounts, l) \in [Emails -> Entry]
    BY <2>1, MergeType
  <2> QED BY <2>1, <2>2
<1>5. /\ DOMAIN ks = 1..Len(ks) /\ Len(ks) \in Nat
      /\ \A i \in DOMAIN ks : ks[i] \in Keys(pool) \ seen
      /\ \A i, j \in DOMAIN ks : ks[i] = ks[j] => i = j
  <2>1. (Keys(pool) \ seen) \in SUBSET Emails
    BY DEF Keys
  <2> QED BY <2>1, SortedKeys
<1>6. /\ rest \in Seq(Account) /\ Len(rest) = Len(ks) /\ DOMAIN rest = DOMAIN ks
      /\ \A i \in DOMAIN rest : rest[i].email = ks[i]
  <2>1. \A i \in DOMAIN ks : CopyOf(ks[i], pool) \in Account
                             /\ CopyOf(ks[i], pool).email = ks[i]
    BY <1>4, <1>5, CopyType DEF Keys
  <2>2. rest \in [1..Len(ks) -> Account]
    BY <1>5, <2>1
  <2> QED BY <1>5, <2>1, <2>2, IsASeq
<1>7. cands[r] \in Seq(Account) /\ DOMAIN cands[r] = 1..Len(cands[r])
      /\ Len(cands[r]) \in Nat
  BY LenProperties DEF IInv, ReqType
<1> HIDE DEF rest
<1>8. /\ all \in Seq(Account) /\ Len(all) = Len(cands[r]) + Len(rest)
      /\ DOMAIN all = 1..(Len(cands[r]) + Len(rest))
      /\ \A i \in DOMAIN all :
           all[i] = IF i <= Len(cands[r]) THEN cands[r][i]
                    ELSE rest[i - Len(cands[r])]
  <2>1. \A s, t \in Seq(Account) :
          /\ s \o t \in Seq(Account) /\ Len(s \o t) = Len(s) + Len(t)
          /\ \A i \in 1..(Len(s) + Len(t)) :
               (s \o t)[i] = IF i <= Len(s) THEN s[i] ELSE t[i - Len(s)]
    BY ConcatProperties
  <2>2. \A s \in Seq(Account) : DOMAIN s = 1..Len(s)
    BY LenProperties
  <2>3. /\ all \in Seq(Account) /\ Len(all) = Len(cands[r]) + Len(rest)
        /\ \A i \in 1..(Len(cands[r]) + Len(rest)) :
             all[i] = IF i <= Len(cands[r]) THEN cands[r][i]
                      ELSE rest[i - Len(cands[r])]
    BY <1>6, <1>7, <2>1
  <2> HIDE DEF all
  <2>4. DOMAIN all = 1..(Len(cands[r]) + Len(rest))
    BY <2>2, <2>3
  <2> QED BY <2>3, <2>4
<1>9. ASSUME NEW i \in DOMAIN all, NEW j \in DOMAIN all,
             all[i].email = all[j].email
      PROVE  i = j
  <2> DEFINE c == Len(cands[r])
  <2> HIDE DEF all
  <2>5. ASSUME NEW y \in DOMAIN all, y > c
        PROVE  y - c \in DOMAIN ks /\ all[y].email = ks[y - c]
    <3>1. y \in 1..(c + Len(rest)) /\ c \in Nat
      BY <1>7, <1>8
    <3>2. y - c \in 1..Len(ks)
      BY <1>5, <1>6, <2>5, <3>1
    <3>3. all[y] = rest[y - c]
      BY <1>8, <2>5, <3>1
    <3> QED BY <1>5, <1>6, <3>2, <3>3
  <2>1. ASSUME NEW x \in DOMAIN all, NEW y \in DOMAIN all, x <= c, y > c
        PROVE  all[x].email # all[y].email
    <3>1. x \in DOMAIN cands[r] /\ all[x].email \in seen
      BY <1>7, <1>8, <2>1
    <3>2. y - c \in DOMAIN rest /\ all[y].email = ks[y - c]
      BY <1>6, <2>1, <2>5
    <3>3. all[y].email \notin seen
      BY <1>5, <1>6, <3>2
    <3> QED BY <3>1, <3>3
  <2>2. CASE i <= c /\ j <= c
    <3>1. /\ i \in DOMAIN cands[r] /\ j \in DOMAIN cands[r]
          /\ cands[r][i].email = cands[r][j].email
      BY <1>7, <1>8, <1>9, <2>2
    <3> QED BY <3>1 DEF IInv, ReqOK, CandidatesOK
  <2>3. CASE i > c /\ j > c
    <3>1. c \in Nat /\ i \in Nat /\ j \in Nat
      BY <1>7, <1>8, <1>6
    <3>2. /\ i - c \in DOMAIN ks /\ all[i].email = ks[i - c]
          /\ j - c \in DOMAIN ks /\ all[j].email = ks[j - c]
      BY <2>3, <2>5
    <3>3. i - c = j - c
      BY <1>5, <1>9, <3>2
    <3> HIDE DEF c, all
    <3> QED BY <3>1, <3>3
  <2>4. c \in Nat /\ i \in Nat /\ j \in Nat
    BY <1>6, <1>7, <1>8
  <2> HIDE DEF all, c
  <2> QED BY <1>9, <2>1, <2>2, <2>3, <2>4
<1> HIDE DEF all
<1>10. accounts' = pool /\ cands' = [cands EXCEPT ![r] = all]
  BY <1>2 DEF all, rest
<1>11. CandidatesOK(r)'
  BY <1>3, <1>9, <1>10 DEF CandidatesOK, IInv, ReqType
<1>12. CASE all # <<>> /\ AcquirePermit(r) /\ UNCHANGED reply
  <2>1. SemInv' /\ Moves(r, {"granted", "waiting"})
    BY <1>3, <1>12, AcquireKeepsSem DEF IInv
  <2>2. ReqType' /\ \A q \in Requests \ {r} : Same(q)
    BY <1>3, <1>4, <1>8, <1>10, <1>12 DEF IInv, ReqType, Same
  <2>3. /\ pc'[r] \in {"granted", "waiting"} /\ cands'[r] # <<>>
        /\ tried'[r] = <<>> /\ Len(tried'[r]) = 0 /\ reply'[r] = "none"
    BY <1>3, <1>10, <1>12, <2>1 DEF Moves, IInv, ReqType
  <2>4. AttemptLimit(r)' \in Nat /\ AttemptLimit(r)' >= 1
    BY <2>2, <2>3, AttemptsAssumption, EmptySeq, LenProperties
       DEF AttemptLimit, ReqType
  <2>5. ReqOK(r)'
    BY <1>11, <2>3, <2>4 DEF ReqOK, PlaceOK, AttemptsOK, AnswerOK, OkReplies
  <2> QED BY <2>1, <2>2, <2>5, StepOK
<1>13. CASE all = <<>> /\ Answer(r, "account_not_found")
  <2>1. SemInv' /\ Moves(r, {"done"})
    BY <1>3, <1>13, OutsideKeepsSem DEF IInv, Answer, Places, Holding
  <2>2. ReqType' /\ \A q \in Requests \ {r} : Same(q)
    BY <1>3, <1>4, <1>8, <1>10, <1>13
       DEF IInv, ReqType, Same, Answer, Replies, ErrorReplies
  <2>3. ReqOK(r)'
    BY <1>3, <1>11, <1>13, <2>1, LeaveOK
       DEF IInv, ReqType, Answer, Moves, ErrorReplies
  <2> QED BY <2>1, <2>2, <2>3, StepOK
<1> QED BY <1>2, <1>12, <1>13 DEF all, rest

LEMMA ResumeOK ==
  ASSUME IInv, NEW r \in Requests, ResumeWithPermit(r)
  PROVE  IInv'
<1>1. PICK p \in {"attempting", "prechecking"} : pc' = [pc EXCEPT ![r] = p]
  BY DEF ResumeWithPermit
<1>2. SemInv' /\ Moves(r, {p})
  BY <1>1, OwnerKeepsSem DEF IInv, ResumeWithPermit, Holding
<1>3. ReqType' /\ \A q \in Requests : Same(q)
  BY DEF IInv, ReqType, Same, ResumeWithPermit
<1>4. /\ pc[r] = "granted" /\ pc'[r] = p /\ tried[r] = <<>>
      /\ reply[r] = "none" /\ AttemptLimit(r)' = AttemptLimit(r)
  BY <1>2 DEF ResumeWithPermit, IInv, ReqOK, PlaceOK, Moves, AttemptLimit
<1>5. PlaceOK(r)'
  BY <1>3, <1>4 DEF IInv, ReqOK, PlaceOK, Same, Holding
<1>6. CandidatesOK(r)' /\ AttemptsOK(r)' /\ AnswerOK(r)'
  BY <1>3, <1>4 DEF IInv, ReqOK, CandidatesOK, AttemptsOK, AnswerOK, Same, OkReplies
<1> QED BY <1>2, <1>3, <1>5, <1>6, StepOK DEF ReqOK

LEMMA PrecheckOK ==
  ASSUME IInv, NEW r \in Requests, QuotaPrecheck(r)
  PROVE  IInv'
<1>1. /\ pc[r] = "prechecking" /\ tried[r] = <<>> /\ reply[r] = "none"
      /\ UNCHANGED <<plane, accounts, admin, want, cands, tried>>
  BY DEF QuotaPrecheck, IInv, ReqOK, PlaceOK
<1>2. CandidatesOK(r)'
  BY <1>1 DEF IInv, ReqOK, CandidatesOK
<1>3. CASE pc' = [pc EXCEPT ![r] = "attempting"] /\ UNCHANGED <<free, queue, reply>>
  <2>1. SemInv' /\ Moves(r, {"attempting"})
    BY <1>1, <1>3, OwnerKeepsSem DEF IInv, Holding
  <2>2. ReqType' /\ \A q \in Requests : Same(q)
    BY <1>1, <1>3 DEF IInv, ReqType, Same
  <2>3. pc'[r] = "attempting" /\ AttemptLimit(r)' = AttemptLimit(r)
    BY <1>1, <2>1 DEF Moves, AttemptLimit
  <2>4. PlaceOK(r)' /\ AttemptsOK(r)' /\ AnswerOK(r)'
    BY <1>1, <2>2, <2>3
       DEF IInv, ReqOK, PlaceOK, AttemptsOK, AnswerOK, Same, Holding, OkReplies
  <2> QED BY <1>2, <2>1, <2>2, <2>4, StepOK DEF ReqOK
<1>4. ASSUME NEW a \in {"image_quota_insufficient", "quota_refresh_failed",
                        "helper_unreachable"}, DropPermit(r, a)
      PROVE  IInv'
  <2>1. SemInv' /\ Moves(r, {"done"})
    BY <1>1, <1>4, DropKeepsSem DEF IInv, Holding
  <2>2. reply' = [reply EXCEPT ![r] = a]
    BY <1>4 DEF DropPermit
  <2>3. ReqType' /\ \A q \in Requests \ {r} : Same(q)
    BY <1>1, <2>2 DEF IInv, ReqType, Same, Replies, ErrorReplies
  <2>4. ReqOK(r)'
    BY <1>1, <1>2, <2>1, <2>2, LeaveOK DEF IInv, ReqType, Moves, ErrorReplies
  <2> QED BY <2>1, <2>3, <2>4, StepOK
<1> QED BY <1>3, <1>4 DEF QuotaPrecheck

(* The new attempt is on the next candidate; the loop goes on only after a *)
(* retryable failure and below the limit.                                  *)
LEMMA AttemptEndsOK ==
  ASSUME IInv, NEW r \in Requests, AttemptEnds(r)
  PROVE  IInv'
<1> DEFINE n == Len(tried[r])
           cand == cands[r][n + 1]
           new(o) == [email |-> cand.email, token |-> cand.token, outcome |-> o]
<1>1. /\ pc[r] = "attempting" /\ reply[r] = "none" /\ cands[r] # <<>>
      /\ UNCHANGED <<plane, accounts, admin, want, cands>>
      /\ n \in Nat /\ n < AttemptLimit(r)
      /\ tried[r] \in Seq(Attempt) /\ cands[r] \in Seq(Account)
      /\ plane \in Planes
  BY LenProperties DEF AttemptEnds, IInv, ReqType, ReqOK, PlaceOK, Holding
<1>2. PICK o \in Outcomes(plane) :
        /\ tried' = [tried EXCEPT ![r] = Append(@, new(o))]
        /\ \/ Retries(r, o) /\ UNCHANGED <<free, queue, pc, reply>>
           \/ ~Retries(r, o) /\ \E a \in AnswersTo(o) : DropPermit(r, a)
  BY DEF AttemptEnds
<1>3. /\ AttemptLimit(r) \in Nat /\ AttemptLimit(r) <= Len(cands[r])
      /\ AttemptLimit(r)' = AttemptLimit(r)
  BY <1>1, LimitAtLeastOne DEF IInv, ReqType, AttemptLimit
<1>4. n + 1 \in DOMAIN cands[r] /\ cand \in Account
  BY <1>1, <1>3, LenProperties, ElementOfSeq
<1>5. new(o) \in Attempt
  BY <1>1, <1>4 DEF Attempt, Account, Planes, Outcomes
<1> DEFINE after == Append(tried[r], new(o))
<1>6. /\ tried' = [tried EXCEPT ![r] = after] /\ tried'[r] = after
      /\ after \in Seq(Attempt) /\ Len(after) = n + 1
      /\ DOMAIN after = 1..(n + 1) /\ DOMAIN tried[r] = 1..n
      /\ \A i \in 1..n : after[i] = tried[r][i]
      /\ after[n + 1].email = cand.email
      /\ after[n + 1].outcome = o
  <2>1. tried' = [tried EXCEPT ![r] = after] /\ tried'[r] = after
    BY <1>2 DEF IInv, ReqType
  <2> HIDE DEF n, cand
  <2>2. /\ after \in Seq(Attempt) /\ Len(after) = Len(tried[r]) + 1
        /\ \A i \in 1..Len(tried[r]) : after[i] = tried[r][i]
        /\ after[Len(tried[r]) + 1] = new(o)
    BY <1>1, <1>5, AppendProperties
  <2>3. DOMAIN after = 1..Len(after) /\ DOMAIN tried[r] = 1..Len(tried[r])
    BY <1>1, <2>2, LenProperties
  <2> QED BY <2>1, <2>2, <2>3 DEF n
<1> HIDE DEF after, new
<1>7. CandidatesOK(r)'
  BY <1>1 DEF IInv, ReqOK, CandidatesOK
<1>8. \A i \in 1..n : tried[r][i].outcome = "retryable"
  BY <1>1, <1>6 DEF IInv, ReqOK, AttemptsOK
<1>9. \A i \in 1..(n + 1) : after[i].email = cands[r][i].email
  <2>1. \A i \in 1..n : tried[r][i].email = cands[r][i].email
    BY <1>6 DEF IInv, ReqOK, AttemptsOK
  <2> QED BY <1>1, <1>6, <2>1
<1>10. tried' \in [Requests -> Seq(Attempt)]
  BY <1>6 DEF IInv, ReqType
<1>11. CASE Retries(r, o) /\ UNCHANGED <<free, queue, pc, reply>>
  <2>1. o = "retryable" /\ n + 1 < AttemptLimit(r)
    BY <1>11 DEF Retries
  <2>2. SemInv' /\ Moves(r, {"attempting"})
    BY <1>1, <1>11
       DEF IInv, SemInv, SemType, QueueConsistent, PermitsConserved, Holders, Moves
  <2>3. ReqType' /\ \A q \in Requests \ {r} : Same(q)
    BY <1>1, <1>6, <1>10, <1>11 DEF IInv, ReqType, Same
  <2>4. PlaceOK(r)'
    BY <1>1, <1>3, <1>6, <1>11, <2>1 DEF PlaceOK, Holding
  <2>5. \A i \in 1..(n + 1) : after[i].outcome = "retryable"
    BY <1>1, <1>6, <1>8, <2>1
  <2>6. AttemptsOK(r)'
    BY <1>1, <1>3, <1>6, <1>9, <2>1, <2>5 DEF AttemptsOK
  <2>7. AnswerOK(r)'
    BY <1>1, <1>11 DEF AnswerOK, OkReplies
  <2> QED BY <1>7, <2>2, <2>3, <2>4, <2>6, <2>7, StepOK DEF ReqOK
<1>12. ASSUME ~Retries(r, o), NEW a \in AnswersTo(o), DropPermit(r, a)
       PROVE  IInv'
  <2>1. SemInv' /\ Moves(r, {"done"})
    BY <1>1, <1>12, DropKeepsSem DEF IInv, Holding
  <2>2. reply' = [reply EXCEPT ![r] = a] /\ a \in Replies
    BY <1>12 DEF DropPermit, AnswersTo, Replies, ErrorReplies, OkReplies
  <2>3. /\ ReqType' /\ \A q \in Requests \ {r} : Same(q)
        /\ reply'[r] = a /\ pc'[r] = "done"
    BY <1>1, <1>6, <1>10, <2>1, <2>2 DEF IInv, ReqType, Same, Moves
  <2>4. PlaceOK(r)'
    BY <2>3 DEF PlaceOK, Holding
  <2>5. AttemptsOK(r)'
    <3>1. /\ tried'[r] = after /\ pc'[r] # "attempting"
          /\ cands' = cands /\ AttemptLimit(r)' = AttemptLimit(r)
      BY <1>1, <1>6, <2>3 DEF AttemptLimit
    <3>2. cands[r] # <<>> /\ Len(after) <= AttemptLimit(r)
      BY <1>1, <1>3, <1>6
    <3>3. \A i \in DOMAIN after : i < Len(after) => after[i].outcome = "retryable"
      BY <1>1, <1>6, <1>8
    <3> QED BY <1>6, <1>9, <3>1, <3>2, <3>3 DEF AttemptsOK
  <2>6. o = "retryable" => n + 1 = AttemptLimit(r)
    <3>1. o = "retryable" => plane = "upstream"
      BY DEF Outcomes
    <3>2. CASE admin[r]
      BY <1>1, <1>3, <1>12, <3>1, <3>2 DEF Retries
    <3>3. CASE ~admin[r]
      BY <1>1, <1>3, <3>3 DEF AttemptLimit
    <3> QED BY <3>2, <3>3
  <2>7. AnswerOK(r)'
    <3>1. a \in OkReplies => o = "ok"
      BY <1>12 DEF AnswersTo, OkReplies
    <3>2. a = "upstream_unreachable" => o \in {"retryable", "fatal"}
      BY <1>12 DEF AnswersTo, OkReplies
    <3>3. AnswersTo(o)' = AnswersTo(o)
      BY DEF AnswersTo
    <3> QED BY <1>1, <1>3, <1>6, <1>12, <2>3, <2>6, <3>1, <3>2, <3>3 DEF AnswerOK
  <2> QED BY <1>7, <2>1, <2>3, <2>4, <2>5, <2>7, StepOK DEF ReqOK
<1> QED BY <1>2, <1>11, <1>12

LEMMA DisconnectOK ==
  ASSUME IInv, NEW r \in Requests, Disconnect(r)
  PROVE  IInv'
<1>1. /\ pc[r] \notin {"idle", "done"} /\ reply[r] = "none"
      /\ UNCHANGED <<plane, accounts, admin, want, cands, tried>>
  BY DEF Disconnect, IInv, ReqOK, PlaceOK, Holding
<1>2. reply' = [reply EXCEPT ![r] = "gone"]
  BY DEF Disconnect, Answer, DropPermit
<1>3. SemInv' /\ Moves(r, {"done"})
  <2>1. CASE pc[r] \in {"resolving", "listing"} /\ Answer(r, "gone")
    BY <2>1, OutsideKeepsSem DEF IInv, Answer, Outside, Places, Holding
  <2>2. CASE /\ pc[r] = "waiting"
             /\ \E k \in DOMAIN queue : queue[k] = r /\ queue' = RemoveAt(queue, k)
             /\ pc' = [pc EXCEPT ![r] = "done"]
             /\ UNCHANGED free
    BY <2>2, GiveUpKeepsSem DEF IInv
  <2>3. CASE pc[r] \in Holding /\ DropPermit(r, "gone")
    BY <2>3, DropKeepsSem DEF IInv
  <2> QED BY <2>1, <2>2, <2>3 DEF Disconnect
<1>4. ReqType' /\ \A q \in Requests \ {r} : Same(q)
  BY <1>1, <1>2 DEF IInv, ReqType, Same, Replies
<1>5. pc'[r] = "done" /\ reply'[r] = "gone"
  BY <1>2, <1>3 DEF Moves, IInv, ReqType
<1>6. PlaceOK(r)' /\ CandidatesOK(r)' /\ AnswerOK(r)'
  BY <1>1, <1>5
     DEF IInv, ReqOK, PlaceOK, CandidatesOK, AnswerOK, Holding, OkReplies
<1>7. AttemptsOK(r)'
  BY <1>1, <1>5 DEF IInv, ReqOK, AttemptsOK, AttemptLimit
<1> QED BY <1>3, <1>4, <1>6, <1>7, StepOK DEF ReqOK

LEMMA AccountCandidatesOK ==
  ASSUME IInv, AccountCandidates
  PROVE  IInv'
<1>1. accounts' \in [Emails -> Entry]
  BY MergeType DEF AccountCandidates, IInv, ReqType
<1>2. ReqType' /\ SemInv' /\ \A q \in Requests : Same(q) /\ pc'[q] = pc[q]
  BY <1>1 DEF AccountCandidates, IInv, ReqType, SemInv, SemType,
              QueueConsistent, PermitsConserved, Holders, Same
<1> QED BY <1>2, BystanderOK DEF IInv

LEMMA InitOK == Init => IInv
<1> SUFFICES ASSUME Init PROVE IInv
  OBVIOUS
<1>1. accounts \in [Emails -> Entry]
  <2>1. Loaded \in [Emails -> Entry]
    BY DEF Loaded, Entry
  <2> QED BY <2>1, MergeType DEF Init
<1>2. ReqType
  BY <1>1, PoolAssumption DEF Init, ReqType, Replies
<1>3. SemInv
  <2>1. Holders = {}
    BY DEF Init, Holders, Holding
  <2> QED BY <2>1, FS_EmptySet, PermitsAssumption
          DEF Init, SemInv, SemType, QueueConsistent, PermitsConserved, Places
<1>4. ASSUME NEW r \in Requests
      PROVE  ReqOK(r)
  BY DEF Init, ReqOK, PlaceOK, CandidatesOK, AttemptsOK, AnswerOK, Holding, OkReplies
<1> QED BY <1>2, <1>3, <1>4 DEF IInv

LEMMA NextOK == IInv /\ [Next]_vars => IInv'
<1> SUFFICES ASSUME IInv, [Next]_vars PROVE IInv'
  OBVIOUS
<1>1. ASSUME NEW r \in Requests, NEW isAdmin \in BOOLEAN, NEW n \in {1, 2},
             NEW preferred \in Headers,
             Arrive(r, isAdmin, n, preferred) \/ Refuse(r, isAdmin, n, preferred)
      PROVE  IInv'
  BY <1>1, ArriveOK, RefuseOK
<1>2. ASSUME NEW r \in Requests, Progress(r) \/ Disconnect(r)
      PROVE  IInv'
  BY <1>2, ListForResolveOK, ListForCollectOK, ResumeOK, PrecheckOK,
     AttemptEndsOK, DisconnectOK DEF Progress
<1>3. CASE AccountCandidates
  BY <1>3, AccountCandidatesOK
<1>4. CASE UNCHANGED vars
  <2>1. ReqType' /\ SemInv' /\ \A q \in Requests : Same(q) /\ pc'[q] = pc[q]
    BY <1>4 DEF vars, IInv, ReqType, SemInv, SemType, QueueConsistent,
                PermitsConserved, Holders, Same
  <2> QED BY <2>1, BystanderOK DEF IInv
<1> QED BY <1>1, <1>2, <1>3, <1>4 DEF Next

LEMMA Inductive == Spec => []IInv
BY InitOK, NextOK, PTL DEF Spec

-----------------------------------------------------------------------------
(* What follows holds in every behaviour of the image endpoint, for every  *)
(* set of requests and accounts and every number of permits and attempts.  *)

(* Every variable keeps its type.                                          *)
THEOREM TypeCorrect == Spec => []TypeOK
<1>1. IInv => TypeOK
  BY DEF IInv, ReqType, SemInv, SemType, TypeOK
<1> QED BY <1>1, Inductive, PTL

(* The free permits and the owned ones always add up to the semaphore's    *)
(* size.                                                                   *)
THEOREM PermitsAreConserved == Spec => []PermitsConserved
<1>1. IInv => PermitsConserved
  BY DEF IInv, SemInv
<1> QED BY <1>1, Inductive, PTL

(* The queue is exactly the waiting requests, and nobody waits while a     *)
(* permit is free.                                                         *)
THEOREM QueueIsConsistent == Spec => []QueueConsistent
<1>1. IInv => QueueConsistent
  BY DEF IInv, SemInv
<1> QED BY <1>1, Inductive, PTL

(* A member's image is never generated on another account than the pin.    *)
THEOREM MembersKeepToThePin == Spec => []MembersStayOnPin
<1>1. ASSUME IInv, NEW r \in Requests, ~admin[r]
      PROVE  /\ Len(cands[r]) <= 1
             /\ \A i \in DOMAIN cands[r] : cands[r][i].email = Pin
             /\ \A i \in DOMAIN tried[r] : tried[r][i].email = Pin
  <2>1. /\ Len(cands[r]) <= 1
        /\ \A i \in DOMAIN cands[r] : cands[r][i].email = Pin
    BY <1>1 DEF IInv, ReqOK, CandidatesOK
  <2>2. ASSUME NEW i \in DOMAIN tried[r]
        PROVE  tried[r][i].email = Pin
    <3>1. /\ cands \in [Requests -> Seq(Account)]
          /\ cands[r] \in Seq(Account) /\ tried[r] \in Seq(Attempt)
      BY <1>1 DEF IInv, ReqType
    <3>2. tried[r] # <<>>
      BY <3>1, <2>2, EmptySeq
    <3>3. cands[r] # <<>> /\ Len(tried[r]) <= AttemptLimit(r)
      BY <1>1, <3>2 DEF IInv, ReqOK, AttemptsOK
    <3>4. i \in DOMAIN cands[r]
      BY <2>2, <3>1, <3>3, LimitAtLeastOne, LenProperties
    <3> QED BY <1>1, <2>1, <2>2, <3>4 DEF IInv, ReqOK, AttemptsOK
  <2> QED BY <2>1, <2>2
<1>2. IInv => MembersStayOnPin
  BY <1>1 DEF MembersStayOnPin
<1> QED BY <1>2, Inductive, PTL

(* A prompt is only submitted again after a retryable failure, on an       *)
(* account not used yet, for an admin on the upstream plane.               *)
THEOREM RetriesAreDisciplined == Spec => []RetryDiscipline
<1>1. ASSUME IInv, NEW r \in Requests
      PROVE  /\ \A i, j \in DOMAIN tried[r] :
                  i < j => /\ tried[r][i].outcome = "retryable"
                           /\ tried[r][i].email # tried[r][j].email
             /\ Len(tried[r]) <= MaxAttempts
             /\ Len(tried[r]) > 1 => admin[r] /\ plane = "upstream"
  <2>1. /\ cands \in [Requests -> Seq(Account)]
        /\ DOMAIN cands[r] = 1..Len(cands[r]) /\ Len(cands[r]) \in Nat
        /\ DOMAIN tried[r] = 1..Len(tried[r]) /\ Len(tried[r]) \in Nat
    BY <1>1, LenProperties DEF IInv, ReqType
  <2>2. CASE tried[r] = <<>>
    BY <2>1, <2>2, AttemptsAssumption
  <2>3. CASE tried[r] # <<>>
    <3>1. cands[r] # <<>> /\ Len(tried[r]) <= AttemptLimit(r)
      BY <1>1, <2>3 DEF IInv, ReqOK, AttemptsOK
    <3>2. /\ AttemptLimit(r) \in Nat /\ AttemptLimit(r) <= Len(cands[r])
          /\ AttemptLimit(r) <= MaxAttempts
      BY <2>1, <3>1, LimitAtLeastOne
    <3>3. Len(tried[r]) > 1 => admin[r] /\ plane = "upstream"
      BY <2>1, <3>1 DEF AttemptLimit
    <3>4. ASSUME NEW i \in DOMAIN tried[r], NEW j \in DOMAIN tried[r], i < j
          PROVE  /\ tried[r][i].outcome = "retryable"
                 /\ tried[r][i].email # tried[r][j].email
      <4>1. i \in DOMAIN cands[r] /\ j \in DOMAIN cands[r] /\ i < Len(tried[r])
            /\ i # j
        BY <2>1, <3>1, <3>2, <3>4
      <4>2. /\ tried[r][i].email = cands[r][i].email
            /\ tried[r][j].email = cands[r][j].email
            /\ tried[r][i].outcome = "retryable"
        BY <1>1, <3>4, <4>1 DEF IInv, ReqOK, AttemptsOK
      <4>3. cands[r][i].email # cands[r][j].email
        BY <1>1, <4>1 DEF IInv, ReqOK, CandidatesOK
      <4> QED BY <4>2, <4>3
    <3> QED BY <2>1, <3>1, <3>2, <3>3, <3>4, AttemptsAssumption
  <2> QED BY <2>2, <2>3
<1>2. IInv => RetryDiscipline
  BY <1>1 DEF RetryDiscipline
<1> QED BY <1>2, Inductive, PTL

(* The answer is always the result of the last attempt.                    *)
THEOREM AnswersFitAttempts == Spec => []AnswerIsLastAttempt
<1>1. IInv => AnswerIsLastAttempt
  BY DEF IInv, ReqOK, AnswerOK, AnswerIsLastAttempt
<1> QED BY <1>1, Inductive, PTL

-----------------------------------------------------------------------------
(* A handler only goes forward, and its every step takes it forward.       *)
Rank(place) ==
  CASE place = "idle" -> 7
    [] place = "resolving" -> 6
    [] place = "listing" -> 5
    [] place = "waiting" -> 4
    [] place = "granted" -> 3
    [] place = "prechecking" -> 2
    [] place = "attempting" -> 1
    [] OTHER -> 0

(* Another place is one further on; one more attempt is one further on.    *)
GoesOn(r) ==
  /\ pc'[r] # pc[r] => Rank(pc'[r]) < Rank(pc[r])
  /\ Len(tried'[r]) >= Len(tried[r])
  /\ Progress(r) => pc'[r] # pc[r] \/ Len(tried'[r]) = Len(tried[r]) + 1

HandlersGoOn == \A r \in Requests : GoesOn(r)

(* No place is taken up again, by any step.                                *)
Onward == \A q \in Requests : pc'[q] # pc[q] => Rank(pc'[q]) < Rank(pc[q])

LEMMA MovesOn ==
  ASSUME NEW r \in Requests, NEW S, Moves(r, S),
         \A p \in S : p # pc[r] => Rank(p) < Rank(pc[r])
  PROVE  Onward
<1>1. Rank("granted") < Rank("waiting")
  BY DEF Rank
<1> QED BY <1>1 DEF Onward, Moves

LEMMA ResolveMoves ==
  ASSUME SemInv, NEW r \in Requests, Outside(r),
         NEW isAdmin \in BOOLEAN, NEW found, Resolve(r, isAdmin, found)
  PROVE  Moves(r, {"listing", "granted", "waiting", "done"})
<1>1. CASE pc' = [pc EXCEPT ![r] = "listing"] /\ UNCHANGED <<free, queue, reply>>
  <2>1. Moves(r, {"listing"})
    BY <1>1, OutsideKeepsSem DEF Places, Awaiting, Holding
  <2> QED BY <2>1 DEF Moves
<1>2. CASE AcquirePermit(r)
  BY <1>2, AcquireKeepsSem DEF Moves
<1>3. CASE Answer(r, "account_not_found")
  <2>1. Moves(r, {"done"})
    BY <1>3, OutsideKeepsSem DEF Answer, Places, Holding
  <2> QED BY <2>1 DEF Moves
<1> QED BY <1>1, <1>2, <1>3 DEF Resolve

LEMMA ProgressMovesOn ==
  ASSUME IInv, NEW r \in Requests, Progress(r)
  PROVE  Onward /\ (pc'[r] # pc[r] \/ Len(tried'[r]) = Len(tried[r]) + 1)
<1> USE DEF IInv
<1>1. CASE ListForResolve(r)
  <2>1. Outside(r) /\ admin[r] \in BOOLEAN /\ pc[r] = "resolving"
    BY <1>1 DEF ListForResolve, Outside, Holding, ReqType
  <2>2. PICK found : Resolve(r, admin[r], found)
    BY <1>1 DEF ListForResolve
  <2>3. Moves(r, {"listing", "granted", "waiting", "done"})
    BY <2>1, <2>2, ResolveMoves
  <2>4. \A p \in {"listing", "granted", "waiting", "done"} : Rank(p) < Rank(pc[r])
    BY <2>1 DEF Rank
  <2> QED BY <2>1, <2>3, <2>4, MovesOn DEF Moves
<1>2. CASE ListForCollect(r)
  <2>1. Outside(r) /\ pc[r] = "listing"
    BY <1>2 DEF ListForCollect, Outside, Holding
  <2>2. AcquirePermit(r) \/ Answer(r, "account_not_found")
    BY <1>2 DEF ListForCollect
  <2>3. Moves(r, {"granted", "waiting", "done"})
    <3>1. CASE AcquirePermit(r)
      BY <2>1, <3>1, AcquireKeepsSem DEF Moves
    <3>2. CASE Answer(r, "account_not_found")
      <4>1. Moves(r, {"done"})
        BY <2>1, <3>2, OutsideKeepsSem DEF Answer, Places, Holding
      <4> QED BY <4>1 DEF Moves
    <3> QED BY <2>2, <3>1, <3>2
  <2>4. \A p \in {"granted", "waiting", "done"} : Rank(p) < Rank(pc[r])
    BY <2>1 DEF Rank
  <2> QED BY <2>1, <2>3, <2>4, MovesOn DEF Moves
<1>3. CASE ResumeWithPermit(r)
  <2>1. PICK p \in {"attempting", "prechecking"} : pc' = [pc EXCEPT ![r] = p]
    BY <1>3 DEF ResumeWithPermit
  <2>2. pc[r] = "granted" /\ Moves(r, {p})
    BY <1>3, <2>1, OwnerKeepsSem DEF ResumeWithPermit, Holding
  <2>3. Rank(p) < Rank(pc[r])
    BY <2>2 DEF Rank
  <2> QED BY <2>2, <2>3, MovesOn DEF Moves
<1>4. CASE QuotaPrecheck(r)
  <2>1. pc[r] = "prechecking" /\ pc[r] \in Holding
    BY <1>4 DEF QuotaPrecheck, Holding
  <2>2. PICK p \in {"attempting", "done"} : Moves(r, {p})
    <3>1. CASE pc' = [pc EXCEPT ![r] = "attempting"] /\ UNCHANGED <<free, queue, reply>>
      BY <2>1, <3>1, OwnerKeepsSem DEF Holding
    <3>2. ASSUME NEW a, DropPermit(r, a)
          PROVE  Moves(r, {"done"})
      BY <2>1, <3>2, DropKeepsSem
    <3> QED BY <1>4, <3>1, <3>2 DEF QuotaPrecheck
  <2>3. Rank(p) < Rank(pc[r])
    BY <2>1 DEF Rank
  <2> QED BY <2>1, <2>2, <2>3, MovesOn DEF Moves
<1>5. CASE AttemptEnds(r)
  <2>1. pc[r] = "attempting" /\ pc[r] \in Holding
    BY <1>5 DEF AttemptEnds, Holding
  <2>2. Len(tried'[r]) = Len(tried[r]) + 1
    <3>1. tried[r] \in Seq(Attempt) /\ tried \in [Requests -> Seq(Attempt)]
      BY DEF ReqType
    <3>2. PICK e : tried' = [tried EXCEPT ![r] = Append(@, e)]
      BY <1>5 DEF AttemptEnds
    <3>3. tried'[r] = Append(tried[r], e)
      BY <3>1, <3>2
    <3> QED BY <3>1, <3>3
  <2>3. CASE UNCHANGED <<free, queue, pc, reply>>
    BY <2>2, <2>3 DEF Onward
  <2>4. ASSUME NEW a, DropPermit(r, a)
        PROVE  Onward
    <3>1. Moves(r, {"done"})
      BY <2>1, <2>4, DropKeepsSem
    <3>2. Rank("done") < Rank(pc[r])
      BY <2>1 DEF Rank
    <3> QED BY <3>1, <3>2, MovesOn
  <2> QED BY <1>5, <2>2, <2>3, <2>4 DEF AttemptEnds
<1> QED BY <1>1, <1>2, <1>3, <1>4, <1>5 DEF Progress

LEMMA ClientMovesOn ==
  ASSUME IInv, NEW r \in Requests, NEW isAdmin \in BOOLEAN, NEW n, NEW preferred,
         \/ Arrive(r, isAdmin, n, preferred)
         \/ Refuse(r, isAdmin, n, preferred)
         \/ Disconnect(r)
  PROVE  Onward
<1> USE DEF IInv
<1>1. CASE Arrive(r, isAdmin, n, preferred)
  <2>1. Outside(r) /\ pc[r] = "idle"
    BY <1>1 DEF Arrive, Outside, Holding
  <2>2. Moves(r, {"resolving", "listing", "granted", "waiting", "done"})
    <3>1. CASE pc' = [pc EXCEPT ![r] = "resolving"] /\ UNCHANGED <<free, queue, cands, reply>>
      <4>1. Moves(r, {"resolving"})
        BY <2>1, <3>1, OutsideKeepsSem DEF Places, Awaiting, Holding
      <4> QED BY <4>1 DEF Moves
    <3>2. ASSUME NEW found, Resolve(r, isAdmin, found)
          PROVE  Moves(r, {"listing", "granted", "waiting", "done"})
      BY <2>1, <3>2, ResolveMoves
    <3> QED BY <1>1, <3>1, <3>2 DEF Arrive, Moves
  <2>3. \A p \in {"resolving", "listing", "granted", "waiting", "done"} :
          Rank(p) < Rank(pc[r])
    BY <2>1 DEF Rank
  <2> QED BY <2>2, <2>3, MovesOn
<1>2. CASE Refuse(r, isAdmin, n, preferred)
  <2>1. PICK a : Answer(r, a)
    BY <1>2 DEF Refuse
  <2>2. Outside(r) /\ pc[r] = "idle"
    BY <1>2 DEF Refuse, Outside, Holding
  <2>3. Moves(r, {"done"})
    BY <2>1, <2>2, OutsideKeepsSem DEF Answer, Places, Holding
  <2>4. Rank("done") < Rank(pc[r])
    BY <2>2 DEF Rank
  <2> QED BY <2>3, <2>4, MovesOn
<1>3. CASE Disconnect(r)
  <2>1. Moves(r, {"done"}) /\ pc[r] \in Awaiting
    <3>1. CASE pc[r] \in {"resolving", "listing"} /\ Answer(r, "gone")
      BY <3>1, OutsideKeepsSem DEF Answer, Outside, Places, Awaiting, Holding
    <3>2. ASSUME pc[r] = "waiting", NEW k \in DOMAIN queue, queue[k] = r,
                 queue' = RemoveAt(queue, k), pc' = [pc EXCEPT ![r] = "done"],
                 UNCHANGED free
          PROVE  Moves(r, {"done"}) /\ pc[r] \in Awaiting
      BY <3>2, GiveUpKeepsSem DEF Awaiting
    <3>3. CASE pc[r] \in Holding /\ DropPermit(r, "gone")
      BY <3>3, DropKeepsSem DEF Awaiting
    <3> QED BY <1>3, <3>1, <3>2, <3>3 DEF Disconnect
  <2>2. Rank("done") < Rank(pc[r])
    BY <2>1 DEF Rank, Awaiting, Holding
  <2> QED BY <2>1, <2>2, MovesOn
<1> QED BY <1>1, <1>2, <1>3

LEMMA TriedGrows ==
  ASSUME IInv, [Next]_vars, NEW q \in Requests
  PROVE  Len(tried'[q]) >= Len(tried[q])
<1>1. tried \in [Requests -> Seq(Attempt)] /\ tried[q] \in Seq(Attempt)
  BY DEF IInv, ReqType
<1>2. Len(tried[q]) \in Nat
  BY <1>1, LenProperties
<1>3. CASE tried' = tried
  BY <1>2, <1>3
<1>4. ASSUME NEW r \in Requests, NEW e, tried' = [tried EXCEPT ![r] = Append(@, e)]
      PROVE  Len(tried'[q]) >= Len(tried[q])
  <2>1. tried'[q] = tried[q] \/ tried'[q] = Append(tried[q], e)
    BY <1>1, <1>4
  <2>2. Len(Append(tried[q], e)) = Len(tried[q]) + 1
    BY <1>1
  <2> QED BY <1>2, <2>1, <2>2
<1>5. \/ tried' = tried
      \/ \E r \in Requests : \E e : tried' = [tried EXCEPT ![r] = Append(@, e)]
  <2>1. ASSUME NEW r \in Requests, AttemptEnds(r)
        PROVE  \E e : tried' = [tried EXCEPT ![r] = Append(@, e)]
    BY <2>1 DEF AttemptEnds
  <2>2. ASSUME NEW r \in Requests, Progress(r)
        PROVE  tried' = tried \/ AttemptEnds(r)
    BY <2>2 DEF Progress, ListForResolve, ListForCollect, ResumeWithPermit, QuotaPrecheck
  <2>3. ASSUME NEW r \in Requests, NEW isAdmin, NEW n, NEW preferred,
               Arrive(r, isAdmin, n, preferred) \/ Refuse(r, isAdmin, n, preferred)
        PROVE  tried' = tried
    BY <2>3 DEF Arrive, Refuse
  <2>4. AccountCandidates \/ UNCHANGED vars => tried' = tried
    BY DEF AccountCandidates, vars
  <2>5. ASSUME NEW r \in Requests, Disconnect(r) PROVE tried' = tried
    BY <2>5 DEF Disconnect
  <2> QED BY <2>1, <2>2, <2>3, <2>4, <2>5 DEF Next
<1> QED BY <1>3, <1>4, <1>5

(* Whatever else the server does, a handler never returns to a place it    *)
(* has left, and every step of its own takes it to the next place or ends  *)
(* one more of at most MaxAttempts attempts: a handler takes a bounded     *)
(* number of steps.  What EveryRequestAnswered needs besides is that the   *)
(* steps are taken, which is fairness (main.rs:622-872).                   *)
THEOREM EveryStepGoesOn == Spec => [][HandlersGoOn]_vars
<1>1. ASSUME IInv, [Next]_vars PROVE HandlersGoOn
  <2>1. Onward
    <3>1. ASSUME NEW r \in Requests, Progress(r) PROVE Onward
      BY <1>1, <3>1, ProgressMovesOn
    <3>2. ASSUME NEW r \in Requests, NEW isAdmin \in BOOLEAN, NEW n \in {1, 2},
                 NEW preferred \in Headers,
                 Arrive(r, isAdmin, n, preferred) \/ Refuse(r, isAdmin, n, preferred)
          PROVE  Onward
      BY <1>1, <3>2, ClientMovesOn
    <3>3. ASSUME NEW r \in Requests, Disconnect(r) PROVE Onward
      BY <1>1, <3>3, ClientMovesOn
    <3>4. CASE AccountCandidates
      BY <3>4 DEF AccountCandidates, Onward
    <3>5. CASE UNCHANGED vars
      BY <3>5 DEF vars, Onward
    <3> QED BY <1>1, <3>1, <3>2, <3>3, <3>4, <3>5 DEF Next
  <2>2. ASSUME NEW r \in Requests PROVE GoesOn(r)
    BY <1>1, <2>1, ProgressMovesOn, TriedGrows DEF GoesOn, Onward
  <2> QED BY <2>2 DEF HandlersGoOn
<1> QED BY <1>1, Inductive, PTL DEF Spec

-----------------------------------------------------------------------------
(* ImageGateway implements BoundedAdmission: a handler that asks for a     *)
(* permit comes, one that drops its permit or its place goes, and every    *)
(* other step leaves those inside and the line as they are.                *)

(* How many are inside, in terms of the semaphore.                         *)
LEMMA InsideCount ==
  ASSUME SemInv
  PROVE  /\ Cardinality(Holders) <= Permits
         /\ free = 0 => Cardinality(Holders) = Permits
BY HoldersFinite, PermitsAssumption DEF SemInv, SemType, PermitsConserved, Holders

(* The instance brings a Cardinality of its own.                           *)
LEMMA SameCardinality ==
  ASSUME NEW S
  PROVE  Admission!Cardinality(S) = Cardinality(S)
BY DEF Cardinality, Admission!Cardinality

(* The witness of Settle: the first k of the waiting line go in.           *)
LEMMA SettleWitness ==
  ASSUME NEW in, NEW waiting \in Seq(Requests), NEW k \in 0..Len(waiting),
         SemInv',
         Holders' = in \cup {waiting[i] : i \in 1..k},
         queue' = SubSeq(waiting, k + 1, Len(waiting))
  PROVE  Admission!Settle(in, waiting)
<1>1. /\ Cardinality(Holders') <= Permits
      /\ queue' # <<>> => free' = 0
      /\ free' = 0 => Cardinality(Holders') = Permits
  BY InsideCount, HoldersFinite, PermitsAssumption
     DEF SemInv, SemType, PermitsConserved, QueueConsistent, Holders
<1>2. Admission!Cardinality(Holders') = Cardinality(Holders')
  BY SameCardinality
<1> QED BY <1>1, <1>2 DEF Admission!Settle

(* Its two uses: nobody goes in, or the first in the line does.            *)
LEMMA NobodyEnters ==
  ASSUME NEW in, SemInv', Holders' = in
  PROVE  Admission!Settle(in, queue')
<1>1. queue' \in Seq(Requests) /\ Len(queue') \in Nat
  BY LenProperties DEF SemInv, SemType
<1>2. queue' = SubSeq(queue', 0 + 1, Len(queue'))
  BY <1>1, SubSeqFull
<1>3. Holders' = in \cup {queue'[i] : i \in 1..0}
  OBVIOUS
<1>4. 0 \in 0..Len(queue')
  BY <1>1
<1> QED BY <1>1, <1>2, <1>3, <1>4, SettleWitness

LEMMA FirstEnters ==
  ASSUME NEW in, NEW waiting \in Seq(Requests), waiting # <<>>, SemInv',
         Holders' = in \cup {waiting[1]},
         queue' = SubSeq(waiting, 2, Len(waiting))
  PROVE  Admission!Settle(in, waiting)
<1>1. 1 \in 0..Len(waiting)
  BY LenProperties, EmptySeq
<1>2. queue' = SubSeq(waiting, 1 + 1, Len(waiting))
  OBVIOUS
<1>3. Holders' = in \cup {waiting[i] : i \in 1..1}
  OBVIOUS
<1> QED BY <1>1, <1>2, <1>3, SettleWitness

LEMMA AcquireComes ==
  ASSUME SemInv, SemInv', NEW r \in Requests, Outside(r), AcquirePermit(r)
  PROVE  Admission!Come(r)
<1> USE DEF SemInv, SemType, Outside
<1>1. r \notin Holders /\ \A i \in DOMAIN queue : queue[i] # r
  BY DEF Holders, QueueConsistent
<1>2. CASE /\ free > 0
           /\ free' = free - 1
           /\ pc' = [pc EXCEPT ![r] = "granted"]
           /\ UNCHANGED queue
  <2>1. queue = <<>>
    BY <1>2 DEF QueueConsistent
  <2>2. Holders' = Holders \cup {r}
    BY <1>2 DEF Holders, Holding, Places, Awaiting
  <2> DEFINE waiting == Append(queue, r)
  <2>3. /\ waiting \in Seq(Requests) /\ Len(waiting) = 1 /\ waiting[1] = r
        /\ waiting # <<>>
    BY <2>1, AppendProperties
  <2> HIDE DEF waiting
  <2>4. queue' = SubSeq(waiting, 2, Len(waiting))
    BY <1>2, <2>1, <2>3, SubSeqEmpty
  <2>5. Admission!Settle(Holders, waiting)
    BY <2>2, <2>3, <2>4, FirstEnters
  <2> QED BY <1>1, <2>5 DEF Admission!Come, waiting
<1>3. CASE /\ free = 0
           /\ queue' = Append(queue, r)
           /\ pc' = [pc EXCEPT ![r] = "waiting"]
           /\ UNCHANGED free
  <2>1. Holders' = Holders
    BY <1>3 DEF Holders, Holding, Places, Awaiting
  <2>2. Admission!Settle(Holders, queue')
    BY <2>1, NobodyEnters
  <2> QED BY <1>1, <1>3, <2>2 DEF Admission!Come
<1> QED BY <1>2, <1>3 DEF AcquirePermit

LEMMA DropGoes ==
  ASSUME SemInv, SemInv', NEW r \in Requests, pc[r] \in Holding,
         NEW a, DropPermit(r, a)
  PROVE  Admission!Go(r)
<1> USE DEF SemInv, SemType
<1>1. r \in Holders
  BY DEF Holders
<1>2. CASE /\ queue = <<>>
           /\ free' = free + 1
           /\ pc' = [pc EXCEPT ![r] = "done"]
           /\ UNCHANGED queue
  <2>1. Holders' = Holders \ {r}
    BY <1>2 DEF Holders, Holding, Places, Awaiting
  <2>2. Admission!Settle(Holders \ {r}, queue')
    BY <2>1, NobodyEnters
  <2> QED BY <1>1, <1>2, <2>2 DEF Admission!Go
<1>3. CASE /\ queue # <<>>
           /\ pc' = [pc EXCEPT ![r] = "done", ![Head(queue)] = "granted"]
           /\ queue' = Tail(queue)
           /\ UNCHANGED free
  <2>1. /\ Len(queue) \in Nat /\ Len(queue) >= 1
        /\ Head(queue) = queue[1] /\ queue[1] \in Requests
        /\ Tail(queue) = SubSeq(queue, 2, Len(queue))
    BY <1>3, EmptySeq, LenProperties, ElementOfSeq, TailIsSubSeq
  <2>2. queue[1] # r /\ pc[queue[1]] = "waiting"
    BY <2>1, LenProperties DEF QueueConsistent, Holding
  <2>3. Holders' = (Holders \ {r}) \cup {queue[1]}
    BY <1>3, <2>1, <2>2 DEF Holders, Holding, Places, Awaiting
  <2>4. Admission!Settle(Holders \ {r}, queue)
    BY <1>3, <2>1, <2>3, FirstEnters
  <2> QED BY <1>1, <2>4 DEF Admission!Go
<1> QED BY <1>2, <1>3 DEF DropPermit

LEMMA GiveUpGoes ==
  ASSUME SemInv, SemInv', NEW r \in Requests, pc[r] = "waiting",
         NEW k \in DOMAIN queue, queue[k] = r, queue' = RemoveAt(queue, k),
         pc' = [pc EXCEPT ![r] = "done"], UNCHANGED free
  PROVE  Admission!Go(r)
<1>1. Holders' = Holders
  BY DEF SemInv, SemType, Holders, Holding, Places
<1>2. Admission!Settle(Holders, queue')
  BY <1>1, NobodyEnters
<1>3. Admission!Settle(Holders, Admission!RemoveAt(queue, k))
  BY <1>2 DEF RemoveAt, Admission!RemoveAt
<1> QED BY <1>3 DEF Admission!Go

(* A handler that moves from one place outside to another, or from one     *)
(* place inside to another, changes nothing.                               *)
LEMMA StaysPut ==
  ASSUME SemInv, NEW r \in Requests, NEW p \in Places,
         pc' = [pc EXCEPT ![r] = p], p \in Holding <=> pc[r] \in Holding,
         UNCHANGED queue
  PROVE  UNCHANGED <<Holders, queue>>
BY DEF SemInv, SemType, Holders

LEMMA ResolveAdmits ==
  ASSUME SemInv, SemInv', NEW r \in Requests, Outside(r),
         NEW isAdmin \in BOOLEAN, NEW found, Resolve(r, isAdmin, found)
  PROVE  Admission!Next \/ UNCHANGED <<Holders, queue>>
<1>1. CASE pc' = [pc EXCEPT ![r] = "listing"] /\ UNCHANGED <<free, queue, reply>>
  BY <1>1, StaysPut DEF Outside, Places, Awaiting, Holding
<1>2. CASE AcquirePermit(r)
  BY <1>2, AcquireComes DEF Admission!Next
<1>3. CASE Answer(r, "account_not_found")
  BY <1>3, StaysPut DEF Outside, Answer, Places, Holding
<1> QED BY <1>1, <1>2, <1>3 DEF Resolve

LEMMA HandlerAdmits ==
  ASSUME IInv, IInv', NEW r \in Requests, Progress(r)
  PROVE  Admission!Next \/ UNCHANGED <<Holders, queue>>
<1> USE DEF IInv
<1>1. CASE ListForResolve(r)
  <2>1. Outside(r) /\ admin[r] \in BOOLEAN
    BY <1>1 DEF ListForResolve, Outside, Holding, ReqType
  <2>2. PICK found : Resolve(r, admin[r], found)
    BY <1>1 DEF ListForResolve
  <2> QED BY <2>1, <2>2, ResolveAdmits
<1>2. CASE ListForCollect(r)
  <2>1. Outside(r)
    BY <1>2 DEF ListForCollect, Outside, Holding
  <2>2. AcquirePermit(r) \/ Answer(r, "account_not_found")
    BY <1>2 DEF ListForCollect
  <2>3. CASE AcquirePermit(r)
    BY <2>1, <2>3, AcquireComes DEF Admission!Next
  <2>4. CASE Answer(r, "account_not_found")
    BY <2>1, <2>4, StaysPut DEF Outside, Answer, Places, Holding
  <2> QED BY <2>2, <2>3, <2>4
<1>3. CASE ResumeWithPermit(r)
  BY <1>3, StaysPut DEF ResumeWithPermit, Places, Awaiting, Holding
<1>4. CASE QuotaPrecheck(r)
  <2>1. pc[r] \in Holding
    BY <1>4 DEF QuotaPrecheck, Holding
  <2>2. CASE pc' = [pc EXCEPT ![r] = "attempting"] /\ UNCHANGED <<free, queue, reply>>
    BY <2>1, <2>2, StaysPut DEF Places, Awaiting, Holding
  <2>3. ASSUME NEW a, DropPermit(r, a)
        PROVE  Admission!Next
    BY <2>1, <2>3, DropGoes DEF Admission!Next
  <2> QED BY <1>4, <2>2, <2>3 DEF QuotaPrecheck
<1>5. CASE AttemptEnds(r)
  <2>1. pc[r] \in Holding
    BY <1>5 DEF AttemptEnds, Holding
  <2>2. CASE UNCHANGED <<free, queue, pc, reply>>
    BY <2>2 DEF Holders
  <2>3. ASSUME NEW a, DropPermit(r, a)
        PROVE  Admission!Next
    BY <2>1, <2>3, DropGoes DEF Admission!Next
  <2> QED BY <1>5, <2>2, <2>3 DEF AttemptEnds
<1> QED BY <1>1, <1>2, <1>3, <1>4, <1>5 DEF Progress

LEMMA ClientAdmits ==
  ASSUME IInv, IInv', NEW r \in Requests, NEW isAdmin \in BOOLEAN, NEW n,
         NEW preferred,
         \/ Arrive(r, isAdmin, n, preferred)
         \/ Refuse(r, isAdmin, n, preferred)
         \/ Disconnect(r)
  PROVE  Admission!Next \/ UNCHANGED <<Holders, queue>>
<1> USE DEF IInv
<1>1. CASE Arrive(r, isAdmin, n, preferred)
  <2>1. Outside(r)
    BY <1>1 DEF Arrive, Outside, Holding
  <2>2. CASE pc' = [pc EXCEPT ![r] = "resolving"] /\ UNCHANGED <<free, queue, cands, reply>>
    BY <2>1, <2>2, StaysPut DEF Outside, Places, Awaiting, Holding
  <2>3. ASSUME NEW found, Resolve(r, isAdmin, found)
        PROVE  Admission!Next \/ UNCHANGED <<Holders, queue>>
    BY <2>1, <2>3, ResolveAdmits
  <2> QED BY <1>1, <2>2, <2>3 DEF Arrive
<1>2. CASE Refuse(r, isAdmin, n, preferred)
  <2>1. PICK a : Answer(r, a)
    BY <1>2 DEF Refuse
  <2>2. pc[r] \notin Holding
    BY <1>2 DEF Refuse, Holding
  <2> QED BY <2>1, <2>2, StaysPut DEF Answer, Places, Holding
<1>3. CASE Disconnect(r)
  <2>1. CASE pc[r] \in {"resolving", "listing"} /\ Answer(r, "gone")
    BY <2>1, StaysPut DEF Answer, Places, Holding
  <2>2. ASSUME pc[r] = "waiting", NEW k \in DOMAIN queue, queue[k] = r,
               queue' = RemoveAt(queue, k), pc' = [pc EXCEPT ![r] = "done"],
               UNCHANGED free
        PROVE  Admission!Next
    BY <2>2, GiveUpGoes DEF Admission!Next
  <2>3. CASE pc[r] \in Holding /\ DropPermit(r, "gone")
    BY <2>3, DropGoes DEF Admission!Next
  <2> QED BY <1>3, <2>1, <2>2, <2>3 DEF Disconnect
<1> QED BY <1>1, <1>2, <1>3

LEMMA StepAdmits ==
  ASSUME IInv, IInv', [Next]_vars
  PROVE  Admission!Next \/ UNCHANGED <<Holders, queue>>
<1>1. CASE \E r \in Requests : Progress(r)
  BY <1>1, HandlerAdmits
<1>2. ASSUME NEW r \in Requests, NEW isAdmin \in BOOLEAN, NEW n \in {1, 2},
             NEW preferred \in Headers,
             \/ Arrive(r, isAdmin, n, preferred)
             \/ Refuse(r, isAdmin, n, preferred)
      PROVE  Admission!Next \/ UNCHANGED <<Holders, queue>>
  BY <1>2, ClientAdmits
<1>3. ASSUME NEW r \in Requests, Disconnect(r)
      PROVE  Admission!Next \/ UNCHANGED <<Holders, queue>>
  BY <1>3, ClientAdmits
<1>4. CASE AccountCandidates
  BY <1>4 DEF AccountCandidates, Holders
<1>5. CASE UNCHANGED vars
  BY <1>5 DEF vars, Holders
<1> QED BY <1>1, <1>2, <1>3, <1>4, <1>5 DEF Next

LEMMA InitAdmits == Init => Admission!Init
BY DEF Init, Admission!Init, Holders, Holding

(* The image endpoint admits requests first come, first served, and never  *)
(* more than IMAGE_GLOBAL_CONCURRENCY at a time.                           *)
THEOREM ImplementsAdmission == Spec => AdmissionIsBounded
<1>1. IInv /\ IInv' /\ [Next]_vars => [Admission!Next]_<<Holders, queue>>
  BY StepAdmits
<1> QED BY <1>1, InitAdmits, Inductive, PTL
        DEF Spec, AdmissionIsBounded, Admission!Spec

=============================================================================
