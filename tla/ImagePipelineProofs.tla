------------------------- MODULE ImagePipelineProofs -------------------------
(***************************************************************************)
(* Proofs about HelperImages and ImagePipeline, for any finite set of      *)
(* calls or jobs, any accounts, slots and permits and any quotas.          *)
(*                                                                         *)
(* First the helper alone.  The invariants of the runs are not inductive.  *)
(* Three strengthenings are needed: where a job must be for what it holds  *)
(* (Shape), that the face's image lock is held by one job at a time        *)
(* (FaceInv), and that a job which reaches finally with a reference to the *)
(* e-mail lock either owns it or timed out on it, so that before any       *)
(* timeout the lock is locked for as long as its one owner works (LockInv).*)
(*                                                                         *)
(* The pipeline only restricts execute_image, so all that holds there too. *)
(* That overruns are bounded needs three facts more: at most Permits       *)
(* requests are inside; a working job's request is inside or was given up; *)
(* and once an account is short of quota nobody passes the gate for it any *)
(* more, so that its overruns and the jobs still between the gate and the  *)
(* conversation share the bound.                                           *)
(***************************************************************************)
EXTENDS ImagePipeline, Sequences, FiniteSetTheorems, TLAPS

(* TypeOK, but for the lower bound of inflight, which SlotsAccounted gives.*)
Typed ==
  /\ face \in BOOLEAN /\ forceSticky \in BOOLEAN
  /\ pc \in [Jobs -> Places]
  /\ email \in [Jobs -> Keys]
  /\ direct \in [Jobs -> BOOLEAN]
  /\ imageLock \in [Keys -> BOOLEAN]
  /\ locked \in [Keys -> BOOLEAN]
  /\ lockRef \in [Jobs -> BOOLEAN]
  /\ inflight \in [Emails -> Int]
  /\ \A e \in Emails : inflight[e] <= SlotLimit
  /\ token \in [Jobs -> Keys]
  /\ released \in [Jobs -> BOOLEAN]
  /\ leaked \in [Jobs -> Keys]
  /\ result \in [Jobs -> Results]
  /\ owners \subseteq Jobs

Working == {"making", "running", "failing", "finishing"}
Slotless == {"idle", "queued", "gating", "entering", "locking", "making", "slotting"}

ShapeOf(j) ==
  /\ lockRef[j] => email[j] # NoEmail /\ pc[j] \in Working \cup {"locking", "done"}
  /\ pc[j] = "queued" => face
  /\ pc[j] = "locking" => lockRef[j]
  /\ j \in owners => lockRef[j] /\ pc[j] \in Working
  /\ (lockRef[j] /\ pc[j] \in Working /\ result[j] # "lock_timeout") => j \in owners
  /\ result[j] = "lock_timeout" => pc[j] \in {"failing", "finishing", "done"}
  /\ pc[j] \in Slotless => token[j] = NoEmail
  /\ pc[j] = "checking" => token[j] # NoEmail
  /\ released[j] => pc[j] \in {"finishing", "done"}
  /\ leaked[j] # NoEmail =>
       pc[j] = "done" \/ (pc[j] \in {"failing", "finishing"} /\ token[j] = NoEmail)

Shape == \A j \in Jobs : ShapeOf(j)

FaceInv ==
  /\ \A k \in Keys : imageLock[k] <=> \E j \in Jobs : face /\ email[j] = k /\ Inside(j)
  /\ face => \A i, j \in Jobs : Inside(i) /\ Inside(j) /\ email[i] = email[j] => i = j

TimedOut(k) == \E j \in Jobs : email[j] = k /\ result[j] = "lock_timeout"

Alone(k) ==
  /\ \A i, j \in owners : email[i] = k /\ email[j] = k => i = j
  /\ \A i \in owners : email[i] = k => locked[k]

LockInv ==
  \A k \in Keys :
    /\ locked[k] => \E j \in owners : email[j] = k
    /\ TimedOut(k) \/ Alone(k)

IInv == Typed /\ Shape /\ FaceInv /\ LockInv /\ SlotsAccounted

-----------------------------------------------------------------------------
(* The inductive invariant holds at first ...                              *)
LEMMA InitOK == Init => IInv
<1> SUFFICES ASSUME Init PROVE IInv
  OBVIOUS
<1>1. Typed
  BY SlotLimitAssumption DEF Init, Typed, Keys, Places, Results
<1>2. Shape
  BY DEF Init, Shape, ShapeOf, Working, Slotless
<1>3. FaceInv
  BY DEF Init, FaceInv, Inside
<1>4. LockInv
  BY DEF Init, LockInv, Alone
<1>5. SlotsAccounted
  <2>1. \A e \in Emails : SlotHolders(e) = {}
    BY NoEmailAssumption DEF Init, SlotHolders
  <2> QED BY <2>1, FS_EmptySet DEF Init, SlotsAccounted
<1> QED BY <1>1, <1>2, <1>3, <1>4, <1>5 DEF IInv

(* The face's image lock: a step inside, and a step out of it.              *)
LEMMA FaceKeeps ==
  ASSUME FaceInv, face' = face, email' = email, imageLock' = imageLock,
         \A i \in Jobs : Inside(i)' <=> Inside(i)
  PROVE  FaceInv'
BY DEF FaceInv

LEMMA FaceLeaves ==
  ASSUME Typed, FaceInv, NEW j \in Jobs, face' = face, email' = email,
         imageLock' = [imageLock EXCEPT ![email[j]] = @ /\ ~face],
         Inside(j), \A i \in Jobs : Inside(i)' <=> Inside(i) /\ i # j
  PROVE  FaceInv'
<1>1. CASE face
  <2>1. \A i \in Jobs : email[i] = email[j] /\ Inside(i) => i = j
    BY <1>1 DEF FaceInv
  <2>2. imageLock' = [imageLock EXCEPT ![email[j]] = FALSE]
    BY <1>1
  <2>3. \A k \in Keys : imageLock'[k] <=> \E i \in Jobs : face' /\ email'[i] = k /\ Inside(i)'
    BY <1>1, <2>1, <2>2 DEF FaceInv, Typed
  <2> QED BY <2>3 DEF FaceInv
<1>2. CASE ~face
  <2>1. \A k \in Keys : ~imageLock[k] /\ ~imageLock'[k]
    BY <1>2 DEF FaceInv, Typed
  <2> QED BY <1>2, <2>1 DEF FaceInv
<1> QED BY <1>1, <1>2

(* Each step keeps the types, and no count passes the limit.              *)
LEMMA StepTyped ==
  ASSUME Typed, Shape, NEW j \in Jobs,
         (\E e \in Keys, hasToken \in BOOLEAN : Call(j, e, hasToken)) \/ Step(j)
  PROVE  Typed'
<1> USE SlotLimitAssumption, NoEmailAssumption DEF Typed, Keys, Places, Results, Shape,
           ShapeOf, Goto, Returns, settings, jobVars, lockVars, slotVars
<1>1. CASE \E e \in Keys, hasToken \in BOOLEAN : Call(j, e, hasToken)
  BY <1>1 DEF Call
<1>2. CASE EnterFace(j)
  BY <1>2 DEF EnterFace
<1>3. CASE QuotaGate(j)
  BY <1>3 DEF QuotaGate
<1>4. CASE EnterTry(j)
  BY <1>4 DEF EnterTry
<1>5. CASE TakeLock(j)
  BY <1>5 DEF TakeLock
<1>6. CASE LockTimeout(j)
  BY <1>6 DEF LockTimeout
<1>7. CASE MakeBackend(j)
  BY <1>7 DEF MakeBackend
<1>8. CASE TakeSlot(j)
  BY <1>8 DEF TakeSlot
<1>9. CASE CheckSticky(j)
  BY <1>9 DEF CheckSticky, ReleaseSlot
<1>10. CASE ConversationEnds(j)
  <2>1. /\ pc' \in [Jobs -> Places] /\ result' \in [Jobs -> Results]
        /\ UNCHANGED <<face, forceSticky, email, direct, imageLock, locked, lockRef,
                       token, leaked, owners>>
    BY <1>10 DEF ConversationEnds
  <2>2. CASE UNCHANGED <<inflight, released>>
    BY <2>1, <2>2
  <2>3. CASE /\ token[j] # NoEmail
             /\ inflight' = [inflight EXCEPT ![token[j]] = @ - 1]
             /\ released' = [released EXCEPT ![j] = TRUE]
    <3>1. token[j] \in Emails
      BY <2>3
    <3>2. inflight' \in [Emails -> Int] /\ \A e \in Emails : inflight'[e] <= SlotLimit
      BY <2>3, <3>1
    <3> QED BY <2>1, <2>3, <3>2
  <2> QED BY <1>10, <2>2, <2>3 DEF ConversationEnds, MarkResult
<1>11. CASE HandleException(j)
  <2>1. /\ pc' \in [Jobs -> Places] /\ result' \in [Jobs -> Results]
        /\ UNCHANGED <<face, forceSticky, email, direct, imageLock, locked, lockRef,
                       token, leaked, owners>>
    BY <1>11 DEF HandleException
  <2>2. CASE UNCHANGED <<inflight, released>>
    BY <2>1, <2>2
  <2>3. CASE /\ token[j] # NoEmail
             /\ inflight' = [inflight EXCEPT ![token[j]] = @ - 1]
             /\ released' = [released EXCEPT ![j] = TRUE]
    <3>1. token[j] \in Emails
      BY <2>3
    <3>2. inflight' \in [Emails -> Int] /\ \A e \in Emails : inflight'[e] <= SlotLimit
      BY <2>3, <3>1
    <3> QED BY <2>1, <2>3, <3>2
  <2> QED BY <1>11, <2>2, <2>3 DEF HandleException, MarkResult
<1>12. CASE Finally(j)
  BY <1>12 DEF Finally, ReleaseSlot
<1> QED BY <1>1, <1>2, <1>3, <1>4, <1>5, <1>6, <1>7, <1>8, <1>9, <1>10, <1>11,
           <1>12 DEF Step

(* Each step leaves every job where it may hold what it holds.            *)
LEMMA StepShape ==
  ASSUME Typed, Shape, NEW j \in Jobs,
         (\E e \in Keys, hasToken \in BOOLEAN : Call(j, e, hasToken)) \/ Step(j)
  PROVE  Shape'
<1> USE NoEmailAssumption DEF Typed, Keys, Shape, ShapeOf, Working, Slotless,
           Goto, Returns, settings, jobVars, lockVars, slotVars
<1>1. CASE \E e \in Keys, hasToken \in BOOLEAN : Call(j, e, hasToken)
  BY <1>1 DEF Call
<1>2. CASE EnterFace(j)
  BY <1>2 DEF EnterFace
<1>3. CASE QuotaGate(j)
  BY <1>3 DEF QuotaGate
<1>4. CASE EnterTry(j)
  BY <1>4 DEF EnterTry
<1>5. CASE TakeLock(j)
  BY <1>5 DEF TakeLock
<1>6. CASE LockTimeout(j)
  BY <1>6 DEF LockTimeout
<1>7. CASE MakeBackend(j)
  BY <1>7 DEF MakeBackend
<1>8. CASE TakeSlot(j)
  BY <1>8 DEF TakeSlot
<1>9. CASE CheckSticky(j)
  BY <1>9 DEF CheckSticky, ReleaseSlot
<1>10. CASE ConversationEnds(j)
  BY <1>10 DEF ConversationEnds, MarkResult
<1>11. CASE HandleException(j)
  BY <1>11 DEF HandleException, MarkResult
<1>12. CASE Finally(j)
  BY <1>12 DEF Finally, ReleaseSlot
<1> QED BY <1>1, <1>2, <1>3, <1>4, <1>5, <1>6, <1>7, <1>8, <1>9, <1>10, <1>11,
           <1>12 DEF Step

(* Each step keeps the image lock with the one job inside it.              *)
LEMMA StepFace ==
  ASSUME Typed, Shape, FaceInv, NEW j \in Jobs,
         (\E e \in Keys, hasToken \in BOOLEAN : Call(j, e, hasToken)) \/ Step(j)
  PROVE  FaceInv'
<1> USE DEF Typed,
           Goto, Returns, settings, jobVars, lockVars, slotVars
<1>1. CASE \E e \in Keys, hasToken \in BOOLEAN : Call(j, e, hasToken)
  BY <1>1 DEF Call, FaceInv, Inside
<1>2. CASE EnterFace(j)
  <2>1. /\ ~Inside(j) /\ \A i \in Jobs : Inside(i)' <=> Inside(i) \/ i = j
        /\ face /\ face' = face /\ email' = email
        /\ ~imageLock[email[j]] /\ email[j] \in Keys
        /\ imageLock' = [imageLock EXCEPT ![email[j]] = TRUE]
    BY <1>2 DEF EnterFace, Inside, Shape, ShapeOf
  <2>2. \A i \in Jobs : email[i] = email[j] => ~Inside(i)
    BY <2>1 DEF FaceInv
  <2>3. \A k \in Keys : imageLock'[k] <=> \E i \in Jobs : face' /\ email'[i] = k /\ Inside(i)'
    BY <2>1 DEF FaceInv
  <2>4. \A h, i \in Jobs : Inside(h)' /\ Inside(i)' /\ email'[h] = email'[i] => h = i
    BY <2>1, <2>2 DEF FaceInv
  <2> QED BY <2>1, <2>3, <2>4 DEF FaceInv
<1>3. CASE QuotaGate(j)
  <2>1. CASE pc' = [pc EXCEPT ![j] = "entering"] /\ imageLock' = imageLock
    <3>1. \A i \in Jobs : Inside(i)' <=> Inside(i)
      BY <1>3, <2>1 DEF QuotaGate, Inside
    <3> QED BY <1>3, <2>1, <3>1, FaceKeeps DEF QuotaGate
  <2>2. CASE /\ pc' = [pc EXCEPT ![j] = "done"]
             /\ imageLock' = [imageLock EXCEPT ![email[j]] = @ /\ ~face]
    <3>1. Inside(j) /\ \A i \in Jobs : Inside(i)' <=> Inside(i) /\ i # j
      BY <1>3, <2>2 DEF QuotaGate, Inside
    <3> QED BY <1>3, <2>2, <3>1, FaceLeaves DEF QuotaGate
  <2> QED BY <1>3, <2>1, <2>2 DEF QuotaGate
<1>4. CASE EnterTry(j)
  <2>1. \A i \in Jobs : Inside(i)' <=> Inside(i)
    BY <1>4 DEF EnterTry, Inside
  <2> QED BY <1>4, <2>1, FaceKeeps DEF EnterTry
<1>5. CASE TakeLock(j)
  <2>1. \A i \in Jobs : Inside(i)' <=> Inside(i)
    BY <1>5 DEF TakeLock, Inside
  <2> QED BY <1>5, <2>1, FaceKeeps DEF TakeLock
<1>6. CASE LockTimeout(j)
  <2>1. \A i \in Jobs : Inside(i)' <=> Inside(i)
    BY <1>6 DEF LockTimeout, Inside
  <2> QED BY <1>6, <2>1, FaceKeeps DEF LockTimeout
<1>7. CASE MakeBackend(j)
  <2>1. \A i \in Jobs : Inside(i)' <=> Inside(i)
    BY <1>7 DEF MakeBackend, Inside
  <2> QED BY <1>7, <2>1, FaceKeeps DEF MakeBackend
<1>8. CASE TakeSlot(j)
  <2>1. \A i \in Jobs : Inside(i)' <=> Inside(i)
    BY <1>8 DEF TakeSlot, Inside
  <2> QED BY <1>8, <2>1, FaceKeeps DEF TakeSlot
<1>9. CASE CheckSticky(j)
  <2>1. \A i \in Jobs : Inside(i)' <=> Inside(i)
    BY <1>9 DEF CheckSticky, ReleaseSlot, Inside
  <2> QED BY <1>9, <2>1, FaceKeeps DEF CheckSticky, ReleaseSlot
<1>10. CASE ConversationEnds(j)
  <2>1. \A i \in Jobs : Inside(i)' <=> Inside(i)
    BY <1>10 DEF ConversationEnds, Inside
  <2> QED BY <1>10, <2>1, FaceKeeps DEF ConversationEnds
<1>11. CASE HandleException(j)
  <2>1. \A i \in Jobs : Inside(i)' <=> Inside(i)
    BY <1>11 DEF HandleException, Inside
  <2> QED BY <1>11, <2>1, FaceKeeps DEF HandleException
<1>12. CASE Finally(j)
  <2>1. Inside(j) /\ \A i \in Jobs : Inside(i)' <=> Inside(i) /\ i # j
    BY <1>12 DEF Finally, ReleaseSlot, Inside
  <2> QED BY <1>12, <2>1, FaceLeaves DEF Finally, ReleaseSlot
<1> QED BY <1>1, <1>2, <1>3, <1>4, <1>5, <1>6, <1>7, <1>8, <1>9, <1>10, <1>11,
           <1>12 DEF Step

(* Each step keeps the e-mail locks with their owners.                     *)
LEMMA StepLock ==
  ASSUME Typed, Shape, LockInv, NEW j \in Jobs,
         (\E e \in Keys, hasToken \in BOOLEAN : Call(j, e, hasToken)) \/ Step(j)
  PROVE  LockInv'
<1> USE NoEmailAssumption DEF Typed, Shape, ShapeOf, LockInv, TimedOut, Alone, Working,
           Goto, Returns, settings, jobVars, lockVars, slotVars
<1>1. CASE \E e \in Keys, hasToken \in BOOLEAN : Call(j, e, hasToken)
  BY <1>1 DEF Call
<1>2. CASE EnterFace(j)
  BY <1>2 DEF EnterFace
<1>3. CASE QuotaGate(j)
  BY <1>3 DEF QuotaGate
<1>4. CASE EnterTry(j)
  BY <1>4 DEF EnterTry
<1>5. CASE TakeLock(j)
  BY <1>5 DEF TakeLock
<1>6. CASE LockTimeout(j)
  BY <1>6 DEF LockTimeout
<1>7. CASE MakeBackend(j)
  BY <1>7 DEF MakeBackend
<1>8. CASE TakeSlot(j)
  BY <1>8 DEF TakeSlot
<1>9. CASE CheckSticky(j)
  <2>1. /\ UNCHANGED <<email, locked, owners>>
        /\ \A i \in Jobs : result[i] = "lock_timeout" => result'[i] = "lock_timeout"
    BY <1>9 DEF CheckSticky, ReleaseSlot
  <2> QED BY <2>1
<1>10. CASE ConversationEnds(j)
  BY <1>10 DEF ConversationEnds, MarkResult
<1>11. CASE HandleException(j)
  BY <1>11 DEF HandleException, MarkResult
<1>12. CASE Finally(j)
  BY <1>12 DEF Finally, ReleaseSlot
<1> QED BY <1>1, <1>2, <1>3, <1>4, <1>5, <1>6, <1>7, <1>8, <1>9, <1>10, <1>11,
           <1>12 DEF Step

-----------------------------------------------------------------------------
(* Counting the holders of slots.                                          *)

(* There are finitely many jobs.                                           *)
LEMMA HoldersFinite == \A e : IsFiniteSet(SlotHolders(e)) /\ IsFiniteSet(SlotHolders(e)')
BY JobsAssumption, FS_Subset DEF SlotHolders

(* Nobody takes or gives back a slot.                                      *)
LEMMA SameHolders ==
  ASSUME SlotsAccounted, inflight' = inflight,
         \A e \in Emails : SlotHolders(e)' = SlotHolders(e)
  PROVE  SlotsAccounted'
BY DEF SlotsAccounted

(* One job more holds a slot of t.                                         *)
LEMMA HolderComes ==
  ASSUME Typed, SlotsAccounted, NEW t \in Emails, NEW j \in Jobs,
         inflight' = [inflight EXCEPT ![t] = @ + 1],
         j \notin SlotHolders(t),
         \A e \in Emails : SlotHolders(e)' = IF e = t THEN SlotHolders(e) \cup {j}
                                             ELSE SlotHolders(e)
  PROVE  SlotsAccounted'
<1>1. Cardinality(SlotHolders(t)') = Cardinality(SlotHolders(t)) + 1
  BY HoldersFinite, FS_AddElement
<1> QED BY <1>1 DEF SlotsAccounted, Typed

(* One job less does.                                                      *)
LEMMA HolderGoes ==
  ASSUME Typed, SlotsAccounted, NEW t \in Emails, NEW j \in Jobs,
         inflight' = [inflight EXCEPT ![t] = @ - 1],
         j \in SlotHolders(t),
         \A e \in Emails : SlotHolders(e)' = IF e = t THEN SlotHolders(e) \ {j}
                                             ELSE SlotHolders(e)
  PROVE  SlotsAccounted'
<1>1. Cardinality(SlotHolders(t)') = Cardinality(SlotHolders(t)) - 1
  BY HoldersFinite, FS_RemoveElement
<1> QED BY <1>1 DEF SlotsAccounted, Typed

(* Each step counts a slot up or down with the job that takes or gives it. *)
LEMMA StepSlots ==
  ASSUME Typed, Shape, SlotsAccounted, NEW j \in Jobs,
         (\E e \in Keys, hasToken \in BOOLEAN : Call(j, e, hasToken)) \/ Step(j)
  PROVE  SlotsAccounted'
<1> USE NoEmailAssumption DEF Typed, Shape, ShapeOf, Slotless, Keys,
           Goto, Returns, settings, jobVars, lockVars, slotVars
<1>1. CASE \E e \in Keys, hasToken \in BOOLEAN : Call(j, e, hasToken)
  <2>1. inflight' = inflight /\ \A e \in Emails : SlotHolders(e)' = SlotHolders(e)
    BY <1>1 DEF Call, SlotHolders
  <2> QED BY <2>1, SameHolders
<1>2. CASE EnterFace(j)
  <2>1. inflight' = inflight /\ \A e \in Emails : SlotHolders(e)' = SlotHolders(e)
    BY <1>2 DEF EnterFace, SlotHolders
  <2> QED BY <2>1, SameHolders
<1>3. CASE QuotaGate(j)
  <2>1. inflight' = inflight /\ \A e \in Emails : SlotHolders(e)' = SlotHolders(e)
    BY <1>3 DEF QuotaGate, SlotHolders
  <2> QED BY <2>1, SameHolders
<1>4. CASE EnterTry(j)
  <2>1. inflight' = inflight /\ \A e \in Emails : SlotHolders(e)' = SlotHolders(e)
    BY <1>4 DEF EnterTry, SlotHolders
  <2> QED BY <2>1, SameHolders
<1>5. CASE TakeLock(j)
  <2>1. inflight' = inflight /\ \A e \in Emails : SlotHolders(e)' = SlotHolders(e)
    BY <1>5 DEF TakeLock, SlotHolders
  <2> QED BY <2>1, SameHolders
<1>6. CASE LockTimeout(j)
  <2>1. inflight' = inflight /\ \A e \in Emails : SlotHolders(e)' = SlotHolders(e)
    BY <1>6 DEF LockTimeout, SlotHolders
  <2> QED BY <2>1, SameHolders
<1>7. CASE MakeBackend(j)
  <2>1. inflight' = inflight /\ \A e \in Emails : SlotHolders(e)' = SlotHolders(e)
    BY <1>7 DEF MakeBackend, SlotHolders
  <2> QED BY <2>1, SameHolders
<1>8. CASE TakeSlot(j)
  <2>1. CASE inflight' = inflight
    <3>1. \A e \in Emails : SlotHolders(e)' = SlotHolders(e)
      BY <1>8, <2>1 DEF TakeSlot, SlotHolders
    <3> QED BY <2>1, <3>1, SameHolders
  <2>2. CASE inflight' # inflight
    <3>1. PICK t \in Emails :
            /\ inflight' = [inflight EXCEPT ![t] = @ + 1]
            /\ token' = [token EXCEPT ![j] = t]
            /\ pc[j] = "slotting" /\ Goto(j, "checking")
            /\ released' = released /\ leaked' = leaked
      BY <1>8, <2>2 DEF TakeSlot
    <3>2. /\ j \notin SlotHolders(t)
          /\ \A e \in Emails : SlotHolders(e)' = IF e = t THEN SlotHolders(e) \cup {j}
                                               ELSE SlotHolders(e)
      BY <3>1 DEF SlotHolders
    <3> QED BY <3>1, <3>2, HolderComes
  <2> QED BY <2>1, <2>2
<1>9. CASE CheckSticky(j)
  <2>1. CASE inflight' = inflight
    <3>1. \A e \in Emails : SlotHolders(e)' = SlotHolders(e)
      BY <1>9, <2>1 DEF CheckSticky, ReleaseSlot, SlotHolders
    <3> QED BY <2>1, <3>1, SameHolders
  <2>2. CASE inflight' # inflight
    <3>1. /\ token[j] \in Emails
          /\ inflight' = [inflight EXCEPT ![token[j]] = @ - 1]
          /\ j \in SlotHolders(token[j])
      BY <1>9, <2>2 DEF CheckSticky, ReleaseSlot, SlotHolders
    <3>2. \A e \in Emails : SlotHolders(e)' = IF e = token[j] THEN SlotHolders(e) \ {j}
                                             ELSE SlotHolders(e)
      BY <1>9, <2>2 DEF CheckSticky, ReleaseSlot, SlotHolders
    <3> QED BY <3>1, <3>2, HolderGoes
  <2> QED BY <2>1, <2>2
<1>10. CASE ConversationEnds(j)
  <2>1. CASE inflight' = inflight
    <3>1. \A e \in Emails : SlotHolders(e)' = SlotHolders(e)
      BY <1>10, <2>1 DEF ConversationEnds, MarkResult, SlotHolders
    <3> QED BY <2>1, <3>1, SameHolders
  <2>2. CASE inflight' # inflight
    <3>1. /\ token[j] \in Emails
          /\ inflight' = [inflight EXCEPT ![token[j]] = @ - 1]
          /\ j \in SlotHolders(token[j])
      BY <1>10, <2>2 DEF ConversationEnds, MarkResult, SlotHolders
    <3>2. \A e \in Emails : SlotHolders(e)' = IF e = token[j] THEN SlotHolders(e) \ {j}
                                             ELSE SlotHolders(e)
      BY <1>10, <2>2 DEF ConversationEnds, MarkResult, SlotHolders
    <3> QED BY <3>1, <3>2, HolderGoes
  <2> QED BY <2>1, <2>2
<1>11. CASE HandleException(j)
  <2>1. CASE inflight' = inflight
    <3>1. \A e \in Emails : SlotHolders(e)' = SlotHolders(e)
      BY <1>11, <2>1 DEF HandleException, MarkResult, SlotHolders
    <3> QED BY <2>1, <3>1, SameHolders
  <2>2. CASE inflight' # inflight
    <3>1. /\ token[j] \in Emails
          /\ inflight' = [inflight EXCEPT ![token[j]] = @ - 1]
          /\ j \in SlotHolders(token[j])
      BY <1>11, <2>2 DEF HandleException, MarkResult, SlotHolders
    <3>2. \A e \in Emails : SlotHolders(e)' = IF e = token[j] THEN SlotHolders(e) \ {j}
                                             ELSE SlotHolders(e)
      BY <1>11, <2>2 DEF HandleException, MarkResult, SlotHolders
    <3> QED BY <3>1, <3>2, HolderGoes
  <2> QED BY <2>1, <2>2
<1>12. CASE Finally(j)
  <2>1. CASE inflight' = inflight
    <3>1. \A e \in Emails : SlotHolders(e)' = SlotHolders(e)
      BY <1>12, <2>1 DEF Finally, ReleaseSlot, SlotHolders
    <3> QED BY <2>1, <3>1, SameHolders
  <2>2. CASE inflight' # inflight
    <3>1. /\ token[j] \in Emails
          /\ inflight' = [inflight EXCEPT ![token[j]] = @ - 1]
          /\ j \in SlotHolders(token[j])
      BY <1>12, <2>2 DEF Finally, ReleaseSlot, SlotHolders
    <3>2. \A e \in Emails : SlotHolders(e)' = IF e = token[j] THEN SlotHolders(e) \ {j}
                                             ELSE SlotHolders(e)
      BY <1>12, <2>2 DEF Finally, ReleaseSlot, SlotHolders
    <3> QED BY <3>1, <3>2, HolderGoes
  <2> QED BY <2>1, <2>2
<1> QED BY <1>1, <1>2, <1>3, <1>4, <1>5, <1>6, <1>7, <1>8, <1>9, <1>10, <1>11,
           <1>12 DEF Step

-----------------------------------------------------------------------------
(* ... is kept by every step ...                                           *)
LEMMA NextOK == IInv /\ [Next]_vars => IInv'
<1> SUFFICES ASSUME IInv, [Next]_vars PROVE IInv'
  OBVIOUS
<1>1. CASE UNCHANGED vars
  BY <1>1 DEF IInv, vars, Typed, Shape, ShapeOf, FaceInv, Inside, LockInv,
     TimedOut,
              Alone, SlotsAccounted, SlotHolders
<1>2. CASE Next
  <2>1. PICK j \in Jobs :
          (\E e \in Keys, hasToken \in BOOLEAN : Call(j, e, hasToken)) \/ Step(j)
    BY <1>2 DEF Next
  <2> QED BY <2>1, StepTyped, StepShape, StepFace, StepLock, StepSlots DEF IInv
<1> QED BY <1>1, <1>2

(* ... and so always holds.                                                *)
LEMMA Inductive == Spec => []IInv
BY InitOK, NextOK, PTL DEF Spec

(* Type correctness; above all, no token's count ever goes below zero or   *)
(* above the limit.                                                        *)
THEOREM TypeCorrect == Spec => []TypeOK
<1>1. IInv => TypeOK
  <2> SUFFICES ASSUME IInv PROVE TypeOK
    OBVIOUS
  <2>1. \A e \in Emails : inflight[e] \in 0..SlotLimit
    <3> SUFFICES ASSUME NEW e \in Emails PROVE inflight[e] \in 0..SlotLimit
      OBVIOUS
    <3>1. inflight[e] \in Nat
      BY HoldersFinite, FS_CardinalityType DEF IInv, SlotsAccounted
    <3> QED BY <3>1, SlotLimitAssumption DEF IInv, Typed
  <2> QED BY <2>1 DEF IInv, Typed, TypeOK
<1> QED BY <1>1, Inductive, PTL

(* Every slot taken is given back exactly once.                            *)
THEOREM SlotsAreAccounted == Spec => []SlotsAccounted
<1>1. IInv => SlotsAccounted
  BY DEF IInv
<1> QED BY <1>1, Inductive, PTL

(* No lock stays locked without a job inside that will reach its finally.  *)
THEOREM LocksAreHeld == Spec => []LocksHeldByLiveJobs
<1>1. IInv => LocksHeldByLiveJobs
  BY DEF IInv, FaceInv, LockInv, LocksHeldByLiveJobs, OwnersOf
<1> QED BY <1>1, Inductive, PTL

(* A set with no two elements has at most one.                             *)
LEMMA AtMostOne ==
  ASSUME NEW S, \A x, y \in S : x = y
  PROVE  Cardinality(S) <= 1
<1>1. CASE S = {}
  BY <1>1, FS_EmptySet
<1>2. CASE S # {}
  <2>1. PICK x \in S : TRUE
    BY <1>2
  <2>2. S = {x}
    BY <2>1
  <2> QED BY <2>2, FS_Singleton
<1> QED BY <1>1, <1>2

(* An account is worked on by two jobs at once only after a job timed out  *)
(* on its lock, and never behind the face.                                 *)
THEOREM DoubleHitsFollowTimeouts == Spec => []DoubleHitOnlyAfterTimeout
<1>1. IInv => DoubleHitOnlyAfterTimeout
  <2> SUFFICES ASSUME IInv, NEW e \in Emails, Cardinality(OwnersOf(e)) > 1
               PROVE  ~face /\ TimedOut(e)
    BY DEF DoubleHitOnlyAfterTimeout, TimedOut
  <2>1. ~ (Cardinality(OwnersOf(e)) <= 1)
    <3>1. IsFiniteSet(OwnersOf(e))
      BY JobsAssumption, FS_Subset DEF OwnersOf, IInv, Typed
    <3>2. Cardinality(OwnersOf(e)) \in Nat
      BY <3>1, FS_CardinalityType
    <3> QED BY <3>2
  <2>2. ~face
    <3> SUFFICES ASSUME face PROVE FALSE
      OBVIOUS
    <3>1. \A i, j \in OwnersOf(e) : i = j
      BY DEF IInv, Typed, Shape, ShapeOf, FaceInv, OwnersOf, Inside, Working
    <3> QED BY <3>1, <2>1, AtMostOne
  <2>3. TimedOut(e)
    <3> SUFFICES ASSUME ~TimedOut(e) PROVE FALSE
      OBVIOUS
    <3>1. \A i, j \in OwnersOf(e) : i = j
      BY DEF IInv, LockInv, Alone, OwnersOf, Keys
    <3> QED BY <3>1, <2>1, AtMostOne
  <2> QED BY <2>2, <2>3
<1> QED BY <1>1, Inductive, PTL

-----------------------------------------------------------------------------
(* The pipeline.                                                           *)
PastGate == {"entering", "locking", "making", "slotting", "checking", "opening"}

Past(e) == {j \in Jobs : email[j] = e /\ pc[j] \in PastGate}
GivenUp(e) == {j \in abandoned : email[j] = e}

Admitted ==
  /\ inside \subseteq Jobs
  /\ Cardinality(inside) <= Permits
  /\ line \in Seq(Jobs)

Accounted ==
  /\ abandoned \subseteq Jobs
  /\ \A j \in abandoned : pc[j] # "idle"
  /\ ~face => \A j \in Jobs : UnderWay(j) => j \in inside \cup abandoned

QuotaTyped ==
  /\ remaining \in [Keys -> Nat]
  /\ overruns \in [Keys -> Nat]
  /\ face => \A e \in Keys : overruns[e] = 0

OverrunInv ==
  ~face => \A e \in Keys :
    IF remaining[e] >= MinQuota THEN overruns[e] = 0
    ELSE overruns[e] + Cardinality(Past(e)) <= Permits - 1 + Cardinality(GivenUp(e))

PInv == Typed /\ Admitted /\ Accounted /\ QuotaTyped /\ OverrunInv

-----------------------------------------------------------------------------
(* Every step of the pipeline is one of execute_image, or leaves it alone.  *)
LEMMA StepIsHelpers ==
  ASSUME PipeNext
  PROVE  Next \/ UNCHANGED vars
<1>1. PICK j \in Jobs : \/ Come(j) \/ Leave(j) \/ RunImage(j)
                        \/ PassGate(j) \/ Begin(j) \/ End(j) \/ Other(j)
  BY DEF PipeNext
<1> QED BY <1>1 DEF Come, Leave, RunImage, PassGate, Begin, End, Other, Next, Step

(* The pipeline is execute_image, used by a gateway.                       *)
THEOREM UsesHelper == Pipeline => Spec
<1>1. PipeInit => Init
  BY DEF PipeInit
<1>2. [PipeNext]_pipeVars => [Next]_vars
  BY StepIsHelpers DEF pipeVars
<1> QED BY <1>1, <1>2, PTL DEF Pipeline, Spec

-----------------------------------------------------------------------------
(* Sets of jobs are finite.                                                *)
LEMMA Sizes ==
  ASSUME Admitted, Accounted
  PROVE  /\ \A S \in SUBSET Jobs : IsFiniteSet(S) /\ Cardinality(S) \in Nat
         /\ \A e : Past(e) \in SUBSET Jobs /\ GivenUp(e) \in SUBSET Jobs
<1>1. \A S \in SUBSET Jobs : IsFiniteSet(S) /\ Cardinality(S) \in Nat
  BY JobsAssumption, FS_Subset, FS_CardinalityType
<1> QED BY <1>1 DEF Past, GivenUp, Accounted

(* A part is no larger than the whole.                                     *)
LEMMA Monotone ==
  ASSUME NEW S \in SUBSET Jobs, NEW T \in SUBSET S
  PROVE  Cardinality(T) <= Cardinality(S)
BY JobsAssumption, FS_Subset

(* An instance has a name of its own for the same size.                    *)
LEMMA SameSize == \A S : Adm!Cardinality(S) = Cardinality(S)
BY DEF Cardinality, Adm!Cardinality

(* Admission never lets in more than Permits, and takes nobody out but the *)
(* one who goes.                                                           *)
LEMMA SettleAdmits ==
  ASSUME NEW in \in SUBSET Jobs, NEW waiting \in Seq(Jobs), Adm!Settle(in, waiting)
  PROVE  Admitted' /\ in \subseteq inside'
<1>1. PICK k \in 0..Len(waiting) :
        /\ inside' = in \cup {waiting[i] : i \in 1..k}
        /\ line' = SubSeq(waiting, k + 1, Len(waiting))
        /\ Cardinality(inside') <= Permits
  BY SameSize DEF Adm!Settle
<1>2. inside' \subseteq Jobs
  BY <1>1
<1>3. line' \in Seq(Jobs)
  BY <1>1
<1> QED BY <1>1, <1>2, <1>3 DEF Admitted

(* Where the sets, the counts and the quotas stay or only lose jobs, the   *)
(* bound stays.                                                            *)
LEMMA OverrunKept ==
  ASSUME Admitted, Accounted, Admitted', Accounted', QuotaTyped, OverrunInv,
         face' = face, remaining' = remaining, overruns' = overruns,
         \A e \in Keys : remaining[e] < MinQuota =>
           Past(e)' \subseteq Past(e) /\ GivenUp(e) \subseteq GivenUp(e)'
  PROVE  OverrunInv'
<1> SUFFICES ASSUME ~face, NEW e \in Keys, ~ (remaining[e] >= MinQuota)
             PROVE  overruns[e] + Cardinality(Past(e)')
                      <= Permits - 1 + Cardinality(GivenUp(e)')
  BY DEF OverrunInv
<1>1. Past(e)' \subseteq Past(e) /\ GivenUp(e) \subseteq GivenUp(e)'
  BY QuotaAssumption DEF QuotaTyped
<1>2. /\ Past(e) \in SUBSET Jobs /\ GivenUp(e)' \in SUBSET Jobs
      /\ Past(e)' \in SUBSET Jobs /\ GivenUp(e) \in SUBSET Jobs
  BY <1>1, Sizes DEF Accounted, GivenUp
<1>3. /\ Cardinality(Past(e)') <= Cardinality(Past(e))
      /\ Cardinality(GivenUp(e)) <= Cardinality(GivenUp(e)')
  BY <1>1, <1>2, Monotone
<1>4. overruns[e] + Cardinality(Past(e)) <= Permits - 1 + Cardinality(GivenUp(e))
  BY DEF OverrunInv
<1>5. /\ Cardinality(Past(e)) \in Nat /\ Cardinality(Past(e)') \in Nat
      /\ Cardinality(GivenUp(e)) \in Nat /\ Cardinality(GivenUp(e)') \in Nat
      /\ overruns[e] \in Nat /\ Permits \in Nat
  BY <1>2, Sizes, PermitsAssumption DEF QuotaTyped
<1> QED BY <1>3, <1>4, <1>5

-----------------------------------------------------------------------------
(* The steps of the gateway's side.                                        *)

(* What the lines that follow all keep.                                    *)
LEMMA ComeKeeps ==
  ASSUME PInv, NEW j \in Jobs, Come(j)
  PROVE  PInv'
<1>1. UNCHANGED vars /\ UNCHANGED abandoned /\ UNCHANGED quotaVars
  BY DEF Come
<1>2. Adm!Settle(inside, Append(line, j)) /\ Append(line, j) \in Seq(Jobs)
  BY DEF Come, Adm!Come, PInv, Admitted
<1>3. Admitted' /\ inside \subseteq inside'
  BY <1>2, SettleAdmits DEF PInv, Admitted
<1>4. Typed' /\ QuotaTyped'
  BY <1>1 DEF PInv, Typed, QuotaTyped, vars, quotaVars
<1>5. Accounted'
  BY <1>1, <1>3 DEF PInv, Accounted, UnderWay, vars
<1>6. \A e \in Keys : Past(e)' = Past(e) /\ GivenUp(e)' = GivenUp(e)
  BY <1>1 DEF Past, GivenUp, vars
<1>7. OverrunInv'
  BY <1>1, <1>3, <1>5, <1>6, OverrunKept DEF PInv, vars, quotaVars
<1> QED BY <1>3, <1>4, <1>5, <1>7 DEF PInv

LEMMA LeaveKeeps ==
  ASSUME PInv, NEW j \in Jobs, Leave(j)
  PROVE  PInv'
<1>1. /\ UNCHANGED vars /\ UNCHANGED quotaVars
      /\ abandoned' = abandoned \cup {i \in {j} : UnderWay(i)}
  BY DEF Leave
<1>2. Admitted' /\ inside \ {j} \subseteq inside'
  <2>1. CASE j \in inside /\ Adm!Settle(inside \ {j}, line)
    BY <2>1, SettleAdmits DEF PInv, Admitted
  <2>2. CASE \E k \in DOMAIN line :
               line[k] = j /\ Adm!Settle(inside, Adm!RemoveAt(line, k))
    <3>1. PICK k \in DOMAIN line : Adm!Settle(inside, Adm!RemoveAt(line, k))
      BY <2>2
    <3>2. k \in 1..Len(line)
      BY <3>1 DEF PInv, Admitted
    <3>3. SubSeq(line, 1, k - 1) \in Seq(Jobs) /\ SubSeq(line, k + 1, Len(line)) \in Seq(Jobs)
      BY <3>2 DEF PInv, Admitted
    <3>4. Adm!RemoveAt(line, k) \in Seq(Jobs)
      BY <3>3 DEF Adm!RemoveAt
    <3> QED BY <3>1, <3>4, SettleAdmits DEF PInv, Admitted
  <2> QED BY <2>1, <2>2 DEF Leave, Adm!Go
<1>3. Typed' /\ QuotaTyped'
  BY <1>1 DEF PInv, Typed, QuotaTyped, vars, quotaVars
<1>4. Accounted'
  BY <1>1, <1>2 DEF PInv, Accounted, UnderWay, vars
<1>5. \A e \in Keys : Past(e)' = Past(e) /\ GivenUp(e) \subseteq GivenUp(e)'
  BY <1>1 DEF Past, GivenUp, vars
<1>6. OverrunInv'
  BY <1>1, <1>2, <1>4, <1>5, OverrunKept DEF PInv, vars, quotaVars
<1> QED BY <1>2, <1>3, <1>4, <1>6 DEF PInv

LEMMA RunImageKeeps ==
  ASSUME PInv, Shape, NEW j \in Jobs, RunImage(j)
  PROVE  PInv'
<1>1. PICK e \in Keys, hasToken \in BOOLEAN : Call(j, e, hasToken)
  BY DEF RunImage
<1>2. Typed'
  BY <1>1, StepTyped DEF PInv
<1>3. UNCHANGED gatewayVars /\ UNCHANGED quotaVars /\ (face \/ j \in inside)
  BY DEF RunImage
<1>4. /\ face' = face /\ pc[j] = "idle" /\ email' = [email EXCEPT ![j] = e]
      /\ pc' = [pc EXCEPT ![j] = IF face THEN "queued" ELSE "gating"]
  BY <1>1 DEF Call, Goto, settings
<1>5. Admitted' /\ QuotaTyped'
  BY <1>3, <1>4 DEF PInv, Admitted, QuotaTyped, gatewayVars, quotaVars
<1>6. Accounted'
  BY <1>3, <1>4 DEF PInv, Typed, Accounted, UnderWay, gatewayVars
<1>7. \A k \in Keys : Past(k)' = Past(k) /\ GivenUp(k)' = GivenUp(k)
  BY <1>3, <1>4 DEF PInv, Typed, Accounted, Past, GivenUp, PastGate, gatewayVars
<1>8. OverrunInv'
  BY <1>3, <1>4, <1>5, <1>6, <1>7, OverrunKept DEF PInv, quotaVars
<1> QED BY <1>2, <1>5, <1>6, <1>8 DEF PInv

-----------------------------------------------------------------------------
(* The steps of the helper's side move one job that is under way already.  *)
LEMMA MovesKeep ==
  ASSUME PInv, NEW j \in Jobs, pc[j] # "idle", pc'[j] # "idle", Typed',
         UNCHANGED <<face, email>>, UNCHANGED gatewayVars,
         \A i \in Jobs : i # j => pc'[i] = pc[i],
         pc[j] = "done" => pc'[j] = "done"
  PROVE  Admitted' /\ Accounted' /\ \A e \in Keys : GivenUp(e)' = GivenUp(e)
BY DEF PInv, Admitted, Accounted, UnderWay, GivenUp, gatewayVars

LEMMA PassGateKeeps ==
  ASSUME PInv, Shape, NEW j \in Jobs, PassGate(j)
  PROVE  PInv'
<1>1. Typed'
  BY StepTyped DEF PassGate, PInv, Step
<1>2. /\ pc[j] = "gating" /\ pc'[j] \in {"entering", "done"}
      /\ \A i \in Jobs : i # j => pc'[i] = pc[i]
      /\ UNCHANGED <<face, email>> /\ UNCHANGED gatewayVars /\ UNCHANGED quotaVars
      /\ pc'[j] = "entering" => face \/ remaining[email[j]] >= MinQuota
  BY DEF PassGate, QuotaGate, Goto, PInv, Typed, settings, jobVars
<1>3. Admitted' /\ Accounted' /\ \A e \in Keys : GivenUp(e)' = GivenUp(e)
  BY <1>1, <1>2, MovesKeep
<1>4. QuotaTyped'
  BY <1>2 DEF PInv, QuotaTyped, quotaVars
<1>5. email[j] \in Keys /\ remaining[email[j]] \in Nat
  BY DEF PInv, Typed, QuotaTyped
<1>6. CASE face
  <2>1. OverrunInv'
    BY <1>2, <1>6 DEF OverrunInv
  <2> QED BY <1>1, <1>3, <1>4, <2>1 DEF PInv
<1>7. CASE ~face
  <2>1. ASSUME NEW e \in Keys, remaining[e] < MinQuota
        PROVE  Past(e)' \subseteq Past(e)
    <3>1. pc'[j] = "entering" => email[j] # e
      BY <1>2, <1>5, <1>7, <2>1, QuotaAssumption
    <3> QED BY <1>2, <3>1 DEF Past, PastGate
  <2>2. OverrunInv'
    BY <1>2, <1>3, <2>1, OverrunKept DEF PInv, quotaVars
  <2> QED BY <1>1, <1>3, <1>4, <2>2 DEF PInv
<1> QED BY <1>1, <1>3, <1>4, <1>6, <1>7 DEF PInv

LEMMA OtherKeeps ==
  ASSUME PInv, Shape, NEW j \in Jobs, Other(j)
  PROVE  PInv'
<1>1. Typed'
  BY StepTyped DEF Other, PInv, Step
<1>2. UNCHANGED <<face, email>> /\ UNCHANGED gatewayVars /\ UNCHANGED quotaVars
  BY DEF Other, EnterFace, EnterTry, TakeLock, LockTimeout, TakeSlot, CheckSticky,
         HandleException, Finally, settings, jobVars
<1>3. /\ pc[j] \notin {"idle", "done"} /\ pc'[j] # "idle"
      /\ pc[j] \in PastGate \/ pc'[j] \notin PastGate
      /\ \A i \in Jobs : i # j => pc'[i] = pc[i]
  BY DEF Other, EnterFace, EnterTry, TakeLock, LockTimeout, TakeSlot, CheckSticky,
         HandleException, Finally, Goto, PInv, Typed, PastGate
<1>4. Admitted' /\ Accounted' /\ \A e \in Keys : GivenUp(e)' = GivenUp(e)
  BY <1>1, <1>2, <1>3, MovesKeep
<1>5. QuotaTyped'
  BY <1>2 DEF PInv, QuotaTyped, quotaVars
<1>6. \A e \in Keys : Past(e)' \subseteq Past(e)
  BY <1>2, <1>3 DEF Past
<1>7. OverrunInv'
  BY <1>2, <1>4, <1>6, OverrunKept DEF PInv, quotaVars
<1> QED BY <1>1, <1>4, <1>5, <1>7 DEF PInv

(* A late conversation is one overrun more and one job past the gate less. *)
LEMMA BeginKeeps ==
  ASSUME PInv, Shape, NEW j \in Jobs, Begin(j)
  PROVE  PInv'
<1>0. PICK k \in Keys : k = email[j]
  BY DEF PInv, Typed
<1> DEFINE late == ~face /\ pc'[j] = "running" /\ remaining[k] < MinQuota
<1>1. Typed'
  BY StepTyped DEF Begin, PInv, Step
<1>2. /\ UNCHANGED <<face, email>> /\ UNCHANGED gatewayVars /\ UNCHANGED remaining
      /\ overruns' = [overruns EXCEPT ![k] = IF late THEN @ + 1 ELSE @]
  BY <1>0 DEF Begin, MakeBackend, settings, jobVars
<1>3. /\ pc[j] \in PastGate /\ pc[j] \notin {"idle", "done"}
      /\ pc'[j] \in {"running", "failing"}
      /\ \A i \in Jobs : i # j => pc'[i] = pc[i]
  BY DEF Begin, MakeBackend, Goto, PInv, Typed, PastGate
<1>4. Admitted' /\ Accounted' /\ \A e \in Keys : GivenUp(e)' = GivenUp(e)
  BY <1>1, <1>2, <1>3, MovesKeep
<1>6. QuotaTyped'
  <2>1. overruns' \in [Keys -> Nat]
    <3>1. CASE late
      <4>1. overruns' = [overruns EXCEPT ![k] = @ + 1]
        BY <1>2, <3>1
      <4> QED BY <1>0, <4>1 DEF PInv, QuotaTyped
    <3>2. CASE ~late
      <4>1. overruns' = overruns
        BY <1>2, <3>2 DEF PInv, QuotaTyped
      <4> QED BY <4>1 DEF PInv, QuotaTyped
    <3> QED BY <3>1, <3>2
  <2>2. face => overruns' = overruns
    BY <1>2 DEF PInv, QuotaTyped
  <2> QED BY <1>2, <2>1, <2>2 DEF PInv, QuotaTyped
<1>7. \A e \in Keys : Past(e)' = IF e = k THEN Past(e) \ {j} ELSE Past(e)
  BY <1>2, <1>3, <1>0 DEF Past, PastGate
<1>8. CASE ~late
  <2>1. overruns' = overruns
    BY <1>2, <1>8 DEF PInv, QuotaTyped
  <2>2. \A e \in Keys : Past(e)' \subseteq Past(e)
    BY <1>7
  <2>3. OverrunInv'
    BY <1>2, <1>4, <2>1, <2>2, OverrunKept DEF PInv
  <2> QED BY <1>1, <1>4, <1>6, <2>3 DEF PInv
<1>9. CASE late
  <2>1. /\ \A e \in Keys : overruns'[e] = IF e = k THEN overruns[e] + 1 ELSE overruns[e]
        /\ remaining' = remaining /\ face' = face
    BY <1>2, <1>0, <1>9 DEF PInv, QuotaTyped
  <2>2. /\ j \in Past(k) /\ IsFiniteSet(Past(k)) /\ Cardinality(Past(k)) \in Nat
    BY <1>3, <1>0, Sizes DEF PInv, Past
  <2>3. Cardinality(Past(k)') = Cardinality(Past(k)) - 1
    <3>1. Past(k)' = Past(k) \ {j}
      BY <1>0, <1>7
    <3> QED BY <2>2, <3>1, FS_RemoveElement
  <2>4. ASSUME NEW e \in Keys
        PROVE  IF remaining[e] >= MinQuota THEN overruns'[e] = 0
               ELSE overruns'[e] + Cardinality(Past(e)')
                      <= Permits - 1 + Cardinality(GivenUp(e)')
    <3>1. CASE e = k
      <4>1. overruns[k] + Cardinality(Past(k)) <= Permits - 1 + Cardinality(GivenUp(k))
        BY <1>0, <1>9, QuotaAssumption DEF PInv, OverrunInv, QuotaTyped
      <4>2. overruns'[k] + Cardinality(Past(k)') = overruns[k] + Cardinality(Past(k))
        BY <1>0, <2>1, <2>2, <2>3 DEF PInv, QuotaTyped
      <4>3. ~ (remaining[k] >= MinQuota) /\ GivenUp(k)' = GivenUp(k)
        <5>1. remaining[k] \in Nat /\ MinQuota \in Nat
          BY <1>0, QuotaAssumption DEF PInv, QuotaTyped
        <5> QED BY <1>4, <1>0, <1>9, <5>1
      <4> QED BY <3>1, <4>1, <4>2, <4>3
    <3>2. CASE e # k
      BY <1>4, <1>7, <1>9, <2>1, <3>2 DEF PInv, OverrunInv
    <3> QED BY <3>1, <3>2
  <2>5. OverrunInv'
    BY <2>1, <2>4 DEF OverrunInv
  <2> QED BY <1>1, <1>4, <1>6, <2>5 DEF PInv
<1> QED BY <1>8, <1>9

(* When an account becomes short of quota, whoever has passed its gate is   *)
(* inside the gateway or given up, and the job that used it up is one of    *)
(* them and past the gate no more.                                         *)
LEMMA EndKeeps ==
  ASSUME PInv, Shape, NEW j \in Jobs, End(j)
  PROVE  PInv'
<1>0. PICK k \in Keys : k = email[j]
  BY DEF PInv, Typed
<1>1. Typed'
  BY StepTyped DEF End, PInv, Step
<1>2. /\ UNCHANGED <<face, email>> /\ UNCHANGED gatewayVars /\ UNCHANGED overruns
      /\ \/ UNCHANGED remaining
         \/ ~face /\ remaining[k] > 0 /\ remaining' = [remaining EXCEPT ![k] = @ - 1]
  BY <1>0 DEF End, ConversationEnds, settings, jobVars
<1>3. /\ pc[j] = "running" /\ pc'[j] \in {"finishing", "failing"}
      /\ \A i \in Jobs : i # j => pc'[i] = pc[i]
  BY DEF End, ConversationEnds, Goto, PInv, Typed
<1>4. Admitted' /\ Accounted' /\ \A e \in Keys : GivenUp(e)' = GivenUp(e)
  BY <1>1, <1>2, <1>3, MovesKeep
<1>6. \A e \in Keys : Past(e)' = Past(e)
  BY <1>2, <1>3 DEF Past, PastGate
<1>7. CASE UNCHANGED remaining
  <2>1. OverrunInv'
    BY <1>2, <1>4, <1>6, <1>7, OverrunKept DEF PInv
  <2> QED BY <1>1, <1>2, <1>4, <1>7, <2>1 DEF PInv, QuotaTyped
<1>8. CASE ~face /\ remaining[k] > 0 /\ remaining' = [remaining EXCEPT ![k] = @ - 1]
  <2>1. remaining' \in [Keys -> Nat]
    <3>1. remaining \in [Keys -> Nat] /\ remaining[k] - 1 \in Nat
      BY <1>0, <1>8 DEF PInv, QuotaTyped
    <3> QED BY <1>0, <1>8, <3>1
  <2>2. QuotaTyped'
    BY <1>2, <2>1 DEF PInv, QuotaTyped
  <2>3. Cardinality(Past(k)) + 1 <= Permits + Cardinality(GivenUp(k))
    <3>1. /\ Past(k) \cup {j} \subseteq inside \cup GivenUp(k)
          /\ j \notin Past(k)
      BY <1>3, <1>0, <1>8 DEF PInv, Accounted, UnderWay, Past, PastGate, GivenUp
    <3>2. /\ IsFiniteSet(Past(k)) /\ IsFiniteSet(inside) /\ IsFiniteSet(GivenUp(k))
          /\ Cardinality(Past(k)) \in Nat /\ Cardinality(inside) \in Nat
          /\ Cardinality(GivenUp(k)) \in Nat /\ Cardinality(inside \cap GivenUp(k)) \in Nat
          /\ inside \cup GivenUp(k) \in SUBSET Jobs
      BY Sizes DEF PInv, Admitted
    <3>3. Cardinality(Past(k) \cup {j}) = Cardinality(Past(k)) + 1
      BY <3>1, <3>2, FS_AddElement
    <3>4. Cardinality(Past(k) \cup {j}) <= Cardinality(inside \cup GivenUp(k))
      BY <3>1, <3>2, Monotone
    <3>5. Cardinality(inside \cup GivenUp(k))
            = Cardinality(inside) + Cardinality(GivenUp(k)) - Cardinality(inside \cap GivenUp(k))
      BY <3>2, FS_Union
    <3> QED BY <3>2, <3>3, <3>4, <3>5, PermitsAssumption DEF PInv, Admitted
  <2>4. ASSUME NEW e \in Keys
        PROVE  IF remaining'[e] >= MinQuota THEN overruns[e] = 0
               ELSE overruns[e] + Cardinality(Past(e))
                      <= Permits - 1 + Cardinality(GivenUp(e))
    <3>1. CASE e # k \/ remaining[e] < MinQuota \/ remaining'[e] >= MinQuota
      <4>1. /\ remaining[e] >= MinQuota => overruns[e] = 0
            /\ ~ (remaining[e] >= MinQuota) =>
                 overruns[e] + Cardinality(Past(e)) <= Permits - 1 + Cardinality(GivenUp(e))
        BY <1>8 DEF PInv, OverrunInv
      <4>2. /\ remaining[e] \in Nat /\ remaining'[e] \in Nat /\ MinQuota \in Nat
            /\ remaining'[e] = IF e = k THEN remaining[e] - 1 ELSE remaining[e]
        BY <1>8, <2>1, QuotaAssumption DEF PInv, QuotaTyped
      <4> QED BY <3>1, <4>1, <4>2
    <3>2. CASE e = k /\ remaining[e] >= MinQuota /\ ~ (remaining'[e] >= MinQuota)
      <4>1. overruns[e] = 0
        BY <1>8, <3>2 DEF PInv, OverrunInv
      <4>2. Cardinality(Past(e)) \in Nat /\ Cardinality(GivenUp(e)) \in Nat /\ Permits \in Nat
        BY Sizes, PermitsAssumption DEF PInv
      <4> QED BY <2>3, <3>2, <4>1, <4>2
    <3>3. remaining[e] \in Nat /\ MinQuota \in Nat
      BY QuotaAssumption DEF PInv, QuotaTyped
    <3> QED BY <3>1, <3>2, <3>3
  <2>5. OverrunInv'
    BY <1>2, <1>4, <1>6, <2>4 DEF OverrunInv
  <2> QED BY <1>1, <1>4, <2>2, <2>5 DEF PInv
<1> QED BY <1>2, <1>7, <1>8

-----------------------------------------------------------------------------
(* The invariant holds at first ...                                        *)
LEMMA PipeInitOK == PipeInit => PInv
<1> SUFFICES ASSUME PipeInit PROVE PInv
  OBVIOUS
<1>1. Typed
  BY InitOK DEF PipeInit, IInv
<1>2. Admitted
  BY FS_EmptySet, PermitsAssumption DEF PipeInit, Adm!Init, Admitted
<1>3. Accounted
  BY DEF PipeInit, Init, Accounted, UnderWay
<1>4. QuotaTyped
  BY QuotaAssumption DEF PipeInit, QuotaTyped
<1>5. \A e : Past(e) = {} /\ GivenUp(e) = {}
  BY DEF PipeInit, Init, Past, PastGate, GivenUp
<1>6. OverrunInv
  BY <1>5, FS_EmptySet, PermitsAssumption DEF PipeInit, OverrunInv
<1> QED BY <1>1, <1>2, <1>3, <1>4, <1>6 DEF PInv

(* ... is kept by every step ...                                           *)
LEMMA PipeNextOK == PInv /\ Shape /\ [PipeNext]_pipeVars => PInv'
<1> SUFFICES ASSUME PInv, Shape, [PipeNext]_pipeVars PROVE PInv'
  OBVIOUS
<1>1. CASE UNCHANGED pipeVars
  BY <1>1 DEF pipeVars, vars, gatewayVars, quotaVars, PInv, Typed, Admitted,
              Accounted, UnderWay, QuotaTyped, OverrunInv, Past, GivenUp
<1>2. CASE PipeNext
  BY <1>2, ComeKeeps, LeaveKeeps, RunImageKeeps, PassGateKeeps, BeginKeeps,
     EndKeeps, OtherKeeps DEF PipeNext
<1> QED BY <1>1, <1>2

(* ... and so always holds.                                                *)
LEMMA PipeInductive == Pipeline => []PInv
<1>1. Pipeline => []IInv
  BY UsesHelper, Inductive, PTL
<1>2. IInv => Shape
  BY DEF IInv
<1> QED BY <1>1, <1>2, PipeInitOK, PipeNextOK, PTL DEF Pipeline

(* No account is asked for more images beyond its quota than the permits   *)
(* but one, and the jobs given up on it.                                   *)
THEOREM OverrunsStayBounded == Pipeline => []OverrunsAreBounded
<1>1. PInv => OverrunsAreBounded
  <2> SUFFICES ASSUME PInv, NEW e \in Emails
               PROVE  overruns[e] <= Permits - 1 + Cardinality(GivenUp(e))
    BY DEF OverrunsAreBounded, GivenUp
  <2>1. /\ e \in Keys /\ overruns[e] \in Nat /\ Permits \in Nat \ {0}
        /\ Cardinality(Past(e)) \in Nat /\ Cardinality(GivenUp(e)) \in Nat
    BY Sizes, PermitsAssumption DEF PInv, QuotaTyped, Keys
  <2>2. CASE overruns[e] = 0
    BY <2>1, <2>2
  <2>3. CASE overruns[e] + Cardinality(Past(e)) <= Permits - 1 + Cardinality(GivenUp(e))
    BY <2>1, <2>3
  <2>4. overruns[e] = 0
          \/ overruns[e] + Cardinality(Past(e)) <= Permits - 1 + Cardinality(GivenUp(e))
    BY <2>1 DEF PInv, QuotaTyped, OverrunInv
  <2> QED BY <2>2, <2>3, <2>4
<1> QED BY <1>1, PipeInductive, PTL

(* What is shown of the helper alone holds behind the gateway as well.     *)
THEOREM PipelineTypeCorrect == Pipeline => []TypeOK
BY UsesHelper, TypeCorrect, PTL

THEOREM PipelineSlots == Pipeline => []SlotsAccounted
BY UsesHelper, SlotsAreAccounted, PTL

THEOREM PipelineLocks == Pipeline => []LocksHeldByLiveJobs
BY UsesHelper, LocksAreHeld, PTL

THEOREM PipelineDoubleHits == Pipeline => []DoubleHitOnlyAfterTimeout
BY UsesHelper, DoubleHitsFollowTimeouts, PTL

=============================================================================
