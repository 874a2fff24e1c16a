-------------------------- MODULE TicketPoolProofs --------------------------
(***************************************************************************)
(* Proofs about TicketPool for every set of tickets and accounts, every    *)
(* capacity and time to live.                                              *)
(*                                                                         *)
(* A ticket is handed out once because of where its unconsumed value may   *)
(* be: in one place only, with one caller or in the pool, and nowhere once *)
(* it was handed out.                                                      *)
(***************************************************************************)
EXTENDS TicketPool, FiniteSetTheorems, SequenceTheorems, TLAPS

(* Every id in use was drawn before; the value of a ticket that was not    *)
(* handed out is in one place, and the values of one that was are marked.  *)
OnePlace ==
  /\ \A v \in owned : v.id \in made
  /\ DOMAIN by_id \subseteq made
  /\ \A i \in DOMAIN handed : handed[i].id \in made
  /\ \A v \in owned : ~v.consumed =>
       /\ v.id \notin DOMAIN by_id
       /\ \A w \in owned : w.id = v.id => w = v
  /\ \A t \in DOMAIN by_id : ~by_id[t].consumed => \A v \in owned : v.id # t
  /\ \A i \in DOMAIN handed :
       /\ handed[i].id \in DOMAIN by_id => by_id[handed[i].id].consumed
       /\ \A v \in owned : v.id = handed[i].id => v.consumed

IInv == PoolConsistent /\ SingleUse /\ OnePlace

-----------------------------------------------------------------------------
(* What Vec::retain leaves: the ids of S, on a list no longer than before. *)
LEMMA RetainedProperties ==
  ASSUME NEW list \in Seq(Tickets), NEW S, NEW r \in Retained(list, S)
  PROVE  /\ r \in Seq(Tickets)
         /\ Len(r) <= Len(list)
         /\ Range(r) = Range(list) \cap S
<1> DEFINE P == {i \in DOMAIN list : list[i] \in S}
           m == Cardinality(P)
<1>1. /\ Len(list) \in Nat /\ DOMAIN list = 1..Len(list)
      /\ \A i \in DOMAIN list : list[i] \in Tickets
  BY LenProperties, ElementOfSeq
<1>2. /\ IsFiniteSet(1..Len(list)) /\ Cardinality(1..Len(list)) = Len(list)
  <2>1. \A k \in Nat : /\ IsFiniteSet(1..k)
                       /\ Cardinality(1..k) = IF 1 > k THEN 0 ELSE k - 1 + 1
    BY FS_Interval
  <2>2. \A k \in Nat : (IF 1 > k THEN 0 ELSE k - 1 + 1) = k
    OBVIOUS
  <2> QED BY <1>1, <2>1, <2>2
<1>3. m \in Nat /\ m <= Len(list)
  BY <1>1, <1>2, FS_Subset, FS_CardinalityType
<1>4. PICK ps \in Positions(P) : r = [i \in DOMAIN ps |-> list[ps[i]]]
  BY DEF Retained
<1>5. ps \in [1..m -> P] /\ P = Range(ps)
  BY <1>4 DEF Positions
<1> HIDE DEF m
<1>6. r \in [1..m -> Tickets]
  BY <1>1, <1>4, <1>5
<1>7. r \in Seq(Tickets) /\ Len(r) = m /\ DOMAIN r = 1..m
  BY <1>3, <1>6, IsASeq, LenProperties
<1>8. Range(r) = {list[i] : i \in P}
  BY <1>4, <1>5, <1>7 DEF Range
<1>9. {list[i] : i \in P} = Range(list) \cap S
  BY DEF Range
<1> QED BY <1>3, <1>7, <1>8, <1>9

LEMMA RefreshedProperties ==
  ASSUME PoolConsistent, NEW lists \in RefreshedLists
  PROVE  /\ lists \in [Accounts -> Seq(Tickets)]
         /\ \A a \in Accounts :
              /\ Len(lists[a]) <= MaxPerAccount
              /\ Range(lists[a]) = Listed(a) \cap LiveIds
<1>1. ASSUME NEW a \in Accounts
      PROVE  /\ lists[a] \in Seq(Tickets)
             /\ Len(lists[a]) <= MaxPerAccount
             /\ Range(lists[a]) = Listed(a) \cap LiveIds
  <2>1. lists[a] \in Retained(by_account[a], LiveIds)
    BY DEF RefreshedLists, Refreshed
  <2>2. by_account[a] \in Seq(Tickets) /\ Len(by_account[a]) <= MaxPerAccount
    BY DEF PoolConsistent, TypeOK
  <2>3. /\ lists[a] \in Seq(Tickets) /\ Len(lists[a]) <= Len(by_account[a])
        /\ Range(lists[a]) = Range(by_account[a]) \cap LiveIds
    BY <2>1, <2>2, RetainedProperties
  <2>4. Len(lists[a]) \in Nat /\ Len(by_account[a]) \in Nat
    BY <2>2, <2>3, LenProperties
  <2> QED BY <2>2, <2>3, <2>4, NumbersAssumption DEF Listed
<1>2. DOMAIN lists = Accounts /\ lists = [a \in Accounts |-> lists[a]]
  BY DEF RefreshedLists
<1> QED BY <1>1, <1>2

(* The pool a refresh leaves is consistent, whatever acquire then does to  *)
(* the entries that are left.                                              *)
LEMMA RefreshKeepsPool ==
  ASSUME PoolConsistent, NEW lists \in RefreshedLists,
         by_account' = lists, DOMAIN by_id' = LiveIds,
         \A t \in LiveIds : by_id'[t] \in Value /\ by_id'[t].id = t,
         now' \in 0..MaxTime, owned' \subseteq Value,
         made' \subseteq Tickets, handed' \in Seq(HandOut)
  PROVE  PoolConsistent'
<1>1. /\ lists \in [Accounts -> Seq(Tickets)]
      /\ \A a \in Accounts :
           /\ Len(lists[a]) <= MaxPerAccount
           /\ Range(lists[a]) = Listed(a) \cap LiveIds
  BY RefreshedProperties
<1>2. \A a \in Accounts : Listed(a)' = Listed(a) \cap LiveIds
  BY <1>1 DEF Listed
<1>3. TypeOK'
  BY <1>1 DEF PoolConsistent, TypeOK, LiveIds
<1>4. ASSUME NEW t \in DOMAIN by_id'
      PROVE  t \in Listed(AccountOf[t])'
  <2>1. t \in DOMAIN by_id /\ t \in LiveIds /\ AccountOf[t] \in Accounts
    BY AccountsAssumption DEF PoolConsistent, TypeOK, LiveIds
  <2> QED BY <1>2, <2>1 DEF PoolConsistent
<1>5. ASSUME NEW a \in Accounts
      PROVE  /\ \A t \in Listed(a)' : AccountOf[t] = a
             /\ Len(by_account'[a]) <= MaxPerAccount
  BY <1>1, <1>2 DEF PoolConsistent
<1> QED BY <1>3, <1>4, <1>5 DEF PoolConsistent

LEMMA NewKeeps == ASSUME IInv, NEW t \in Tickets, New(t) PROVE IInv'
<1> USE DEF IInv, New
<1> DEFINE v == [id |-> t, opened |-> now, consumed |-> FALSE]
<1>1. v \in Value /\ v.id = t /\ owned' = owned \cup {v}
  BY DEF PoolConsistent, TypeOK, Value
<1> HIDE DEF v
<1>2. PoolConsistent'
  BY <1>1 DEF PoolConsistent, TypeOK, Listed
<1>3. SingleUse'
  BY DEF SingleUse
<1>4. OnePlace'
  BY <1>1 DEF OnePlace
<1> QED BY <1>2, <1>3, <1>4

(* deposit moves a value; what leaves the list leaves the map.             *)
LEMMA DepositKeeps ==
  ASSUME IInv, NEW value \in owned, Deposit(value) PROVE IInv'
<1> USE DEF IInv
<1> DEFINE x == value.id
           a == AccountOf[x]
           list == Append(by_account[a], x)
           n == Len(list)
           over == IF n > MaxPerAccount THEN n - MaxPerAccount ELSE 0
           evicted == {list[i] : i \in 1..over}
           kept == SubSeq(list, over + 1, n)
<1>1. /\ by_account' = [by_account EXCEPT ![a] = kept]
      /\ by_id' = [t \in (DOMAIN by_id \cup {x}) \ evicted |->
                     IF t = x THEN value ELSE by_id[t]]
      /\ owned' = owned \ {value}
      /\ UNCHANGED <<now, made, handed>>
  BY DEF Deposit
<1>2. value \in Value /\ x \in Tickets /\ a \in Accounts
  BY AccountsAssumption DEF PoolConsistent, TypeOK, Value
<1>3. by_account[a] \in Seq(Tickets)
  BY <1>2 DEF PoolConsistent, TypeOK
<1>4. /\ list \in Seq(Tickets) /\ n \in Nat /\ DOMAIN list = 1..n
      /\ n = Len(by_account[a]) + 1
      /\ DOMAIN by_account[a] = 1..(n - 1)
      /\ \A i \in 1..(n - 1) : list[i] = by_account[a][i]
      /\ list[n] = x
  BY <1>2, <1>3, AppendProperties, LenProperties
<1>5. Range(list) = Listed(a) \cup {x}
  <2>1. /\ Range(list) = {list[i] : i \in DOMAIN list}
        /\ Listed(a) = {by_account[a][i] : i \in DOMAIN by_account[a]}
    BY DEF Range, Listed
  <2> HIDE DEF list, n, a, x
  <2>2. DOMAIN list = DOMAIN by_account[a] \cup {n} /\ n \in DOMAIN list
    BY <1>4
  <2>3. \A i \in DOMAIN by_account[a] : list[i] = by_account[a][i]
    BY <1>4
  <2>4. list[n] = x
    BY <1>4
  <2> QED BY <2>1, <2>2, <2>3, <2>4
<1> HIDE DEF list, n
<1>6. over \in 0..n /\ n - over <= MaxPerAccount
  BY <1>4, NumbersAssumption
<1> HIDE DEF over
<1>7. /\ kept \in Seq(Tickets) /\ Len(kept) = n - over
      /\ DOMAIN kept = 1..(n - over)
      /\ \A i \in 1..(n - over) : kept[i] = list[over + i]
  <2>1. /\ over + 1 \in Int /\ n \in Int
        /\ \A i \in (over + 1)..n : list[i] \in Tickets
    <3>1. \A i \in DOMAIN list : list[i] \in Tickets
      BY <1>4, ElementOfSeq
    <3> QED BY <1>4, <1>6, <3>1
  <2>2. /\ kept \in Seq(Tickets)
        /\ Len(kept) = IF over + 1 <= n THEN n - (over + 1) + 1 ELSE 0
        /\ \A i \in 1..(n - (over + 1) + 1) : kept[i] = list[(over + 1) + i - 1]
    BY <2>1, SubSeqProperties
  <2> HIDE DEF kept
  <2>3. Len(kept) = n - over
    BY <1>4, <1>6, <2>2
  <2>4. ASSUME NEW i \in 1..(n - over)
        PROVE  kept[i] = list[over + i]
    <3>1. i \in 1..(n - (over + 1) + 1) /\ (over + 1) + i - 1 = over + i
      BY <1>4, <1>6
    <3>2. kept[i] = list[(over + 1) + i - 1]
      BY <2>2, <3>1
    <3> QED BY <3>1, <3>2
  <2> QED BY <2>2, <2>3, <2>4, LenProperties
<1> HIDE DEF kept
<1>8. /\ Range(kept) \subseteq Range(list)
      /\ Range(list) \subseteq Range(kept) \cup evicted
  <2>1. \A i \in 1..(n - over) : over + i \in 1..n
    BY <1>4, <1>6
  <2>2. \A i \in 1..n : i \in 1..over \/ (i - over \in 1..(n - over) /\ over + (i - over) = i)
    BY <1>4, <1>6
  <2> QED BY <1>4, <1>7, <2>1, <2>2 DEF Range
<1> HIDE DEF evicted
<1>9. /\ Listed(a)' = Range(kept)
      /\ \A b \in Accounts \ {a} : Listed(b)' = Listed(b)
  BY <1>1, <1>2 DEF PoolConsistent, TypeOK, Listed
<1>10. TypeOK'
  <2>1. \A t \in DOMAIN by_id' : by_id'[t] \in Value /\ by_id'[t].id = t
    BY <1>1, <1>2 DEF PoolConsistent, TypeOK
  <2> QED BY <1>1, <1>2, <1>7, <2>1 DEF PoolConsistent, TypeOK
<1>11. ASSUME NEW t \in DOMAIN by_id'
       PROVE  t \in Listed(AccountOf[t])'
  <2>1. t \notin evicted /\ (t = x \/ t \in DOMAIN by_id)
    BY <1>1
  <2>2. t = x \/ t \in Listed(AccountOf[t])
    BY <2>1 DEF PoolConsistent
  <2>3. AccountOf[t] \in Accounts
    BY <1>2, <2>1, AccountsAssumption DEF PoolConsistent, TypeOK
  <2> QED BY <1>5, <1>8, <1>9, <2>1, <2>2, <2>3
<1>12. ASSUME NEW b \in Accounts
       PROVE  /\ \A t \in Listed(b)' : AccountOf[t] = b
              /\ Len(by_account'[b]) <= MaxPerAccount
  <2>1. CASE b = a
    <3>1. by_account'[a] = kept
      BY <1>1, <1>2 DEF PoolConsistent, TypeOK
    <3>2. \A t \in Range(list) : AccountOf[t] = a
      BY <1>2, <1>5 DEF PoolConsistent
    <3> QED BY <1>6, <1>7, <1>8, <1>9, <2>1, <3>1, <3>2
  <2>2. CASE b # a
    BY <1>1, <1>9, <2>2 DEF PoolConsistent, TypeOK
  <2> QED BY <2>1, <2>2
<1>13. SingleUse'
  BY <1>1 DEF SingleUse
<1>14. OnePlace'
  <2> HIDE DEF a
  <2>1. \A t \in DOMAIN by_id' :
          \/ t = x /\ by_id'[t] = value
          \/ t \in DOMAIN by_id /\ by_id'[t] = by_id[t]
    BY <1>1
  <2>2. owned' \subseteq owned /\ value \notin owned'
    BY <1>1
  <2>3. \A v \in owned' : v.id = x => v.consumed /\ value.consumed
    BY <2>2 DEF OnePlace
  <2> QED BY <1>1, <2>1, <2>2, <2>3 DEF OnePlace
<1> QED BY <1>10, <1>11, <1>12, <1>13, <1>14 DEF PoolConsistent

LEMMA RefreshKeeps == ASSUME IInv, Refresh PROVE IInv'
<1> USE DEF IInv
<1>1. PICK lists \in RefreshedLists : by_account' = lists
  BY DEF Refresh
<1>2. /\ by_id' = [t \in LiveIds |-> by_id[t]] /\ DOMAIN by_id' = LiveIds
      /\ UNCHANGED <<now, owned, made, handed>>
  BY DEF Refresh, Restrict
<1>3. PoolConsistent'
  BY <1>1, <1>2, RefreshKeepsPool DEF PoolConsistent, TypeOK, LiveIds
<1>4. SingleUse' /\ OnePlace'
  BY <1>2 DEF SingleUse, OnePlace, LiveIds
<1> QED BY <1>3, <1>4

LEMMA NotFoundKeeps ==
  ASSUME IInv, NEW a \in Accounts, AcquireNotFound(a) PROVE IInv'
<1>1. Refresh
  BY DEF AcquireNotFound, Refresh
<1> QED BY <1>1, RefreshKeeps

(* A ticket on a refreshed list is not consumed, so nobody was given it.   *)
LEMMA AcquireKeeps == ASSUME IInv, NEW a \in Accounts, Acquire(a) PROVE IInv'
<1> USE DEF IInv
<1>0. PICK lists \in RefreshedLists : \E i \in DOMAIN lists[a] :
        LET t == lists[a][i]
            value == [by_id[t] EXCEPT !.consumed = TRUE]
        IN
        /\ by_account' = lists
        /\ by_id' = [Restrict(by_id, LiveIds) EXCEPT ![t] = value]
        /\ owned' = owned \cup {value}
        /\ handed' = Append(handed, [id |-> t, account |-> a, age |-> Age(value)])
        /\ UNCHANGED <<now, made>>
  BY DEF Acquire
<1>1. PICK i \in DOMAIN lists[a] :
        LET t == lists[a][i]
            value == [by_id[t] EXCEPT !.consumed = TRUE]
        IN
        /\ by_account' = lists
        /\ by_id' = [Restrict(by_id, LiveIds) EXCEPT ![t] = value]
        /\ owned' = owned \cup {value}
        /\ handed' = Append(handed, [id |-> t, account |-> a, age |-> Age(value)])
        /\ UNCHANGED <<now, made>>
  BY <1>0
<1> DEFINE t == lists[a][i]
           value == [by_id[t] EXCEPT !.consumed = TRUE]
           out == [id |-> t, account |-> a, age |-> Age(value)]
<1>2. t \in LiveIds /\ t \in Listed(a)
  BY RefreshedProperties DEF Range
<1> HIDE DEF t
<1>3. /\ t \in Tickets /\ t \in DOMAIN by_id /\ AccountOf[t] = a
      /\ by_id[t] \in Value /\ by_id[t].id = t
      /\ ~by_id[t].consumed /\ Age(by_id[t]) <= TTL
  BY <1>2 DEF PoolConsistent, TypeOK, LiveIds, Valid
<1>4. /\ value \in Value /\ value.id = t /\ value.consumed
      /\ Age(value) = Age(by_id[t])
  BY <1>3 DEF Value, Age
<1>5. out \in HandOut
  BY <1>3, <1>4, NumbersAssumption DEF HandOut, Age, PoolConsistent, TypeOK, Value
<1>6. /\ by_account' = lists
      /\ by_id' = [u \in LiveIds |-> IF u = t THEN value ELSE by_id[u]]
      /\ owned' = owned \cup {value}
      /\ handed' = Append(handed, out)
      /\ UNCHANGED <<now, made>>
  BY <1>1, <1>2 DEF Restrict, t
<1>7. /\ handed \in Seq(HandOut) /\ handed' \in Seq(HandOut)
      /\ Len(handed) \in Nat
      /\ DOMAIN handed = 1..Len(handed) /\ DOMAIN handed' = 1..(Len(handed) + 1)
      /\ \A j \in DOMAIN handed : handed'[j] = handed[j]
      /\ handed'[Len(handed) + 1] = out
  BY <1>5, <1>6, AppendProperties, LenProperties DEF PoolConsistent, TypeOK
<1> HIDE DEF value
<1>8. PoolConsistent'
  <2>1. \A u \in LiveIds : by_id'[u] \in Value /\ by_id'[u].id = u
    BY <1>4, <1>6 DEF PoolConsistent, TypeOK, LiveIds
  <2>2. owned' \subseteq Value
    BY <1>4, <1>6 DEF PoolConsistent, TypeOK
  <2> QED BY <1>6, <1>7, <2>1, <2>2, RefreshKeepsPool DEF PoolConsistent, TypeOK
<1>9. \A j \in DOMAIN handed : handed[j].id # t
  BY <1>3 DEF OnePlace
<1>10. \A v \in owned : v.id # t
  BY <1>3 DEF OnePlace
<1>11. out.id = t /\ out.account = AccountOf[t] /\ out.age <= TTL
  BY <1>3, <1>4
<1> HIDE DEF out
<1>12. SingleUse'
  <2>1. \A j \in DOMAIN handed' : j \in DOMAIN handed \/ j = Len(handed) + 1
    BY <1>7
  <2> QED BY <1>7, <1>9, <1>11, <2>1 DEF SingleUse
<1>13. OnePlace'
  <2>1. \A j \in DOMAIN handed' :
          \/ j \in DOMAIN handed /\ handed'[j] = handed[j]
          \/ handed'[j].id = t
    BY <1>7, <1>11
  <2>2. \A u \in DOMAIN by_id' :
          /\ u \in DOMAIN by_id
          /\ \/ u = t /\ by_id'[u].consumed
             \/ u # t /\ by_id'[u] = by_id[u]
    BY <1>4, <1>6 DEF LiveIds
  <2> QED BY <1>3, <1>4, <1>6, <1>9, <1>10, <2>1, <2>2 DEF OnePlace
<1> QED BY <1>8, <1>12, <1>13

LEMMA InitOK == Init => IInv
<1> SUFFICES ASSUME Init PROVE IInv
  OBVIOUS
<1>1. PoolConsistent
  <2>1. \A a \in Accounts : Listed(a) = {} /\ Len(by_account[a]) = 0
    BY DEF Init, Listed, Range
  <2> QED BY <2>1, NumbersAssumption DEF Init, PoolConsistent, TypeOK
<1>2. SingleUse /\ OnePlace
  BY DEF Init, SingleUse, OnePlace
<1> QED BY <1>1, <1>2 DEF IInv

LEMMA NextOK == IInv /\ [Next]_vars => IInv'
<1> SUFFICES ASSUME IInv, [Next]_vars PROVE IInv'
  OBVIOUS
<1>1. CASE Tick
  BY <1>1 DEF Tick, IInv, PoolConsistent, TypeOK, Listed, SingleUse, OnePlace
<1>2. CASE UNCHANGED vars
  BY <1>2 DEF vars, IInv, PoolConsistent, TypeOK, Listed, SingleUse, OnePlace
<1> QED BY <1>1, <1>2, NewKeeps, DepositKeeps, RefreshKeeps, AcquireKeeps,
           NotFoundKeeps DEF Next

LEMMA Inductive == Spec => []IInv
BY InitOK, NextOK, PTL DEF Spec

(* The pool and its index agree, and no list outgrows its capacity.        *)
THEOREM PoolStaysConsistent == Spec => []PoolConsistent
<1>1. IInv => PoolConsistent
  BY DEF IInv
<1> QED BY <1>1, Inductive, PTL

(* No ticket is handed out twice, too old or for another account.          *)
THEOREM TicketsServeOnce == Spec => []SingleUse
<1>1. IInv => SingleUse
  BY DEF IInv
<1> QED BY <1>1, Inductive, PTL

=============================================================================
