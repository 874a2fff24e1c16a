----------------------------- MODULE TicketPool -----------------------------
(***************************************************************************)
(* The in-memory pool of Sentinel tickets (crates/ticket_pool/src/lib.rs). *)
(* Callers own ticket values: a new one is moved into the pool by deposit, *)
(* acquire gives a copy of a pooled one back, and that copy may be         *)
(* deposited once more.  No caller clones a ticket it has not acquired.    *)
(* The crate is frozen: no other crate uses it, and whoever shares a pool  *)
(* wraps it in a Mutex, so each call is one step.                          *)
(***************************************************************************)
EXTENDS Integers, Sequences, FiniteSets, Functions

CONSTANTS
  Tickets,        \* the ids that SentinelTicket::new may draw
  Accounts,
  AccountOf,      \* the account_key each ticket is made for
  TTL,            \* cfg.ttl_secs
  MaxPerAccount,  \* cfg.max_per_account
  MaxTime         \* bound: the last second of the clock

ASSUME AccountsAssumption == AccountOf \in [Tickets -> Accounts]
ASSUME NumbersAssumption ==
  TTL \in Nat /\ MaxPerAccount \in Nat /\ MaxTime \in Nat

VARIABLES
  now,         \* now_unix()
  by_id,       \* the tickets in the pool
  by_account,  \* their ids by account, in the order of the deposits
  owned,       \* the ticket values the callers own
  made,        \* the ids drawn so far
  handed       \* history: what acquire returned, to whom and how old it was

vars == <<now, by_id, by_account, owned, made, handed>>

Value == [id : Tickets, opened : 0..MaxTime, consumed : BOOLEAN]
HandOut == [id : Tickets, account : Accounts, age : 0..MaxTime]

Listed(a) == Range(by_account[a])

TypeOK ==
  /\ now \in 0..MaxTime
  /\ DOMAIN by_id \subseteq Tickets
  /\ \A t \in DOMAIN by_id : by_id[t] \in Value /\ by_id[t].id = t
  /\ by_account \in [Accounts -> Seq(Tickets)]
  /\ owned \subseteq Value
  /\ made \subseteq Tickets
  /\ handed \in Seq(HandOut)

Init ==
  /\ now = 0
  /\ by_id = [t \in {} |-> 0]
  /\ by_account = [a \in Accounts |-> <<>>]
  /\ owned = {}
  /\ made = {}
  /\ handed = <<>>

-----------------------------------------------------------------------------
(* age_secs: the subtraction saturates when the clock was set back.        *)
Age(value) == IF now > value.opened THEN now - value.opened ELSE 0

Valid(value) == ~value.consumed /\ Age(value) <= TTL

(* Vec::retain: what is left of a list when the ids outside S go.  The     *)
(* positions that stay are taken in increasing order.                      *)
Positions(P) ==
  {ps \in [1..Cardinality(P) -> P] :
     /\ \A i, j \in DOMAIN ps : i < j => ps[i] < ps[j]
     /\ P = Range(ps)}

Retained(list, S) ==
  {[i \in DOMAIN ps |-> list[ps[i]]] :
     ps \in Positions({i \in DOMAIN list : list[i] \in S})}

(* The pool and its lists after a refresh.                                 *)
LiveIds == {t \in DOMAIN by_id : Valid(by_id[t])}

Refreshed(lists) ==
  /\ DOMAIN lists = Accounts
  /\ \A a \in Accounts : lists[a] \in Retained(by_account[a], LiveIds)

RefreshedLists ==
  {lists \in [Accounts -> UNION {Retained(by_account[a], LiveIds) : a \in Accounts}] :
     Refreshed(lists)}

-----------------------------------------------------------------------------
New(t) ==
  /\ t \notin made
  /\ made' = made \cup {t}
  /\ owned' = owned \cup {[id |-> t, opened |-> now, consumed |-> FALSE]}
  /\ UNCHANGED <<now, by_id, by_account, handed>>

(* Fault: an evicted id leaves the list but not the map.                   *)
DepositKeepsEvicted(value) ==
  LET a == AccountOf[value.id]
      list == Append(by_account[a], value.id)
      over == IF Len(list) > MaxPerAccount THEN Len(list) - MaxPerAccount ELSE 0
  IN
  /\ value \in owned
  /\ owned' = owned \ {value}
  /\ by_account' = [by_account EXCEPT ![a] = SubSeq(list, over + 1, Len(list))]
  /\ by_id' = [t \in DOMAIN by_id \cup {value.id} |->
                 IF t = value.id THEN value ELSE by_id[t]]
  /\ UNCHANGED <<now, made, handed>>

(* deposit: the value replaces an entry of the same id; ids from the front *)
(* of the list, and their entries, go while the list is too long.          *)
Deposit(value) ==
  LET a == AccountOf[value.id]
      list == Append(by_account[a], value.id)
      over == IF Len(list) > MaxPerAccount THEN Len(list) - MaxPerAccount ELSE 0
      evicted == {list[i] : i \in 1..over}
  IN
  /\ value \in owned
  /\ owned' = owned \ {value}
  /\ by_account' = [by_account EXCEPT ![a] = SubSeq(list, over + 1, Len(list))]
  /\ by_id' = [t \in (DOMAIN by_id \cup {value.id}) \ evicted |->
                 IF t = value.id THEN value ELSE by_id[t]]
  /\ UNCHANGED <<now, made, handed>>

Refresh ==
  /\ by_id' = Restrict(by_id, LiveIds)
  /\ by_account' \in RefreshedLists
  /\ UNCHANGED <<now, owned, made, handed>>

(* Fault: the copy is made before the entry is marked.                     *)
AcquireCopiesFirst(a) ==
  \E lists \in RefreshedLists : \E i \in DOMAIN lists[a] :
    LET t == lists[a][i] IN
    /\ i = Len(lists[a])
    /\ by_account' = lists
    /\ by_id' = [Restrict(by_id, LiveIds) EXCEPT ![t].consumed = TRUE]
    /\ owned' = owned \cup {by_id[t]}
    /\ handed' = Append(handed, [id |-> t, account |-> a, age |-> Age(by_id[t])])
    /\ UNCHANGED <<now, made>>

(* acquire, under a policy that allows it: after a refresh the id last     *)
(* deposited for the account is marked, and the marked value is copied.    *)
Acquire(a) ==
  \E lists \in RefreshedLists : \E i \in DOMAIN lists[a] :
    LET t == lists[a][i]
        value == [by_id[t] EXCEPT !.consumed = TRUE]
    IN
    /\ i = Len(lists[a])
    /\ by_account' = lists
    /\ by_id' = [Restrict(by_id, LiveIds) EXCEPT ![t] = value]
    /\ owned' = owned \cup {value}
    /\ handed' = Append(handed, [id |-> t, account |-> a, age |-> Age(value)])
    /\ UNCHANGED <<now, made>>

(* acquire for an account without a valid ticket: refreshed all the same.  *)
AcquireNotFound(a) ==
  \E lists \in RefreshedLists :
    /\ lists[a] = <<>>
    /\ by_account' = lists
    /\ by_id' = Restrict(by_id, LiveIds)
    /\ UNCHANGED <<now, owned, made, handed>>

(* The system clock advances, or is set back.                              *)
Tick ==
  /\ now' \in (0..MaxTime) \ {now}
  /\ UNCHANGED <<by_id, by_account, owned, made, handed>>

Next ==
  \/ \E t \in Tickets : New(t)
  \/ \E value \in owned : Deposit(value)
  \/ Refresh
  \/ \E a \in Accounts : Acquire(a) \/ AcquireNotFound(a)
  \/ Tick

Spec == Init /\ [][Next]_vars
-----------------------------------------------------------------------------
(* The pool and its index agree after any sequence of calls: an entry is   *)
(* on the list of its account, a list holds ids of its account only, and   *)
(* never more than max_per_account of them, so the pool is bounded         *)
(* (lib.rs:196-238).  The converse is not promised: a ticket that came     *)
(* back may be on the list twice, or still be there when its entry is gone.*)
PoolConsistent ==
  /\ TypeOK
  /\ \A t \in DOMAIN by_id : t \in Listed(AccountOf[t])
  /\ \A a \in Accounts :
       /\ \A t \in Listed(a) : AccountOf[t] = a
       /\ Len(by_account[a]) <= MaxPerAccount

(* A ticket serves one image: whatever is acquired, deposited again,       *)
(* evicted or refreshed, and wherever the clock goes, no id is handed out  *)
(* a second time, and every ticket went to an account it was made for      *)
(* within its time to live (lib.rs:244-271).                               *)
SingleUse ==
  /\ \A i, j \in DOMAIN handed : handed[i].id = handed[j].id => i = j
  /\ \A i \in DOMAIN handed :
       handed[i].account = AccountOf[handed[i].id] /\ handed[i].age <= TTL

=============================================================================
