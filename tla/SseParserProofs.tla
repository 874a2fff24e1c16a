-------------------------- MODULE SseParserProofs --------------------------
(***************************************************************************)
(* What the operators of SseParser return, for payloads of any length.     *)
(*                                                                         *)
(* The loops are recursive functions on the positions of a sequence.  That *)
(* such a function exists, and what it yields, is shown by induction; as   *)
(* induction is stated for a set here, not for a predicate, it is an       *)
(* ordinary lemma.                                                         *)
(***************************************************************************)
EXTENDS SseParser, SequenceTheorems, WellFoundedInduction, TLAPS

LEMMA Induction ==
  ASSUME NEW T, 0 \in T, \A n \in Nat : n \in T => n + 1 \in T
  PROVE  \A n \in Nat : n \in T
<1> DEFINE R == OpToRel(<, Nat)
           Bad == Nat \ T
<1> SUFFICES ASSUME Bad # {} PROVE FALSE
  OBVIOUS
<1>1. IsWellFoundedOn(R, Nat)
  BY NatLessThanWellFounded
<1>2. \A x, y \in Nat : x < y => <<x, y>> \in R
  BY DEF OpToRel
<1> HIDE DEF R
<1>3. PICK m \in Bad : \A y \in Bad : <<y, m>> \notin R
  BY <1>1, WFMin
<1>4. m \in Nat /\ m # 0
  BY <1>3
<1>5. m - 1 \in Nat /\ m - 1 < m /\ (m - 1) + 1 = m
  BY <1>4
<1>6. m - 1 \in T
  BY <1>2, <1>3, <1>4, <1>5
<1> QED BY <1>3, <1>5, <1>6

(* f holds what a loop of N rounds has made of start after each round.     *)
Iterates(f, S, start, N, step) ==
  /\ f \in [0..N -> S]
  /\ f[0] = start
  /\ \A n \in 1..N : f[n] = step[n][f[n - 1]]

(* A loop whose rounds stay within a set can be written down.              *)
LEMMA IterationExists ==
  ASSUME NEW S, NEW start \in S, NEW N \in Nat, NEW step \in [1..N -> [S -> S]]
  PROVE  \E f : Iterates(f, S, start, N, step)
<1> DEFINE T == {k \in Nat : k <= N => \E f : Iterates(f, S, start, k, step)}
<1>1. 0 \in T
  <2>1. Iterates([n \in 0..0 |-> start], S, start, 0, step)
    BY DEF Iterates
  <2> QED BY <2>1
<1>2. ASSUME NEW k \in Nat, k \in T PROVE k + 1 \in T
  <2> SUFFICES ASSUME k + 1 <= N PROVE \E f : Iterates(f, S, start, k + 1, step)
    OBVIOUS
  <2>1. PICK f : Iterates(f, S, start, k, step)
    BY <1>2
  <2> DEFINE v == step[k + 1][f[k]]
             g == [n \in 0..(k+1) |-> IF n = k + 1 THEN v ELSE f[n]]
  <2>2. v \in S
    <3>1. f[k] \in S /\ k + 1 \in 1..N
      BY <2>1 DEF Iterates
    <3> QED BY <3>1
  <2>3. g \in [0..(k+1) -> S] /\ g[0] = start
    BY <2>1, <2>2 DEF Iterates
  <2>4. ASSUME NEW n \in 1..(k+1) PROVE g[n] = step[n][g[n - 1]]
    <3>1. CASE n = k + 1
      <4>1. g[n] = v /\ g[n - 1] = f[k]
        BY <3>1
      <4> QED BY <3>1, <4>1
    <3>2. CASE n # k + 1
      <4>1. n \in 1..k /\ g[n] = f[n] /\ g[n - 1] = f[n - 1]
        BY <3>2
      <4> QED BY <2>1, <4>1 DEF Iterates
    <3> QED BY <3>1, <3>2
  <2> HIDE DEF g
  <2>5. Iterates(g, S, start, k + 1, step)
    BY <2>3, <2>4 DEF Iterates
  <2> QED BY <2>5
<1> HIDE DEF T
<1>3. N \in T
  BY <1>1, <1>2, Induction
<1> QED BY <1>3 DEF T

(* Whatever follows the rounds from within the set stays within it.        *)
LEMMA IterationStays ==
  ASSUME NEW S, NEW start \in S, NEW N \in Nat, NEW step \in [1..N -> [S -> S]],
         NEW g, g = [n \in 0..N |-> g[n]], g[0] = start,
         \A n \in 1..N : g[n - 1] \in S => g[n] = step[n][g[n - 1]]
  PROVE  Iterates(g, S, start, N, step)
<1> DEFINE T == {k \in Nat : k <= N => g[k] \in S}
<1>1. 0 \in T
  OBVIOUS
<1>2. ASSUME NEW k \in Nat, k \in T PROVE k + 1 \in T
  <2> SUFFICES ASSUME k + 1 <= N PROVE g[k + 1] \in S
    OBVIOUS
  <2>1. k + 1 \in 1..N /\ (k + 1) - 1 = k /\ g[k] \in S
    BY <1>2
  <2>2. g[k + 1] = step[k + 1][g[k]]
    BY <2>1
  <2> QED BY <2>1, <2>2
<1> HIDE DEF T
<1>3. \A k \in Nat : k \in T
  BY <1>1, <1>2, Induction
<1>4. g \in [0..N -> S]
  <2>1. \A k \in 0..N : g[k] \in S
    BY <1>3 DEF T
  <2> QED BY <2>1
<1>5. \A n \in 1..N : g[n - 1] \in S
  BY <1>4
<1> QED BY <1>4, <1>5 DEF Iterates

-----------------------------------------------------------------------------
LEMMA AddUniqueIterates ==
  ASSUME NEW S, NEW values \in Seq(S), NEW candidates \in Seq(S)
  PROVE  \E f : /\ f \in [0..Len(candidates) -> Seq(S)]
                /\ f[0] = values
                /\ \A n \in 1..Len(candidates) : f[n] = Added(f[n - 1], candidates[n])
                /\ AddUnique(values, candidates) = f[Len(candidates)]
<1> DEFINE N == Len(candidates)
           Q == Seq(S)
           step == [n \in 1..N |-> [s \in Q |-> Added(s, candidates[n])]]
           Is(f) == f = [n \in 0..N |-> IF n = 0 THEN values
                                        ELSE Added(f[n - 1], candidates[n])]
           g == CHOOSE f : Is(f)
<1>1. N \in Nat /\ \A n \in 1..N : candidates[n] \in S
  BY LenProperties, ElementOfSeq
<1>2. step \in [1..N -> [Q -> Q]] /\ values \in Q
  BY <1>1, AppendProperties DEF Added
<1>3. AddUnique(values, candidates) = g[N]
  BY DEF AddUnique, Fold
<1> HIDE DEF N, Q
<1>4. PICK f : Iterates(f, Q, values, N, step)
  <2> HIDE DEF step
  <2> QED BY <1>1, <1>2, IterationExists
<1>5. \A n \in 0..N : n = 0 \/ (n \in 1..N /\ n - 1 \in 0..N)
  BY <1>1
<1>6. \A n \in 1..N, s \in Q : step[n][s] = Added(s, candidates[n])
  OBVIOUS
<1> HIDE DEF step
<1>7. Is(f)
  BY <1>4, <1>5, <1>6 DEF Iterates
<1>8. Is(g)
  BY <1>7
<1> HIDE DEF g
<1>9. Iterates(g, Q, values, N, step)
  <2>1. g = [n \in 0..N |-> g[n]] /\ g[0] = values
    BY <1>1, <1>8
  <2>2. \A n \in 1..N : g[n] = Added(g[n - 1], candidates[n])
    BY <1>1, <1>8
  <2>3. \A n \in 1..N : g[n - 1] \in Q => g[n] = step[n][g[n - 1]]
    BY <1>6, <2>2
  <2> QED BY <1>1, <1>2, <2>1, <2>3, IterationStays
<1>10. /\ g \in [0..N -> Q] /\ g[0] = values
       /\ \A n \in 1..N : g[n] = Added(g[n - 1], candidates[n])
  BY <1>1, <1>8, <1>9 DEF Iterates
<1> QED BY <1>3, <1>10 DEF N, Q

LEMMA ToSetAppend ==
  ASSUME NEW S, NEW s \in Seq(S), NEW e \in S
  PROVE  ToSet(Append(s, e)) = ToSet(s) \cup {e}
<1>1. /\ DOMAIN s = 1..Len(s) /\ Len(s) \in Nat
      /\ Append(s, e) \in Seq(S) /\ Len(Append(s, e)) = Len(s) + 1
      /\ \A i \in 1..Len(s) : Append(s, e)[i] = s[i]
      /\ Append(s, e)[Len(s) + 1] = e
  BY LenProperties, AppendProperties
<1>2. DOMAIN Append(s, e) = 1..(Len(s) + 1)
  BY <1>1, LenProperties
<1>3. 1..(Len(s) + 1) = 1..Len(s) \cup {Len(s) + 1}
  BY <1>1
<1> QED BY <1>1, <1>2, <1>3 DEF ToSet

(* add_unique makes a sequence of what both sequences hold.                *)
LEMMA AddUniqueProperties ==
  ASSUME NEW S, NEW values \in Seq(S), NEW candidates \in Seq(S)
  PROVE  /\ AddUnique(values, candidates) \in Seq(S)
         /\ ToSet(AddUnique(values, candidates)) = ToSet(values) \cup ToSet(candidates)
<1> DEFINE N == Len(candidates)
<1>1. PICK f : /\ f \in [0..N -> Seq(S)]
               /\ f[0] = values
               /\ \A n \in 1..N : f[n] = Added(f[n - 1], candidates[n])
               /\ AddUnique(values, candidates) = f[N]
  BY AddUniqueIterates, SMTT(30)
<1>2. N \in Nat /\ DOMAIN candidates = 1..N /\ \A n \in 1..N : candidates[n] \in S
  BY LenProperties, ElementOfSeq
<1> HIDE DEF N
<1> DEFINE T == {k \in Nat : k <= N =>
                   ToSet(f[k]) = ToSet(values) \cup {candidates[n] : n \in 1..k}}
<1>3. 0 \in T
  BY <1>1
<1>4. ASSUME NEW k \in Nat, k \in T PROVE k + 1 \in T
  <2> SUFFICES ASSUME k + 1 <= N
               PROVE  ToSet(f[k + 1]) = ToSet(values) \cup {candidates[n] : n \in 1..(k+1)}
    OBVIOUS
  <2> DEFINE c == candidates[k + 1]
  <2>1. k \in 0..N /\ k + 1 \in 1..N /\ (k + 1) - 1 = k
    BY <1>2
  <2>2. f[k] \in Seq(S) /\ c \in S /\ f[k + 1] = Added(f[k], c)
    BY <1>1, <1>2, <2>1
  <2>3. ToSet(f[k]) = ToSet(values) \cup {candidates[n] : n \in 1..k}
    BY <1>4, <2>1
  <2>4. {candidates[n] : n \in 1..(k+1)} = {candidates[n] : n \in 1..k} \cup {c}
    <3>1. 1..(k+1) = 1..k \cup {k + 1}
      OBVIOUS
    <3> QED BY <3>1
  <2>5. ToSet(f[k + 1]) = ToSet(f[k]) \cup {c}
    BY <2>2, ToSetAppend DEF Added
  <2> QED BY <2>3, <2>4, <2>5
<1> HIDE DEF T
<1>5. N \in T
  BY <1>2, <1>3, <1>4, Induction
<1>6. ToSet(f[N]) = ToSet(values) \cup {candidates[n] : n \in 1..N}
  BY <1>2, <1>5 DEF T
<1>7. ToSet(candidates) = {candidates[n] : n \in 1..N}
  BY <1>2 DEF ToSet
<1> QED BY <1>1, <1>2, <1>6, <1>7

-----------------------------------------------------------------------------
(* No element twice; every element of s at its place in t.                 *)
Once(s) == \A i, j \in 1..Len(s) : s[i] = s[j] => i = j

Keeps(s, t) == Len(s) <= Len(t) /\ \A i \in 1..Len(s) : t[i] = s[i]

LEMMA AddedKeeps ==
  ASSUME NEW S, NEW values \in Seq(S), NEW known \in Seq(S), NEW c \in S,
         Once(known), Keeps(values, known)
  PROVE  Once(Added(known, c)) /\ Keeps(values, Added(known, c))
<1>1. CASE c \in ToSet(known)
  BY <1>1 DEF Added
<1>2. CASE c \notin ToSet(known)
  <2> DEFINE n == Len(known)
             more == Append(known, c)
  <2>1. n \in Nat /\ Len(values) \in Nat /\ DOMAIN known = 1..n
    BY LenProperties
  <2>2. Len(more) = n + 1 /\ more[n + 1] = c /\ \A i \in 1..n : more[i] = known[i]
    BY AppendProperties
  <2>3. \A i \in 1..n : known[i] # c
    BY <1>2, <2>1 DEF ToSet
  <2> HIDE DEF n, more
  <2>4. Once(more)
    <3>1. \A i \in 1..(n + 1) : i \in 1..n \/ i = n + 1
      BY <2>1
    <3>2. \A i, j \in 1..n : known[i] = known[j] => i = j
      BY DEF Once, n
    <3>3. \A i, j \in 1..(n + 1) : more[i] = more[j] => i = j
      BY <2>2, <2>3, <3>1, <3>2
    <3> QED BY <2>2, <3>3 DEF Once
  <2>5. Keeps(values, more)
    <3>1. Len(values) <= n /\ \A i \in 1..Len(values) : known[i] = values[i]
      BY DEF Keeps, n
    <3>2. \A i \in 1..Len(values) : i \in 1..n
      BY <2>1, <3>1
    <3> QED BY <2>1, <2>2, <3>1, <3>2 DEF Keeps
  <2>6. Added(known, c) = more
    BY <1>2 DEF Added, more
  <2> QED BY <2>4, <2>5, <2>6
<1> QED BY <1>1, <1>2

(* add_unique moves nothing and names nothing twice.                       *)
LEMMA AddUniqueKeeps ==
  ASSUME NEW S, NEW values \in Seq(S), NEW candidates \in Seq(S), Once(values)
  PROVE  Once(AddUnique(values, candidates)) /\ Keeps(values, AddUnique(values, candidates))
<1> DEFINE N == Len(candidates)
<1>1. PICK f : /\ f \in [0..N -> Seq(S)]
               /\ f[0] = values
               /\ \A n \in 1..N : f[n] = Added(f[n - 1], candidates[n])
               /\ AddUnique(values, candidates) = f[N]
  BY AddUniqueIterates, SMTT(30)
<1>2. N \in Nat /\ \A n \in 1..N : candidates[n] \in S
  BY LenProperties, ElementOfSeq
<1> HIDE DEF N
<1> DEFINE T == {k \in Nat : k <= N => Once(f[k]) /\ Keeps(values, f[k])}
<1>3. 0 \in T
  <2>1. Len(values) \in Nat
    BY LenProperties
  <2> QED BY <1>1, <2>1 DEF Keeps
<1>4. ASSUME NEW k \in Nat, k \in T PROVE k + 1 \in T
  <2> SUFFICES ASSUME k + 1 <= N PROVE Once(f[k + 1]) /\ Keeps(values, f[k + 1])
    OBVIOUS
  <2>1. k \in 0..N /\ k + 1 \in 1..N /\ (k + 1) - 1 = k
    BY <1>2
  <2>2. /\ f[k] \in Seq(S) /\ candidates[k + 1] \in S
        /\ f[k + 1] = Added(f[k], candidates[k + 1])
    BY <1>1, <1>2, <2>1
  <2>3. Once(f[k]) /\ Keeps(values, f[k])
    BY <1>4, <2>1
  <2> QED BY <2>2, <2>3, AddedKeeps
<1> HIDE DEF T
<1>5. N \in T
  BY <1>2, <1>3, <1>4, Induction
<1> QED BY <1>1, <1>2, <1>5 DEF T

-----------------------------------------------------------------------------
LEMMA NewParserTyped == NewParser \in Parsers
<1>1. <<>> \in Seq(STRING)
  BY EmptySeq
<1> QED BY <1>1 DEF NewParser, Parsers

LEMMA NextTextTyped ==
  ASSUME NEW s \in Parsers, NEW p \in AnyPayload
  PROVE  NextText(s, p) \in Seq(STRING)
<1>1. s.text \in Seq(STRING) /\ p.text \in Seq(STRING)
  BY DEF Parsers, AnyPayload
<1>2. s.text \o p.text \in Seq(STRING)
  BY <1>1, ConcatProperties
<1> QED BY <1>1, <1>2 DEF NextText

(* feed_line, in one formula for each field.                               *)
LEMMA FeedFields ==
  ASSUME NEW s \in Parsers, NEW p \in AnyPayload, p.kind # "done"
  PROVE  /\ Feed(s, p).cid = (s.cid \/ p.cid)
         /\ Feed(s, p).text = NextText(s, p)
         /\ Feed(s, p).files =
              IF ImageContext(s, p) THEN AddUnique(s.files, p.files) ELSE s.files
         /\ Feed(s, p).sediments =
              IF ImageContext(s, p) THEN AddUnique(s.sediments, p.sediments)
              ELSE s.sediments
BY DEF Feed

LEMMA FeedTyped ==
  ASSUME NEW s \in Parsers, NEW p \in AnyPayload
  PROVE  Feed(s, p) \in Parsers
<1>1. CASE p.kind = "done"
  BY <1>1 DEF Feed
<1>2. CASE p.kind # "done"
  <2>1. /\ s.files \in Seq(STRING) /\ p.files \in Seq(STRING)
        /\ s.sediments \in Seq(STRING) /\ p.sediments \in Seq(STRING)
        /\ s.cid \in BOOLEAN /\ p.cid \in BOOLEAN /\ s.invoked \in BOOLEAN
    BY DEF Parsers, AnyPayload
  <2>2. /\ AddUnique(s.files, p.files) \in Seq(STRING)
        /\ AddUnique(s.sediments, p.sediments) \in Seq(STRING)
    BY <2>1, AddUniqueProperties
  <2>3. NextText(s, p) \in Seq(STRING)
    BY NextTextTyped
  <2> DEFINE files == IF ImageContext(s, p) THEN AddUnique(s.files, p.files) ELSE s.files
             sediments == IF ImageContext(s, p) THEN AddUnique(s.sediments, p.sediments)
                          ELSE s.sediments
             invoked == CASE p.kind = "invoked" -> TRUE
                          [] p.kind = "idle" -> FALSE
                          [] OTHER -> s.invoked
  <2>4. files \in Seq(STRING) /\ sediments \in Seq(STRING) /\ invoked \in BOOLEAN
    BY <2>1, <2>2
  <2>5. Feed(s, p) = [cid |-> s.cid \/ p.cid, text |-> NextText(s, p), files |-> files,
                      sediments |-> sediments, invoked |-> invoked]
    BY <1>2 DEF Feed
  <2> HIDE DEF files, sediments, invoked
  <2>6. (s.cid \/ p.cid) \in BOOLEAN
    BY <2>1
  <2> QED BY <2>3, <2>4, <2>5, <2>6 DEF Parsers
<1> QED BY <1>1, <1>2

(* Only what a payload of somebody else than the user names is taken up.   *)
LEMMA FeedTakesUp ==
  ASSUME NEW s \in Parsers, NEW p \in AnyPayload
  PROVE  LET refs(t) == ToSet(t.files) \cup ToSet(t.sediments)
         IN /\ refs(Feed(s, p)) \subseteq refs(s) \cup refs(p)
            /\ p.kind = "user" => refs(Feed(s, p)) = refs(s)
<1>1. CASE p.kind = "done"
  BY <1>1 DEF Feed
<1>2. CASE p.kind # "done"
  <2>1. /\ s.files \in Seq(STRING) /\ p.files \in Seq(STRING)
        /\ s.sediments \in Seq(STRING) /\ p.sediments \in Seq(STRING)
    BY DEF Parsers, AnyPayload
  <2>2. /\ ToSet(AddUnique(s.files, p.files)) = ToSet(s.files) \cup ToSet(p.files)
        /\ ToSet(AddUnique(s.sediments, p.sediments)) =
             ToSet(s.sediments) \cup ToSet(p.sediments)
    BY <2>1, AddUniqueProperties
  <2>3. p.kind = "user" => ~ImageContext(s, p)
    BY DEF ImageContext
  <2> QED BY <1>2, <2>2, <2>3, FeedFields
<1> QED BY <1>1, <1>2

(* What is known stays where it is, and is named once.                     *)
NamedOnce(s) == Once(s.files) /\ Once(s.sediments)

KeepsKnown(s, t) == Keeps(s.files, t.files) /\ Keeps(s.sediments, t.sediments)

LEMMA KeepsAll ==
  /\ \A s \in Seq(STRING) : Keeps(s, s)
  /\ \A s, t, u \in Seq(STRING) : Keeps(s, t) /\ Keeps(t, u) => Keeps(s, u)
<1>1. \A s \in Seq(STRING) : Len(s) \in Nat
  BY LenProperties
<1>2. \A s \in Seq(STRING) : Keeps(s, s)
  BY <1>1 DEF Keeps
<1>3. ASSUME NEW s \in Seq(STRING), NEW t \in Seq(STRING), NEW u \in Seq(STRING),
             Keeps(s, t), Keeps(t, u)
      PROVE  Keeps(s, u)
  <2>1. \A i \in 1..Len(s) : i \in 1..Len(t)
    BY <1>1, <1>3 DEF Keeps
  <2> QED BY <1>1, <1>3, <2>1 DEF Keeps
<1> QED BY <1>2, <1>3

LEMMA FeedKeeps ==
  ASSUME NEW s \in Parsers, NEW p \in AnyPayload, NamedOnce(s)
  PROVE  NamedOnce(Feed(s, p)) /\ KeepsKnown(s, Feed(s, p))
<1>1. /\ s.files \in Seq(STRING) /\ p.files \in Seq(STRING)
      /\ s.sediments \in Seq(STRING) /\ p.sediments \in Seq(STRING)
  BY DEF Parsers, AnyPayload
<1>2. Keeps(s.files, s.files) /\ Keeps(s.sediments, s.sediments)
  BY <1>1, KeepsAll
<1>3. CASE p.kind = "done"
  BY <1>2, <1>3 DEF Feed, KeepsKnown
<1>4. CASE p.kind # "done"
  <2>1. /\ Once(AddUnique(s.files, p.files))
        /\ Keeps(s.files, AddUnique(s.files, p.files))
        /\ Once(AddUnique(s.sediments, p.sediments))
        /\ Keeps(s.sediments, AddUnique(s.sediments, p.sediments))
    BY <1>1, AddUniqueKeeps DEF NamedOnce
  <2> QED BY <1>2, <1>4, <2>1, FeedFields DEF NamedOnce, KeepsKnown
<1> QED BY <1>3, <1>4

(* A text that is only extended is the old text and the delta.             *)
LEMMA DeltaExtends ==
  ASSUME NEW s \in Parsers, NEW p \in AnyPayload
  PROVE  /\ DeltaOf(s, p) \in Seq(STRING)
         /\ Extends(s, p) => Feed(s, p).text = s.text \o DeltaOf(s, p)
<1> DEFINE t == Feed(s, p).text
           n == Len(s.text)
<1>1. s.text \in Seq(STRING) /\ t \in Seq(STRING)
  BY FeedTyped DEF Parsers
<1>2. n \in Nat /\ Len(t) \in Nat
  BY <1>1, LenProperties
<1>3. CASE ~Extends(s, p)
  BY <1>1, <1>3 DEF DeltaOf
<1>4. CASE Extends(s, p)
  <2>1. n <= Len(t) /\ SubSeq(t, 1, n) = SubSeq(s.text, 1, n)
    BY <1>4 DEF Extends, IsPrefix
  <2>2. SubSeq(s.text, 1, n) = s.text /\ SubSeq(t, 1, Len(t)) = t
    BY <1>1, SubSeqFull
  <2>3. DeltaOf(s, p) = SubSeq(t, n + 1, Len(t))
    BY <1>4 DEF DeltaOf
  <2> HIDE DEF t, n
  <2>4. SubSeq(t, 1, n) \o SubSeq(t, n + 1, Len(t)) = SubSeq(t, 1, Len(t))
    <3>1. /\ 1 \in 1..(Len(t) + 1) /\ n \in (1 - 1)..Len(t)
          /\ Len(t) \in n..Len(t)
      BY <1>2, <2>1
    <3> QED BY <1>1, <3>1, ConcatAdjacentSubSeq
  <2>5. SubSeq(t, n + 1, Len(t)) \in Seq(STRING)
    <3>1. \A i \in (n + 1)..Len(t) : t[i] \in STRING
      BY <1>1, <1>2, ElementOfSeq
    <3> QED BY <1>2, <3>1, SubSeqProperties
  <2> QED BY <2>1, <2>2, <2>3, <2>4, <2>5 DEF t
<1> QED BY <1>3, <1>4
=============================================================================
