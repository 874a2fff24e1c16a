------------------------ MODULE ChatCompletionsProofs ------------------------
(***************************************************************************)
(* Proofs about ChatCompletions, on both planes, for any payloads and any  *)
(* number of them.                                                         *)
(*                                                                         *)
(* What the client is given is told by two facts that every step keeps:    *)
(* the deltas spell out the reader's text (DeltasSpellText), and the text  *)
(* that the payloads on the wire lead to from there is the upstream's      *)
(* (Follows).  Whoever is through with the wire (Drained) therefore has    *)
(* the whole text.                                                         *)
(***************************************************************************)
EXTENDS ChatCompletions, SseParserProofs

Texts == Seq(STRING)

LEMMA TextProperties ==
  /\ <<>> \in Texts
  /\ \A s, t \in Texts : s \o t \in Texts
  /\ \A s \in Texts : s \o <<>> = s /\ <<>> \o s = s
  /\ \A s, t, u \in Texts : (s \o t) \o u = s \o (t \o u)
<1>1. <<>> \in Texts
  BY EmptySeq DEF Texts
<1>2. \A s, t \in Texts : s \o t \in Texts
  BY ConcatProperties DEF Texts
<1>3. \A s \in Texts : s \o <<>> = s /\ <<>> \o s = s
  BY ConcatEmptySeq DEF Texts
<1>4. \A s, t, u \in Texts : (s \o t) \o u = s \o (t \o u)
  BY ConcatAssociative DEF Texts
<1> QED BY <1>1, <1>2, <1>3, <1>4

LEMMA TextsAssociate ==
  ASSUME NEW s \in Texts, NEW t \in Texts, NEW u \in Texts
  PROVE  (s \o t) \o u = s \o (t \o u)
BY ConcatAssociative DEF Texts

LEMMA ChunkText == \A c \in Chunks : c.text \in Texts
BY DEF Chunks, Texts

(* The first n of a sequence, and the others.                              *)
LEMMA Parts ==
  ASSUME NEW S, NEW w \in Seq(S), NEW n \in 0..Len(w)
  PROVE  LET front == SubSeq(w, 1, n)
             rest == SubSeq(w, n + 1, Len(w))
         IN /\ front \in Seq(S) /\ Len(front) = n
            /\ \A i \in 1..n : front[i] = w[i]
            /\ rest \in Seq(S) /\ Len(rest) = Len(w) - n
            /\ \A i \in 1..(Len(w) - n) : rest[i] = w[n + i]
<1> DEFINE m == Len(w)
           front == SubSeq(w, 1, n)
           rest == SubSeq(w, n + 1, m)
<1>1. m \in Nat /\ n \in Nat /\ n <= m /\ \A i \in 1..m : w[i] \in S
  BY LenProperties, ElementOfSeq
<1>2. front \in Seq(S) /\ Len(front) = n /\ \A i \in 1..n : front[i] = w[i]
  <2>1. \A i \in 1..n : w[i] \in S
    BY <1>1
  <2>2. front \in Seq(S) /\ Len(front) = IF 1 <= n THEN n - 1 + 1 ELSE 0
    BY <1>1, <2>1, SubSeqProperties
  <2>3. \A i \in 1..(n - 1 + 1) : front[i] = w[1 + i - 1]
    BY <1>1, <2>1, SubSeqProperties
  <2> HIDE DEF front
  <2>4. \A i \in 1..n : i \in 1..(n - 1 + 1) /\ 1 + i - 1 = i
    BY <1>1
  <2>5. Len(front) = n
    BY <1>1, <2>2
  <2> QED BY <2>2, <2>3, <2>4, <2>5
<1>3. rest \in Seq(S) /\ Len(rest) = m - n /\ \A i \in 1..(m - n) : rest[i] = w[n + i]
  <2>1. \A i \in (n + 1)..m : w[i] \in S
    BY <1>1
  <2>2. rest \in Seq(S) /\ Len(rest) = IF n + 1 <= m THEN m - (n + 1) + 1 ELSE 0
    BY <1>1, <2>1, SubSeqProperties
  <2>3. \A i \in 1..(m - (n + 1) + 1) : rest[i] = w[(n + 1) + i - 1]
    BY <1>1, <2>1, SubSeqProperties
  <2> HIDE DEF rest
  <2>4. \A i \in 1..(m - n) : i \in 1..(m - (n + 1) + 1) /\ (n + 1) + i - 1 = n + i
    BY <1>1
  <2>5. Len(rest) = m - n
    BY <1>1, <2>2
  <2> QED BY <2>2, <2>3, <2>4, <2>5
<1> QED BY <1>2, <1>3

(* A text ends with another if that one follows some text in it.           *)
LEMMA SuffixIsEnd ==
  ASSUME NEW s \in Texts, NEW t \in Texts
  PROVE  IsSuffix(s, t) <=> \E pre \in Texts : t = pre \o s
<1> DEFINE m == Len(s)
           n == Len(t)
<1>1. /\ m \in Nat /\ n \in Nat
      /\ s = [i \in 1..m |-> s[i]] /\ t = [i \in 1..n |-> t[i]]
      /\ \A i \in 1..m : s[i] \in STRING
      /\ \A i \in 1..n : t[i] \in STRING
  BY LenProperties, ElementOfSeq DEF Texts
<1>2. IsSuffix(s, t) <=> m <= n /\ \A i \in 1..m : s[i] = t[(n - m) + i]
  <2>1. \A u \in Texts : /\ Reverse(u) \in Seq(STRING) /\ Len(Reverse(u)) = Len(u)
                         /\ \A i \in 1..Len(u) : Reverse(u)[i] = u[(Len(u) - i) + 1]
    <3> SUFFICES ASSUME NEW u \in Texts
                 PROVE  /\ Reverse(u) \in Seq(STRING) /\ Len(Reverse(u)) = Len(u)
                        /\ \A i \in 1..Len(u) : Reverse(u)[i] = u[(Len(u) - i) + 1]
      OBVIOUS
    <3>1. Len(u) \in Nat /\ \A i \in 1..Len(u) : u[i] \in STRING
      BY LenProperties, ElementOfSeq DEF Texts
    <3>2. \A i \in 1..Len(u) : (Len(u) - i) + 1 \in 1..Len(u)
      BY <3>1
    <3>3. Reverse(u) \in [1..Len(u) -> STRING]
      BY <3>1, <3>2 DEF Reverse
    <3>4. Reverse(u) \in Seq(STRING) /\ DOMAIN Reverse(u) = 1..Len(u)
      BY <3>1, <3>3, IsASeq
    <3>5. Len(Reverse(u)) = Len(u)
      BY <3>1, <3>4, LenProperties
    <3> QED BY <3>4, <3>5 DEF Reverse
  <2> DEFINE rs == Reverse(s)
             rt == Reverse(t)
  <2>2. /\ rs \in Seq(STRING) /\ rt \in Seq(STRING) /\ Len(rs) = m /\ Len(rt) = n
        /\ \A i \in 1..m : rs[i] = s[(m - i) + 1]
        /\ \A i \in 1..n : rt[i] = t[(n - i) + 1]
    BY <2>1
  <2>3. IsSuffix(s, t) <=> m <= n /\ SubSeq(rs, 1, m) = SubSeq(rt, 1, m)
    BY <2>2 DEF IsSuffix, IsPrefix
  <2> HIDE DEF rs, rt, m, n
  <2>4. ASSUME m <= n
        PROVE  SubSeq(rs, 1, m) = SubSeq(rt, 1, m) <=> \A i \in 1..m : rs[i] = rt[i]
    <3>1. m \in 0..Len(rs) /\ m \in 0..Len(rt)
      BY <1>1, <2>2, <2>4
    <3>2. /\ Len(SubSeq(rs, 1, m)) = m /\ \A i \in 1..m : SubSeq(rs, 1, m)[i] = rs[i]
          /\ SubSeq(rs, 1, m) \in Seq(STRING)
      BY <2>2, <3>1, Parts
    <3>3. /\ Len(SubSeq(rt, 1, m)) = m /\ \A i \in 1..m : SubSeq(rt, 1, m)[i] = rt[i]
          /\ SubSeq(rt, 1, m) \in Seq(STRING)
      BY <2>2, <3>1, Parts
    <3> QED BY <3>2, <3>3, SeqEqual
  <2>5. ASSUME m <= n
        PROVE  (\A i \in 1..m : rs[i] = rt[i]) <=> \A i \in 1..m : s[i] = t[(n - m) + i]
    <3>1. ASSUME \A i \in 1..m : rs[i] = rt[i], NEW i \in 1..m
          PROVE  s[i] = t[(n - m) + i]
      <4>1. /\ (m - i) + 1 \in 1..m /\ (m - i) + 1 \in 1..n
            /\ (m - ((m - i) + 1)) + 1 = i
            /\ (n - ((m - i) + 1)) + 1 = (n - m) + i
        BY <1>1, <2>5
      <4> QED BY <2>2, <3>1, <4>1
    <3>2. ASSUME \A i \in 1..m : s[i] = t[(n - m) + i], NEW i \in 1..m
          PROVE  rs[i] = rt[i]
      <4>1. /\ (m - i) + 1 \in 1..m /\ i \in 1..n
            /\ (n - m) + ((m - i) + 1) = (n - i) + 1
        BY <1>1, <2>5
      <4>2. s[(m - i) + 1] = t[(n - m) + ((m - i) + 1)]
        BY <3>2, <4>1
      <4>3. rs[i] = s[(m - i) + 1] /\ rt[i] = t[(n - i) + 1]
        BY <2>2, <4>1
      <4> QED BY <4>1, <4>2, <4>3
    <3> QED BY <3>1, <3>2
  <2> QED BY <2>3, <2>4, <2>5
<1>3. ASSUME NEW pre \in Texts, t = pre \o s
      PROVE  m <= n /\ \A i \in 1..m : s[i] = t[(n - m) + i]
  <2>1. /\ Len(pre) \in Nat /\ n = Len(pre) + m
        /\ \A i \in 1..(Len(pre) + m) :
             t[i] = IF i <= Len(pre) THEN pre[i] ELSE s[i - Len(pre)]
    BY <1>3, ConcatProperties, LenProperties DEF Texts
  <2> HIDE DEF m, n
  <2>2. ASSUME NEW i \in 1..m PROVE s[i] = t[(n - m) + i]
    <3>1. /\ (n - m) + i \in 1..(Len(pre) + m)
          /\ ~((n - m) + i <= Len(pre))
          /\ ((n - m) + i) - Len(pre) = i
      BY <1>1, <2>1
    <3>2. t[(n - m) + i] = s[((n - m) + i) - Len(pre)]
      BY <2>1, <3>1
    <3> QED BY <3>1, <3>2
  <2>3. m <= n
    BY <1>1, <2>1
  <2> QED BY <2>2, <2>3
<1>4. ASSUME m <= n, \A i \in 1..m : s[i] = t[(n - m) + i]
      PROVE  \E pre \in Texts : t = pre \o s
  <2> DEFINE pre == SubSeq(t, 1, n - m)
  <2> HIDE DEF m
  <2>1. n - m \in 0..n
    BY <1>1, <1>4
  <2>2. /\ pre \in Seq(STRING) /\ Len(pre) = n - m
        /\ \A i \in 1..(n - m) : pre[i] = t[i]
    BY <2>1, Parts DEF Texts
  <2> HIDE DEF pre, n
  <2>3. /\ pre \o s \in Seq(STRING) /\ Len(pre \o s) = (n - m) + m
        /\ \A i \in 1..((n - m) + m) :
             (pre \o s)[i] = IF i <= n - m THEN pre[i] ELSE s[i - (n - m)]
    <3>1. /\ pre \o s \in Seq(STRING) /\ Len(pre \o s) = Len(pre) + Len(s)
          /\ \A i \in 1..(Len(pre) + Len(s)) :
               (pre \o s)[i] = IF i <= Len(pre) THEN pre[i] ELSE s[i - Len(pre)]
      BY <2>2, ConcatProperties DEF Texts
    <3>2. Len(s) = m
      BY DEF m
    <3> QED BY <2>2, <3>1, <3>2
  <2>4. (n - m) + m = n
    BY <1>1
  <2>5. ASSUME NEW i \in 1..n PROVE (pre \o s)[i] = t[i]
    <3>1. CASE i <= n - m
      BY <1>1, <2>2, <2>3, <2>4, <3>1
    <3>2. CASE ~(i <= n - m)
      <4>1. i - (n - m) \in 1..m /\ (n - m) + (i - (n - m)) = i
        BY <1>1, <2>1, <3>2
      <4>2. s[i - (n - m)] = t[(n - m) + (i - (n - m))]
        BY <1>4, <4>1
      <4> QED BY <2>3, <2>4, <3>2, <4>1, <4>2
    <3> QED BY <3>1, <3>2
  <2>6. pre \o s = t
    BY <2>3, <2>4, <2>5, SeqEqual DEF Texts, n
  <2> QED BY <2>2, <2>6 DEF Texts
<1> QED BY <1>2, <1>3, <1>4

(* Spells, with rewritten as a parameter and with what IsSuffix means.      *)
Spelt(again, given, text) ==
  IF again THEN \E pre \in Texts : given = pre \o text ELSE given = text

LEMMA SpellsIs ==
  ASSUME NEW given \in Texts, NEW text \in Texts
  PROVE  Spells(given, text) <=> Spelt(rewritten, given, text)
BY SuffixIsEnd DEF Spells, Spelt

(* Whatever a payload does to the text, what is given with its delta spells *)
(* the new text as what was given before spelled the old one.              *)
LEMMA SpellsOn ==
  ASSUME NEW s \in Parsers, NEW p \in AnyPayload, NEW again \in BOOLEAN,
         NEW given \in Texts, Spelt(again, given, s.text)
  PROVE  Spelt(again \/ ~Extends(s, p), given \o DeltaOf(s, p), Feed(s, p).text)
<1> DEFINE d == DeltaOf(s, p)
           t == Feed(s, p).text
<1> SUFFICES Spelt(again \/ ~Extends(s, p), given \o d, t)
  OBVIOUS
<1>1. /\ d \in Texts /\ s.text \in Texts /\ t \in Texts
      /\ Extends(s, p) => t = s.text \o d
      /\ ~Extends(s, p) => d = t
  BY DeltaExtends, FeedTyped DEF Texts, Parsers, DeltaOf
<1> HIDE DEF d, t
<1>2. CASE Extends(s, p) /\ ~again
  BY <1>1, <1>2 DEF Spelt
<1>3. CASE Extends(s, p) /\ again
  <2>1. PICK pre \in Texts : given = pre \o s.text
    BY <1>3 DEF Spelt
  <2>2. (pre \o s.text) \o d = pre \o (s.text \o d)
    BY <1>1, TextsAssociate
  <2>3. given \o d = pre \o t
    BY <1>1, <1>3, <2>1, <2>2
  <2> QED BY <1>3, <2>3 DEF Spelt
<1>4. CASE ~Extends(s, p)
  <2>1. given \o d = given \o t
    BY <1>1, <1>4
  <2> QED BY <1>4, <2>1 DEF Spelt
<1> QED BY <1>2, <1>3, <1>4

-----------------------------------------------------------------------------
(* The text in a sequence of chunks.                                       *)
SpellsOut(f, chunks) ==
  /\ f \in [0..Len(chunks) -> Texts]
  /\ f[0] = <<>>
  /\ \A n \in 1..Len(chunks) : f[n] = f[n - 1] \o chunks[n].text

LEMMA TextOfIterates ==
  ASSUME NEW chunks \in Seq(Chunks)
  PROVE  \E f : SpellsOut(f, chunks) /\ TextOf(chunks) = f[Len(chunks)]
<1> DEFINE N == Len(chunks)
           step == [n \in 1..N |-> [s \in Texts |-> Spelled(s, chunks[n])]]
           Is(f) == f = [n \in 0..N |-> IF n = 0 THEN <<>>
                                        ELSE Spelled(f[n - 1], chunks[n])]
           g == CHOOSE f : Is(f)
<1>1. N \in Nat /\ <<>> \in Texts /\ \A n \in 1..N : chunks[n] \in Chunks
  BY LenProperties, ElementOfSeq, TextProperties
<1>2. step \in [1..N -> [Texts -> Texts]]
  <2>1. \A n \in 1..N, s \in Texts : Spelled(s, chunks[n]) \in Texts
    BY <1>1, ChunkText, TextProperties DEF Spelled
  <2> QED BY <2>1
<1>3. TextOf(chunks) = g[N]
  BY DEF TextOf, Fold
<1> HIDE DEF N
<1>4. PICK f : Iterates(f, Texts, <<>>, N, step)
  <2> HIDE DEF step
  <2> QED BY <1>1, <1>2, IterationExists
<1>5. \A n \in 0..N : n = 0 \/ (n \in 1..N /\ n - 1 \in 0..N)
  BY <1>1
<1>6. \A n \in 1..N, s \in Texts : step[n][s] = Spelled(s, chunks[n])
  OBVIOUS
<1> HIDE DEF step
<1>7. Is(f)
  BY <1>4, <1>5, <1>6 DEF Iterates
<1>8. Is(g)
  BY <1>7
<1> HIDE DEF g
<1>9. 0 \in 0..N /\ \A n \in 1..N : n \in 0..N /\ n # 0
  BY <1>1
<1>10. g = [n \in 0..N |-> g[n]] /\ g[0] = <<>>
  BY <1>8, <1>9
<1>11. \A n \in 1..N : g[n] = Spelled(g[n - 1], chunks[n])
  BY <1>8, <1>9
<1>12. Iterates(g, Texts, <<>>, N, step)
  <2>1. \A n \in 1..N : g[n - 1] \in Texts => g[n] = step[n][g[n - 1]]
    BY <1>6, <1>11
  <2> QED BY <1>1, <1>2, <1>10, <2>1, IterationStays
<1>13. SpellsOut(g, chunks)
  BY <1>10, <1>11, <1>12 DEF SpellsOut, Spelled, Iterates, N
<1> QED BY <1>3, <1>13 DEF N

(* Two spellings that read the same chunks read alike.                     *)
LEMMA SpellingsAgree ==
  ASSUME NEW s \in Seq(Chunks), NEW t \in Seq(Chunks), NEW f, NEW g,
         SpellsOut(f, s), SpellsOut(g, t), NEW N \in Nat, N <= Len(s), N <= Len(t),
         \A i \in 1..N : s[i] = t[i]
  PROVE  f[N] = g[N]
<1> DEFINE T == {k \in Nat : k <= N => f[k] = g[k]}
<1>1. Len(s) \in Nat /\ Len(t) \in Nat
  BY LenProperties
<1>2. 0 \in T
  BY DEF SpellsOut
<1>3. ASSUME NEW k \in Nat, k \in T PROVE k + 1 \in T
  <2> SUFFICES ASSUME k + 1 <= N PROVE f[k + 1] = g[k + 1]
    OBVIOUS
  <2>1. k + 1 \in 1..Len(s) /\ k + 1 \in 1..Len(t) /\ k + 1 \in 1..N
        /\ (k + 1) - 1 = k
    BY <1>1
  <2>2. f[k] = g[k]
    BY <1>3, <2>1
  <2>3. f[k + 1] = f[k] \o s[k + 1].text /\ g[k + 1] = g[k] \o t[k + 1].text
    BY <2>1 DEF SpellsOut
  <2> QED BY <2>1, <2>2, <2>3
<1> HIDE DEF T
<1>4. N \in T
  BY <1>2, <1>3, Induction
<1> QED BY <1>4 DEF T

(* Chunks that follow others add their own text.                           *)
LEMMA TextOfConcat ==
  ASSUME NEW s \in Seq(Chunks), NEW t \in Seq(Chunks)
  PROVE  /\ TextOf(s) \in Texts
         /\ TextOf(s \o t) = TextOf(s) \o TextOf(t)
<1> DEFINE m == Len(s)
           n == Len(t)
           both == s \o t
<1>1. m \in Nat /\ n \in Nat
  BY LenProperties
<1>2. /\ both \in Seq(Chunks) /\ Len(both) = m + n
      /\ \A i \in 1..(m + n) : both[i] = IF i <= m THEN s[i] ELSE t[i - m]
  BY ConcatProperties
<1>3. PICK f : SpellsOut(f, s) /\ TextOf(s) = f[m]
  BY TextOfIterates
<1>4. PICK g : SpellsOut(g, t) /\ TextOf(t) = g[n]
  BY TextOfIterates
<1> HIDE DEF both
<1>5. PICK h : SpellsOut(h, both) /\ TextOf(both) = h[m + n]
  BY <1>2, TextOfIterates
<1>6. h[m] = f[m]
  <2>1. m <= Len(both) /\ m <= Len(s) /\ \A i \in 1..m : both[i] = s[i]
    BY <1>1, <1>2
  <2> QED BY <1>1, <1>2, <1>3, <1>5, <2>1, SpellingsAgree
<1> HIDE DEF m, n
<1>7. f[m] \in Texts
  BY <1>1, <1>3 DEF SpellsOut, m
<1> DEFINE Reads(k) == h[m + k] = f[m] \o g[k]
           T == {k \in Nat : k <= n => Reads(k)}
<1>8. 0 \in T
  <2>1. h[m + 0] = f[m] /\ g[0] = <<>>
    BY <1>1, <1>4, <1>6 DEF SpellsOut
  <2>2. Reads(0)
    BY <1>7, <2>1, TextProperties
  <2> HIDE DEF Reads
  <2> QED BY <2>2
<1>9. ASSUME NEW k \in Nat, k \in T PROVE k + 1 \in T
  <2> HIDE DEF Reads
  <2> SUFFICES ASSUME k + 1 <= n PROVE Reads(k + 1)
    OBVIOUS
  <2>1. /\ k \in 0..n /\ k + 1 \in 1..n /\ (k + 1) - 1 = k
        /\ m + (k + 1) \in 1..(m + n) /\ (m + (k + 1)) - 1 = m + k
        /\ (m + (k + 1)) - m = k + 1 /\ ~(m + (k + 1) <= m)
    BY <1>1
  <2>2. both[m + (k + 1)] = t[k + 1]
    BY <1>2, <2>1
  <2>3. h[m + (k + 1)] = h[m + k] \o t[k + 1].text
    BY <1>2, <1>5, <2>1, <2>2 DEF SpellsOut
  <2>4. g[k + 1] = g[k] \o t[k + 1].text /\ g[k] \in Texts
    BY <1>4, <2>1 DEF SpellsOut, n
  <2>5. h[m + k] = f[m] \o g[k]
    <3>1. Reads(k)
      BY <1>9, <2>1
    <3> QED BY <3>1 DEF Reads
  <2>6. t[k + 1].text \in Texts
    BY <2>1, ElementOfSeq, ChunkText DEF n
  <2>7. (f[m] \o g[k]) \o t[k + 1].text = f[m] \o (g[k] \o t[k + 1].text)
    BY <1>7, <2>4, <2>6, TextProperties
  <2> QED BY <2>3, <2>4, <2>5, <2>7 DEF Reads
<1> HIDE DEF T, Reads
<1>10. h[m + n] = f[m] \o g[n]
  <2>1. n \in T
    BY <1>1, <1>8, <1>9, Induction
  <2>2. Reads(n)
    BY <1>1, <2>1 DEF T
  <2> QED BY <2>2 DEF Reads
<1> QED BY <1>3, <1>4, <1>5, <1>7, <1>10 DEF both

LEMMA TextOfOne == \A c \in Chunks : <<c>> \in Seq(Chunks) /\ TextOf(<<c>>) = c.text
<1> SUFFICES ASSUME NEW c \in Chunks
             PROVE  <<c>> \in Seq(Chunks) /\ TextOf(<<c>>) = c.text
  OBVIOUS
<1>1. <<c>> \in Seq(Chunks) /\ Len(<<c>>) = 1 /\ <<c>>[1] = c
  OBVIOUS
<1>2. PICK f : SpellsOut(f, <<c>>) /\ TextOf(<<c>>) = f[1]
  BY <1>1, TextOfIterates
<1>3. 1 \in 1..Len(<<c>>) /\ 1 - 1 = 0
  BY <1>1
<1>4. f[1] = <<>> \o c.text
  BY <1>1, <1>2, <1>3 DEF SpellsOut
<1> QED BY <1>1, <1>2, <1>4, ChunkText, TextProperties

LEMMA TextOfNone == TextOf(<<>>) = <<>>
<1>1. <<>> \in Seq(Chunks) /\ Len(<<>>) = 0
  BY EmptySeq
<1> QED BY <1>1, TextOfIterates DEF SpellsOut

LEMMA TextOfAppend ==
  ASSUME NEW s \in Seq(Chunks), NEW c \in Chunks
  PROVE  TextOf(Append(s, c)) = TextOf(s) \o c.text
<1>1. Append(s, c) = s \o <<c>>
  BY AppendIsConcat
<1> QED BY <1>1, TextOfConcat, TextOfOne

-----------------------------------------------------------------------------
(* What the payloads, taken up one after the other, make of a parser.      *)
Path(h, from, payloads) ==
  /\ h \in [0..Len(payloads) -> Parsers]
  /\ h[0] = from
  /\ \A n \in 1..Len(payloads) : h[n] = Feed(h[n - 1], payloads[n])

Leads(from, payloads, to) ==
  \E h : Path(h, from, payloads) /\ h[Len(payloads)] = to

LEMMA LeadsNowhere ==
  /\ \A s \in Parsers : Leads(s, <<>>, s)
  /\ \A s, t : Leads(s, <<>>, t) => s = t
<1>1. Len(<<>>) = 0
  BY EmptySeq
<1>2. ASSUME NEW s \in Parsers PROVE Leads(s, <<>>, s)
  <2>1. Path([n \in 0..0 |-> s], s, <<>>)
    BY <1>1 DEF Path
  <2> QED BY <1>1, <2>1 DEF Leads
<1>3. ASSUME NEW s, NEW t, Leads(s, <<>>, t) PROVE s = t
  BY <1>1, <1>3 DEF Leads, Path
<1> QED BY <1>2, <1>3

(* One more payload leads one step further.                                *)
LEMMA LeadsFurther ==
  ASSUME NEW s, NEW t, NEW w \in Seq(AnyPayload), NEW p \in AnyPayload,
         Leads(s, w, t)
  PROVE  t \in Parsers /\ Leads(s, Append(w, p), Feed(t, p))
<1> DEFINE n == Len(w)
           more == Append(w, p)
<1>1. n \in Nat
  BY LenProperties
<1>2. Len(more) = n + 1 /\ more[n + 1] = p /\ \A i \in 1..n : more[i] = w[i]
  BY AppendProperties
<1>3. PICK h : Path(h, s, w) /\ h[n] = t
  BY DEF Leads
<1> HIDE DEF n, more
<1>4. t \in Parsers
  BY <1>1, <1>3 DEF Path, n
<1> DEFINE u == Feed(t, p)
           g == [i \in 0..(n+1) |-> IF i = n + 1 THEN u ELSE h[i]]
<1>5. u \in Parsers
  BY <1>4, FeedTyped
<1> HIDE DEF u
<1>6. g \in [0..(n+1) -> Parsers] /\ g[0] = s /\ g[n + 1] = u
  BY <1>1, <1>3, <1>5 DEF Path, n
<1>7. ASSUME NEW i \in 1..(n+1) PROVE g[i] = Feed(g[i - 1], more[i])
  <2>1. CASE i = n + 1
    <3>1. g[i] = u /\ g[i - 1] = h[n] /\ more[i] = p
      BY <1>1, <1>2, <2>1
    <3> QED BY <1>3, <3>1 DEF u
  <2>2. CASE i # n + 1
    <3>1. i \in 1..n /\ g[i] = h[i] /\ g[i - 1] = h[i - 1]
      BY <1>1, <2>2
    <3>2. h[i] = Feed(h[i - 1], w[i])
      BY <1>3, <3>1 DEF Path, n
    <3> QED BY <1>2, <3>1, <3>2
  <2> QED BY <2>1, <2>2
<1> HIDE DEF g
<1>8. Path(g, s, more) /\ g[Len(more)] = u
  BY <1>2, <1>6, <1>7 DEF Path
<1> QED BY <1>4, <1>8 DEF Leads, u, more

(* What n payloads lead to the others go on from.                          *)
LEMMA LeadsOn ==
  ASSUME NEW s, NEW t, NEW w \in Seq(AnyPayload), NEW n \in 0..Len(w),
         NEW h, Path(h, s, w), h[Len(w)] = t
  PROVE  /\ Path([i \in 0..n |-> h[i]], s, SubSeq(w, 1, n))
         /\ Leads(h[n], SubSeq(w, n + 1, Len(w)), t)
<1> DEFINE m == Len(w)
           front == SubSeq(w, 1, n)
           rest == SubSeq(w, n + 1, m)
<1>1. m \in Nat /\ n \in Nat /\ n <= m /\ \A i \in 1..m : w[i] \in AnyPayload
  BY LenProperties, ElementOfSeq
<1>2. Len(front) = n /\ \A i \in 1..n : front[i] = w[i]
  BY Parts
<1>3. Len(rest) = m - n /\ \A i \in 1..(m - n) : rest[i] = w[n + i]
  BY Parts
<1> HIDE DEF m, front, rest
<1>4. /\ h \in [0..m -> Parsers] /\ h[0] = s /\ h[m] = t
      /\ \A i \in 1..m : h[i] = Feed(h[i - 1], w[i])
  BY DEF Path, m
<1>5. Path([i \in 0..n |-> h[i]], s, front)
  <2> DEFINE f == [i \in 0..n |-> h[i]]
  <2>1. f \in [0..n -> Parsers] /\ f[0] = s
    BY <1>1, <1>4
  <2>2. ASSUME NEW i \in 1..n PROVE f[i] = Feed(f[i - 1], front[i])
    <3>1. i \in 1..m /\ i - 1 \in 0..n /\ i \in 0..n
      BY <1>1
    <3>2. f[i] = h[i] /\ f[i - 1] = h[i - 1] /\ front[i] = w[i]
      BY <1>2, <3>1
    <3> QED BY <1>4, <3>1, <3>2
  <2> HIDE DEF f
  <2>3. Path(f, s, front)
    BY <1>2, <2>1, <2>2 DEF Path
  <2> QED BY <2>3 DEF f
<1>6. Leads(h[n], rest, t)
  <2> DEFINE f == [i \in 0..(m-n) |-> h[n + i]]
  <2>1. f \in [0..(m-n) -> Parsers] /\ f[0] = h[n] /\ f[m - n] = t
    BY <1>1, <1>4
  <2>2. ASSUME NEW i \in 1..(m-n) PROVE f[i] = Feed(f[i - 1], rest[i])
    <3>1. n + i \in 1..m /\ i - 1 \in 0..(m-n) /\ i \in 0..(m-n)
          /\ (n + i) - 1 = n + (i - 1)
      BY <1>1
    <3>2. f[i] = h[n + i] /\ f[i - 1] = h[n + (i - 1)] /\ rest[i] = w[n + i]
      BY <1>3, <3>1
    <3> QED BY <1>4, <3>1, <3>2
  <2> HIDE DEF f
  <2>3. Path(f, h[n], rest) /\ f[Len(rest)] = t
    BY <1>3, <2>1, <2>2 DEF Path
  <2> QED BY <2>3 DEF Leads
<1> QED BY <1>5, <1>6 DEF front, rest, m

(* The first payload leads to where the others go on from.                 *)
LEMMA LeadsAfterHead ==
  ASSUME NEW s, NEW t, NEW w \in Seq(AnyPayload), w # <<>>, Leads(s, w, t)
  PROVE  Leads(Feed(s, Head(w)), Tail(w), t)
<1>1. PICK h : Path(h, s, w) /\ h[Len(w)] = t
  BY DEF Leads
<1>2. Len(w) \in Nat \ {0}
  BY EmptySeq
<1>3. 1 \in 0..Len(w) /\ 1 \in 1..Len(w) /\ 1 - 1 = 0
  BY <1>2
<1>4. Leads(h[1], SubSeq(w, 1 + 1, Len(w)), t)
  BY <1>1, <1>3, LeadsOn
<1>5. Tail(w) = SubSeq(w, 2, Len(w)) /\ 1 + 1 = 2
  BY TailIsSubSeq
<1>6. h[1] = Feed(s, Head(w))
  <2>1. Head(w) = w[1]
    OBVIOUS
  <2> QED BY <1>1, <1>3, <2>1 DEF Path
<1> QED BY <1>4, <1>5, <1>6

-----------------------------------------------------------------------------
(* One chunk of payloads, as run_text and OpenAiSseStream read it.         *)
Collecting == [parser : Parsers, stop : {"no", "ready", "done"}, rewritten : BOOLEAN]

Relaying ==
  [parser : Parsers, out : Seq(Chunks), done : BOOLEAN, rewritten : BOOLEAN]

Deltas(chunks) == \A i \in 1..Len(chunks) : chunks[i].kind = "delta"

LEMMA DeltaTyped ==
  ASSUME NEW s \in Parsers, NEW p \in AnyPayload
  PROVE  /\ Delta(DeltaOf(s, p)) \in Chunks
         /\ Delta(DeltaOf(s, p)).kind = "delta"
         /\ Delta(DeltaOf(s, p)).text = DeltaOf(s, p)
BY DeltaExtends DEF Delta, Chunks

LEMMA CollectedTyped ==
  ASSUME NEW acc \in Collecting, NEW p \in AnyPayload
  PROVE  Collected(acc, p) \in Collecting
<1>1. Feed(acc.parser, p) \in Parsers
  BY FeedTyped DEF Collecting
<1>2. (acc.rewritten \/ ~Extends(acc.parser, p)) \in BOOLEAN
  BY DEF Collecting
<1> QED BY <1>1, <1>2 DEF Collected, Collecting

(* A text whose next delta is queued after the chunks before it.           *)
LEMMA DeltaQueued ==
  ASSUME NEW s \in Parsers, NEW p \in AnyPayload, NEW chunks \in Seq(Chunks)
  PROVE  LET more == IF DeltaOf(s, p) # <<>> THEN Append(chunks, Delta(DeltaOf(s, p)))
                     ELSE chunks
         IN /\ more \in Seq(Chunks)
            /\ TextOf(more) = TextOf(chunks) \o DeltaOf(s, p)
            /\ Len(more) >= Len(chunks)
            /\ \A i \in 1..Len(chunks) : more[i] = chunks[i]
            /\ \A i \in 1..Len(more) : i > Len(chunks) => more[i].kind = "delta"
<1>1. Len(chunks) \in Nat
  BY LenProperties
<1>2. CASE DeltaOf(s, p) = <<>>
  <2>1. TextOf(chunks) \o <<>> = TextOf(chunks)
    BY TextOfConcat, TextProperties
  <2> QED BY <1>1, <1>2, <2>1
<1>3. CASE DeltaOf(s, p) # <<>>
  <2> DEFINE c == Delta(DeltaOf(s, p))
  <2>1. c \in Chunks /\ c.kind = "delta" /\ c.text = DeltaOf(s, p)
    BY DeltaTyped
  <2> HIDE DEF c
  <2>2. /\ Append(chunks, c) \in Seq(Chunks)
        /\ Len(Append(chunks, c)) = Len(chunks) + 1
        /\ \A i \in 1..Len(chunks) : Append(chunks, c)[i] = chunks[i]
        /\ Append(chunks, c)[Len(chunks) + 1] = c
    BY <2>1, AppendProperties
  <2>3. TextOf(Append(chunks, c)) = TextOf(chunks) \o DeltaOf(s, p)
    BY <2>1, TextOfAppend
  <2>4. \A i \in 1..(Len(chunks) + 1) : i > Len(chunks) => i = Len(chunks) + 1
    BY <1>1
  <2> QED BY <1>1, <1>3, <2>1, <2>2, <2>3, <2>4 DEF c
<1> QED BY <1>2, <1>3

LEMMA RelayedTyped ==
  ASSUME NEW acc \in Relaying, NEW p \in AnyPayload
  PROVE  Relayed(acc, p) \in Relaying
<1>1. CASE acc.done
  BY <1>1 DEF Relayed
<1>2. CASE ~acc.done
  <2>1. acc.parser \in Parsers /\ acc.out \in Seq(Chunks) /\ acc.rewritten \in BOOLEAN
    BY DEF Relaying
  <2> DEFINE more == IF DeltaOf(acc.parser, p) # <<>>
                     THEN Append(acc.out, Delta(DeltaOf(acc.parser, p))) ELSE acc.out
  <2>2. more \in Seq(Chunks)
    BY <2>1, DeltaQueued
  <2>3. Feed(acc.parser, p) \in Parsers
    BY <2>1, FeedTyped
  <2>4. Relayed(acc, p) = [parser |-> Feed(acc.parser, p), out |-> more,
                           done |-> p.kind = "done",
                           rewritten |-> acc.rewritten \/ ~Extends(acc.parser, p)]
    BY <1>2 DEF Relayed
  <2> HIDE DEF more
  <2>5. (acc.rewritten \/ ~Extends(acc.parser, p)) \in BOOLEAN
        /\ (p.kind = "done") \in BOOLEAN
    BY <2>1
  <2> QED BY <2>2, <2>3, <2>4, <2>5 DEF Relaying
<1> QED BY <1>1, <1>2

LEMMA CollectIterates ==
  ASSUME NEW start \in Collecting, NEW items \in Seq(AnyPayload)
  PROVE  Fold(Collected, start, items) \in Collecting
<1> DEFINE N == Len(items)
           step == [n \in 1..N |-> [acc \in Collecting |-> Collected(acc, items[n])]]
           Is(f) == f = [n \in 0..N |-> IF n = 0 THEN start
                                        ELSE Collected(f[n - 1], items[n])]
           g == CHOOSE f : Is(f)
<1>1. N \in Nat /\ \A n \in 1..N : items[n] \in AnyPayload
  BY LenProperties, ElementOfSeq
<1>2. step \in [1..N -> [Collecting -> Collecting]]
  <2>1. \A n \in 1..N, acc \in Collecting : Collected(acc, items[n]) \in Collecting
    BY <1>1, CollectedTyped
  <2> QED BY <2>1
<1>3. Fold(Collected, start, items) = g[N]
  BY DEF Fold
<1> HIDE DEF N
<1>4. PICK f : Iterates(f, Collecting, start, N, step)
  <2> HIDE DEF step
  <2> QED BY <1>1, <1>2, IterationExists
<1>5. \A n \in 0..N : n = 0 \/ (n \in 1..N /\ n - 1 \in 0..N)
  BY <1>1
<1>6. \A n \in 1..N, acc \in Collecting : step[n][acc] = Collected(acc, items[n])
  OBVIOUS
<1> HIDE DEF step
<1>7. Is(f)
  BY <1>4, <1>5, <1>6 DEF Iterates
<1>8. Is(g)
  BY <1>7
<1> HIDE DEF g
<1>9. 0 \in 0..N /\ \A n \in 1..N : n \in 0..N /\ n # 0
  BY <1>1
<1>10. g = [n \in 0..N |-> g[n]] /\ g[0] = start
  BY <1>8, <1>9
<1>11. \A n \in 1..N : g[n] = Collected(g[n - 1], items[n])
  BY <1>8, <1>9
<1>12. Iterates(g, Collecting, start, N, step)
  <2>1. \A n \in 1..N : g[n - 1] \in Collecting => g[n] = step[n][g[n - 1]]
    BY <1>6, <1>11
  <2> QED BY <1>1, <1>2, <1>10, <2>1, IterationStays
<1> QED BY <1>1, <1>3, <1>12 DEF Iterates

LEMMA RelayIterates ==
  ASSUME NEW start \in Relaying, NEW items \in Seq(AnyPayload)
  PROVE  \E g : /\ g \in [0..Len(items) -> Relaying]
                /\ g[0] = start
                /\ \A n \in 1..Len(items) : g[n] = Relayed(g[n - 1], items[n])
                /\ Fold(Relayed, start, items) = g[Len(items)]
<1> DEFINE N == Len(items)
           step == [n \in 1..N |-> [acc \in Relaying |-> Relayed(acc, items[n])]]
           Is(f) == f = [n \in 0..N |-> IF n = 0 THEN start
                                        ELSE Relayed(f[n - 1], items[n])]
           g == CHOOSE f : Is(f)
<1>1. N \in Nat /\ \A n \in 1..N : items[n] \in AnyPayload
  BY LenProperties, ElementOfSeq
<1>2. step \in [1..N -> [Relaying -> Relaying]]
  <2>1. \A n \in 1..N, acc \in Relaying : Relayed(acc, items[n]) \in Relaying
    BY <1>1, RelayedTyped
  <2> QED BY <2>1
<1>3. Fold(Relayed, start, items) = g[N]
  BY DEF Fold
<1> HIDE DEF N
<1>4. PICK f : Iterates(f, Relaying, start, N, step)
  <2> HIDE DEF step
  <2> QED BY <1>1, <1>2, IterationExists
<1>5. \A n \in 0..N : n = 0 \/ (n \in 1..N /\ n - 1 \in 0..N)
  BY <1>1
<1>6. \A n \in 1..N, acc \in Relaying : step[n][acc] = Relayed(acc, items[n])
  OBVIOUS
<1> HIDE DEF step
<1>7. Is(f)
  BY <1>4, <1>5, <1>6 DEF Iterates
<1>8. Is(g)
  BY <1>7
<1> HIDE DEF g
<1>9. 0 \in 0..N /\ \A n \in 1..N : n \in 0..N /\ n # 0
  BY <1>1
<1>10. g = [n \in 0..N |-> g[n]] /\ g[0] = start
  BY <1>8, <1>9
<1>11. \A n \in 1..N : g[n] = Relayed(g[n - 1], items[n])
  BY <1>8, <1>9
<1>12. Iterates(g, Relaying, start, N, step)
  <2>1. \A n \in 1..N : g[n - 1] \in Relaying => g[n] = step[n][g[n - 1]]
    BY <1>6, <1>11
  <2> QED BY <1>1, <1>2, <1>10, <2>1, IterationStays
<1> QED BY <1>3, <1>10, <1>11, <1>12 DEF Iterates, N

(* What a chunk leaves OpenAiSseStream with: deltas only, which spell out  *)
(* what the chunk adds to the text, and the parser all of it leads to; for *)
(* nothing is read after [DONE], but nothing comes after it either.        *)
LEMMA RelayedChunk ==
  ASSUME NEW start \in Relaying, ~start.done, start.out = <<>>,
         NEW items \in Seq(AnyPayload),
         \A i \in 1..Len(items) : items[i].kind = "done" => i = Len(items)
  PROVE  LET got == Fold(Relayed, start, items)
             N == Len(items)
         IN /\ got \in Relaying
            /\ Deltas(got.out)
            /\ \A given \in Texts : Spelt(start.rewritten, given, start.parser.text) =>
                 Spelt(got.rewritten, given \o TextOf(got.out), got.parser.text)
            /\ got.done => N > 0 /\ items[N].kind = "done"
            /\ \A h : Path(h, start.parser, items) => got.parser = h[N]
<1> DEFINE N == Len(items)
<1>1. PICK g : /\ g \in [0..N -> Relaying]
               /\ g[0] = start
               /\ \A n \in 1..N : g[n] = Relayed(g[n - 1], items[n])
               /\ Fold(Relayed, start, items) = g[N]
  BY RelayIterates
<1>2. N \in Nat /\ \A n \in 1..N : items[n] \in AnyPayload
  BY LenProperties, ElementOfSeq
<1> DEFINE Tells(acc) ==
             \A given \in Texts : Spelt(start.rewritten, given, start.parser.text) =>
               Spelt(acc.rewritten, given \o TextOf(acc.out), acc.parser.text)
           Good(k) == /\ Deltas(g[k].out)
                      /\ Tells(g[k])
                      /\ g[k].done => k > 0 /\ items[k].kind = "done"
                      /\ \A h : Path(h, start.parser, items) => g[k].parser = h[k]
           T == {k \in Nat : k <= N => Good(k)}
<1>3. 0 \in T
  <2>1. Deltas(<<>>)
    BY EmptySeq DEF Deltas
  <2>2. \A given \in Texts : given \o TextOf(start.out) = given
    BY TextProperties, TextOfNone
  <2>3. Tells(start)
    BY <2>2
  <2>4. \A h : Path(h, start.parser, items) => start.parser = h[0]
    BY DEF Path
  <2> HIDE DEF Tells
  <2>5. Good(0)
    BY <1>1, <2>1, <2>3, <2>4
  <2> HIDE DEF Good
  <2> QED BY <2>5
<1>4. ASSUME NEW k \in Nat, k \in T PROVE k + 1 \in T
  <2> HIDE DEF Good
  <2> SUFFICES ASSUME k + 1 <= N PROVE Good(k + 1)
    OBVIOUS
  <2> DEFINE acc == g[k]
             p == items[k + 1]
  <2>1. k \in 0..N /\ k + 1 \in 0..N /\ k + 1 \in 1..N /\ (k + 1) - 1 = k /\ k # N
    BY <1>2
  <2>2. Good(k)
    BY <1>4, <2>1
  <2>3. ~acc.done
    <3>1. acc.done => k \in 1..N /\ items[k].kind = "done"
      BY <2>1, <2>2 DEF Good
    <3> QED BY <2>1, <3>1
  <2>4. acc \in Relaying /\ p \in AnyPayload /\ g[k + 1] = Relayed(acc, p)
    BY <1>1, <1>2, <2>1
  <2>5. acc.parser \in Parsers /\ acc.out \in Seq(Chunks) /\ acc.rewritten \in BOOLEAN
    BY <2>4 DEF Relaying
  <2>6. Deltas(acc.out) /\ Tells(acc)
        /\ \A h : Path(h, start.parser, items) => acc.parser = h[k]
    BY <2>2 DEF Good
  <2> HIDE DEF acc, p, Tells
  <2> DEFINE d == DeltaOf(acc.parser, p)
             more == IF d # <<>> THEN Append(acc.out, Delta(d)) ELSE acc.out
  <2>7. /\ g[k + 1].parser = Feed(acc.parser, p)
        /\ g[k + 1].out = more
        /\ g[k + 1].done = (p.kind = "done")
        /\ g[k + 1].rewritten = (acc.rewritten \/ ~Extends(acc.parser, p))
    <3>1. g[k + 1] = [parser |-> Feed(acc.parser, p), out |-> more,
                      done |-> p.kind = "done",
                      rewritten |-> acc.rewritten \/ ~Extends(acc.parser, p)]
      BY <2>3, <2>4 DEF Relayed
    <3> HIDE DEF more
    <3> QED BY <3>1
  <2>8. /\ TextOf(more) = TextOf(acc.out) \o d
        /\ Deltas(more)
    <3>1. /\ Len(more) >= Len(acc.out) /\ Len(acc.out) \in Nat
          /\ TextOf(more) = TextOf(acc.out) \o d
          /\ more \in Seq(Chunks)
          /\ \A i \in 1..Len(acc.out) : more[i] = acc.out[i]
          /\ \A i \in 1..Len(more) : i > Len(acc.out) => more[i].kind = "delta"
      BY <2>4, <2>5, DeltaQueued, LenProperties
    <3>2. Len(more) \in Nat
      BY <3>1, LenProperties
    <3> HIDE DEF more, d
    <3>3. \A i \in 1..Len(more) : i > Len(acc.out) \/ i \in 1..Len(acc.out)
      BY <3>1, <3>2
    <3> QED BY <2>6, <3>1, <3>3 DEF Deltas
  <2>9. Tells(g[k + 1])
    <3> SUFFICES ASSUME NEW given \in Texts,
                        Spelt(start.rewritten, given, start.parser.text)
                 PROVE  Spelt(g[k + 1].rewritten, given \o TextOf(g[k + 1].out),
                              g[k + 1].parser.text)
      BY DEF Tells
    <3>1. Spelt(acc.rewritten, given \o TextOf(acc.out), acc.parser.text)
      BY <2>6 DEF Tells
    <3>2. TextOf(acc.out) \in Texts /\ d \in Texts
      BY <2>4, <2>5, TextOfConcat, DeltaExtends DEF Texts
    <3>3. given \o TextOf(acc.out) \in Texts
      BY <3>2, TextProperties
    <3>4. Spelt(acc.rewritten \/ ~Extends(acc.parser, p), (given \o TextOf(acc.out)) \o d,
                Feed(acc.parser, p).text)
      BY <2>4, <2>5, <3>1, <3>3, SpellsOn
    <3> HIDE DEF d, more
    <3>5. (given \o TextOf(acc.out)) \o d = given \o (TextOf(acc.out) \o d)
      BY <3>2, TextProperties
    <3> QED BY <2>7, <2>8, <3>4, <3>5
  <2>10. \A h : Path(h, start.parser, items) => g[k + 1].parser = h[k + 1]
    <3> SUFFICES ASSUME NEW h, Path(h, start.parser, items)
                 PROVE  g[k + 1].parser = h[k + 1]
      OBVIOUS
    <3>1. h[k + 1] = Feed(h[k], p)
      BY <2>1 DEF Path, p
    <3>2. acc.parser = h[k]
      BY <2>6
    <3> QED BY <2>7, <3>1, <3>2
  <2>11. k + 1 > 0 /\ p = items[k + 1]
    BY DEF p
  <2> HIDE DEF more, d
  <2> QED BY <2>7, <2>8, <2>9, <2>10, <2>11 DEF Good
<1> HIDE DEF T, Good
<1>5. Good(N)
  <2>1. N \in T
    BY <1>2, <1>3, <1>4, Induction
  <2> QED BY <1>2, <2>1 DEF T
<1>6. g[N] \in Relaying
  BY <1>1, <1>2
<1> QED BY <1>1, <1>5, <1>6 DEF Good

-----------------------------------------------------------------------------
(* The invariant.                                                          *)
Typed == TypeOK /\ parser \in Parsers /\ whole \in Parsers

(* Nothing is under way, and nothing more will be: the upstream wrote      *)
(* [DONE], or the connection was closed in good order.                     *)
AllRead == wire = <<>> /\ ((upstreamDone /\ ~lost) \/ line = "eof")

(* [DONE] is the last thing the upstream writes, and what comes with it is *)
(* whole.                                                                  *)
DoneLast ==
  \A i \in 1..Len(wire) :
    wire[i].kind = "done" => i = Len(wire) /\ upstreamDone /\ ~lost

(* run_text alone stops before the end, and drops what it has not read.    *)
Follows ==
  /\ line = "open" => ~lost
  /\ (plane = "helper" \/ reader = "relay") /\ ~lost => Leads(parser, wire, whole)

NoError(chunks) == \A i \in 1..Len(chunks) : chunks[i] # ErrorChunk

Drained ==
  /\ bodyDone => AllRead
  /\ stage = "over" => AllRead
  /\ plane = "helper" /\ finished /\ NoError(client \o out) => AllRead

(* What execute_text has heard when the conversation is over.              *)
HeardAll ==
  plane = "helper" =>
    /\ upstreamDone /\ ~lost /\ stage # "over" =>
         wire # <<>> /\ wire[Len(wire)].kind = "done"
    /\ reader = "collect" /\ stage = "over" /\ parser.text # <<>> => heard = parser.text
    /\ reader = "collect" /\ pc = "returned" =>
         stage = "over" \/ (line = "eof" /\ wire = <<>>)

ChatInv ==
  Typed /\ DeltasSpellText /\ EndsOnce /\ DoneLast /\ Follows /\ Drained /\ HeardAll

-----------------------------------------------------------------------------
LEMMA ChunkKinds ==
  /\ FinishChunk \in Chunks /\ DoneChunk \in Chunks /\ ErrorChunk \in Chunks
  /\ FinishChunk.text = <<>> /\ DoneChunk.text = <<>> /\ ErrorChunk.text = <<>>
  /\ FinishChunk.kind = "finish" /\ DoneChunk.kind = "done" /\ ErrorChunk.kind = "error"
<1>1. <<>> \in Seq(STRING)
  BY EmptySeq
<1> QED BY <1>1 DEF FinishChunk, DoneChunk, ErrorChunk, Chunks

LEMMA PayloadsTyped ==
  /\ Payloads \subseteq AnyPayload
  /\ \A w \in Seq(Payloads) : w \in Seq(AnyPayload)
  /\ wire \in Seq(Payloads) /\ wire # <<>> =>
       /\ Head(wire) \in Payloads /\ Head(wire) = wire[1]
       /\ Tail(wire) \in Seq(Payloads) /\ Len(wire) \in Nat \ {0}
       /\ Len(Tail(wire)) = Len(wire) - 1
       /\ \A i \in 1..(Len(wire) - 1) : Tail(wire)[i] = wire[i + 1]
<1>1. Payloads \subseteq AnyPayload
  BY PayloadsAssumption
<1>2. \A w \in Seq(Payloads) : w \in Seq(AnyPayload)
  BY <1>1, SeqMonotonic
<1>3. ASSUME wire \in Seq(Payloads), wire # <<>>
      PROVE  /\ Head(wire) \in Payloads /\ Head(wire) = wire[1]
             /\ Tail(wire) \in Seq(Payloads) /\ Len(wire) \in Nat \ {0}
             /\ Len(Tail(wire)) = Len(wire) - 1
             /\ \A i \in 1..(Len(wire) - 1) : Tail(wire)[i] = wire[i + 1]
  BY <1>3, HeadTailProperties, EmptySeq
<1> QED BY <1>1, <1>2, <1>3

(* The two ends of an answer, and a delta, queued after other chunks.      *)
LEMMA EndQueued ==
  ASSUME NEW chunks \in Seq(Chunks), NEW c \in {FinishChunk, ErrorChunk}
  PROVE  LET more == chunks \o <<c, DoneChunk>>
         IN /\ more \in Seq(Chunks) /\ Len(more) = Len(chunks) + 2
            /\ \A i \in 1..Len(chunks) : more[i] = chunks[i]
            /\ more[Len(chunks) + 1] = c /\ more[Len(chunks) + 2] = DoneChunk
            /\ TextOf(more) = TextOf(chunks)
<1> DEFINE end == <<c, DoneChunk>>
<1>1. c \in Chunks /\ DoneChunk \in Chunks /\ c.text = <<>> /\ DoneChunk.text = <<>>
  BY ChunkKinds
<1>2. end \in Seq(Chunks) /\ Len(end) = 2 /\ end[1] = c /\ end[2] = DoneChunk
  BY <1>1
<1>3. TextOf(end) = <<>>
  <2>1. end = Append(<<c>>, DoneChunk)
    OBVIOUS
  <2>2. <<c>> \in Seq(Chunks) /\ TextOf(<<c>>) = <<>>
    BY <1>1, TextOfOne
  <2>3. TextOf(end) = <<>> \o <<>>
    BY <1>1, <2>1, <2>2, TextOfAppend
  <2> QED BY <2>3, TextProperties
<1> HIDE DEF end
<1>4. Len(chunks) \in Nat
  BY LenProperties
<1>5. /\ chunks \o end \in Seq(Chunks) /\ Len(chunks \o end) = Len(chunks) + 2
      /\ \A i \in 1..(Len(chunks) + 2) :
           (chunks \o end)[i] = IF i <= Len(chunks) THEN chunks[i] ELSE end[i - Len(chunks)]
  <2>1. /\ chunks \o end \in Seq(Chunks)
        /\ Len(chunks \o end) = Len(chunks) + Len(end)
        /\ \A i \in 1..(Len(chunks) + Len(end)) :
             (chunks \o end)[i] = IF i <= Len(chunks) THEN chunks[i] ELSE end[i - Len(chunks)]
    BY <1>2, ConcatProperties
  <2> QED BY <1>2, <2>1
<1>6. TextOf(chunks \o end) = TextOf(chunks)
  <2>1. TextOf(chunks) \in Texts /\ TextOf(chunks \o end) = TextOf(chunks) \o TextOf(end)
    BY <1>2, TextOfConcat
  <2> QED BY <1>3, <2>1, TextProperties
<1>7. /\ (chunks \o end)[Len(chunks) + 1] = c
      /\ (chunks \o end)[Len(chunks) + 2] = DoneChunk
  <2>1. /\ Len(chunks) + 1 \in 1..(Len(chunks) + 2) /\ ~(Len(chunks) + 1 <= Len(chunks))
        /\ Len(chunks) + 2 \in 1..(Len(chunks) + 2) /\ ~(Len(chunks) + 2 <= Len(chunks))
        /\ (Len(chunks) + 1) - Len(chunks) = 1 /\ (Len(chunks) + 2) - Len(chunks) = 2
    BY <1>4
  <2> QED BY <1>2, <1>5, <2>1
<1>8. \A i \in 1..Len(chunks) : (chunks \o end)[i] = chunks[i]
  BY <1>4, <1>5
<1> QED BY <1>5, <1>6, <1>7, <1>8 DEF end

(* A chunk that goes out stays where it is among all of them.              *)
LEMMA Delivered ==
  ASSUME NEW s \in Seq(Chunks), NEW t \in Seq(Chunks), t # <<>>
  PROVE  /\ Append(s, Head(t)) \in Seq(Chunks) /\ Tail(t) \in Seq(Chunks)
         /\ Append(s, Head(t)) \o Tail(t) = s \o t
<1>1. /\ Head(t) \in Chunks /\ Tail(t) \in Seq(Chunks)
      /\ <<Head(t)>> \in Seq(Chunks)
  BY HeadTailProperties
<1>2. Append(s, Head(t)) \in Seq(Chunks) /\ Append(s, Head(t)) = s \o <<Head(t)>>
  BY <1>1, AppendProperties, AppendIsConcat
<1>3. t = <<Head(t)>> \o Tail(t)
  OBVIOUS
<1>4. (s \o <<Head(t)>>) \o Tail(t) = s \o (<<Head(t)>> \o Tail(t))
  BY <1>1, ConcatAssociative
<1> QED BY <1>1, <1>2, <1>3, <1>4

-----------------------------------------------------------------------------
(* What RelayChunk(n) makes of the stream's state.                         *)
LEMMA RelayChunkReads ==
  ASSUME Typed, DoneLast, NEW n \in 1..Len(wire), RelayChunk(n)
  PROVE  /\ parser' \in Parsers /\ out' \in Seq(Chunks)
         /\ bodyDone' \in BOOLEAN /\ rewritten' \in BOOLEAN
         /\ Deltas(out')
         /\ \A given \in Texts : Spelt(rewritten, given, parser.text) =>
              Spelt(rewritten', given \o TextOf(out'), parser'.text)
         /\ bodyDone' => wire' = <<>> /\ upstreamDone /\ ~lost
         /\ \A h : Path(h, parser, SubSeq(wire, 1, n)) => parser' = h[n]
<1> DEFINE items == SubSeq(wire, 1, n)
           start == [parser |-> parser, out |-> <<>>, done |-> FALSE,
                     rewritten |-> rewritten]
           got == Fold(Relayed, start, items)
<1>1. wire \in Seq(Payloads) /\ Len(wire) \in Nat /\ n \in Nat /\ n \in 0..Len(wire)
  BY LenProperties DEF Typed, TypeOK
<1>2. items \in Seq(AnyPayload) /\ Len(items) = n /\ \A i \in 1..n : items[i] = wire[i]
  BY <1>1, Parts, PayloadsTyped
<1>3. start \in Relaying /\ ~start.done /\ start.out = <<>>
      /\ start.parser = parser /\ start.rewritten = rewritten
  <2>1. <<>> \in Seq(Chunks)
    BY EmptySeq
  <2> QED BY <2>1 DEF Relaying, Typed, TypeOK
<1>4. \A i \in 1..n : items[i].kind = "done" => i = n /\ n = Len(wire) /\ upstreamDone /\ ~lost
  <2>1. \A i \in 1..n : i \in 1..Len(wire)
    BY <1>1
  <2>2. \A i \in 1..n : wire[i].kind = "done" => i = Len(wire) /\ upstreamDone /\ ~lost
    BY <2>1 DEF DoneLast
  <2> QED BY <1>1, <1>2, <2>2
<1>5. /\ parser' = got.parser /\ out' = got.out
      /\ bodyDone' = got.done /\ rewritten' = got.rewritten
      /\ wire' = SubSeq(wire, n + 1, Len(wire))
  BY DEF RelayChunk
<1> HIDE DEF items, start
<1>6. \A i \in 1..Len(items) : items[i].kind = "done" => i = Len(items)
  BY <1>2, <1>4
<1>7. /\ got \in Relaying
      /\ Deltas(got.out)
      /\ \A given \in Texts : Spelt(start.rewritten, given, start.parser.text) =>
           Spelt(got.rewritten, given \o TextOf(got.out), got.parser.text)
      /\ got.done => n > 0 /\ items[n].kind = "done"
      /\ \A h : Path(h, start.parser, items) => got.parser = h[n]
  BY <1>2, <1>3, <1>6, RelayedChunk
<1> HIDE DEF got
<1>8. bodyDone' => wire' = <<>> /\ upstreamDone /\ ~lost
  <2>1. got.done => n = Len(wire) /\ upstreamDone /\ ~lost
    BY <1>1, <1>4, <1>7
  <2>2. n = Len(wire) => SubSeq(wire, n + 1, Len(wire)) = <<>>
    BY <1>1, SubSeqEmpty
  <2> QED BY <1>5, <2>1, <2>2
<1>9. got.parser \in Parsers /\ got.out \in Seq(Chunks)
      /\ got.done \in BOOLEAN /\ got.rewritten \in BOOLEAN
  BY <1>7 DEF Relaying
<1> QED BY <1>3, <1>5, <1>7, <1>8, <1>9 DEF items

LEMMA CollectChunkReads ==
  ASSUME Typed, NEW n \in 1..Len(wire), CollectChunk(n)
  PROVE  parser' \in Parsers /\ rewritten' \in BOOLEAN
<1> DEFINE items == SubSeq(wire, 1, n)
           start == [parser |-> parser, stop |-> "no", rewritten |-> rewritten]
           got == Fold(Collected, start, items)
<1>1. wire \in Seq(Payloads) /\ Len(wire) \in Nat /\ n \in 0..Len(wire)
  BY LenProperties DEF Typed, TypeOK
<1>2. items \in Seq(AnyPayload)
  BY <1>1, Parts, PayloadsTyped
<1>3. start \in Collecting
  BY DEF Collecting, Typed, TypeOK
<1>4. parser' = got.parser /\ rewritten' = got.rewritten
  BY DEF CollectChunk
<1> HIDE DEF items, start
<1>5. got \in Collecting
  BY <1>2, <1>3, CollectIterates
<1> HIDE DEF got
<1> QED BY <1>4, <1>5 DEF Collecting

(* The wire after a step that takes its first n payloads, or keeps them.   *)
LEMMA WireParts ==
  ASSUME Typed, NEW n \in 0..Len(wire)
  PROVE  /\ SubSeq(wire, 1, n) \in Seq(Payloads) /\ Len(SubSeq(wire, 1, n)) = n
         /\ SubSeq(wire, n + 1, Len(wire)) \in Seq(Payloads)
         /\ Len(SubSeq(wire, n + 1, Len(wire))) = Len(wire) - n
         /\ Len(wire) \in Nat /\ n \in Nat /\ n <= Len(wire)
<1>1. wire \in Seq(Payloads) /\ Len(wire) \in Nat
  BY LenProperties DEF Typed, TypeOK
<1> QED BY <1>1, Parts

LEMMA StepTyped ==
  ASSUME Typed, DoneLast, ChatNext
  PROVE  Typed'
<1> SUFFICES TypeOK' /\ parser' \in Parsers /\ whole' \in Parsers
  BY DEF Typed
<1>1. TypeOK /\ parser \in Parsers /\ whole \in Parsers
  BY DEF Typed
<1>2. \A s \in Parsers : s.text \in Seq(STRING)
  BY DEF Parsers
<1>3. wire \in Seq(Payloads) /\ Len(wire) \in Nat /\ Len(wire) <= written
      /\ written \in Nat /\ written <= MaxPayloads /\ MaxPayloads \in Nat
  BY <1>1, LenProperties, MaxPayloadsAssumption DEF TypeOK
<1>4. CASE Begins
  BY <1>1, <1>4 DEF Begins, Refuse, Open, OpenFails, Settled, TypeOK, vars, upstream, relay
<1>5. CASE UpstreamSpeaks
  <2>1. ASSUME NEW p \in Payloads, Write(p), UNCHANGED <<plane, stage, heard>>
        PROVE  TypeOK' /\ parser' \in Parsers /\ whole' \in Parsers
    <3>1. Feed(whole, p) \in Parsers
      BY <1>1, FeedTyped, PayloadsTyped
    <3>2. Append(wire, p) \in Seq(Payloads) /\ Len(Append(wire, p)) = Len(wire) + 1
      BY <1>3, AppendProperties
    <3>3. written + 1 \in 0..MaxPayloads /\ Len(wire) + 1 <= written + 1
      BY <1>3, <2>1 DEF Write
    <3>4. whole' \in Parsers /\ whole'.text \in Seq(STRING)
      BY <1>2, <2>1, <3>1 DEF Write
    <3> QED BY <1>1, <2>1, <3>2, <3>3, <3>4 DEF Write, TypeOK, relay
  <2>2. ASSUME NEW how \in {"eof", "error"}, NEW n \in 0..Len(wire), Cut(how, n),
               UNCHANGED <<plane, stage, heard>>
        PROVE  TypeOK' /\ parser' \in Parsers /\ whole' \in Parsers
    <3>1. wire' \in Seq(Payloads) /\ Len(wire') <= written
      BY <1>3, <2>2, WireParts DEF Cut
    <3>2. line' \in {"open", "eof", "error"} /\ lost' \in BOOLEAN
      BY <2>2 DEF Cut
    <3> QED BY <1>1, <2>2, <3>1, <3>2 DEF Cut, TypeOK, relay
  <2> QED BY <1>5, <2>1, <2>2 DEF UpstreamSpeaks, Breaks
<1>6. CASE RuntimeReads
  <2>1. ASSUME NEW n \in 1..Len(wire), CollectChunk(n), UNCHANGED <<plane, stage, heard>>
        PROVE  TypeOK' /\ parser' \in Parsers /\ whole' \in Parsers
    <3>1. parser' \in Parsers /\ rewritten' \in BOOLEAN /\ parser'.text \in Seq(STRING)
      BY <1>2, <2>1, CollectChunkReads
    <3>2. wire' \in Seq(Payloads) /\ Len(wire') <= written
      BY <1>3, <2>1, WireParts DEF CollectChunk
    <3>3. pc' \in {"reading", "returned"} /\ reader = "collect"
      BY <2>1 DEF CollectChunk
    <3> QED BY <1>1, <2>1, <3>1, <3>2, <3>3 DEF CollectChunk, TypeOK, upstream, relay
  <2>2. ASSUME NEW n \in 1..Len(wire), RelayChunk(n), UNCHANGED <<plane, stage, heard>>
        PROVE  TypeOK' /\ parser' \in Parsers /\ whole' \in Parsers
    <3>1. /\ parser' \in Parsers /\ out' \in Seq(Chunks)
          /\ bodyDone' \in BOOLEAN /\ rewritten' \in BOOLEAN
          /\ parser'.text \in Seq(STRING)
      BY <1>2, <2>2, RelayChunkReads
    <3>2. wire' \in Seq(Payloads) /\ Len(wire') <= written
      BY <1>3, <2>2, WireParts DEF RelayChunk
    <3> QED BY <1>1, <2>2, <3>1, <3>2 DEF RelayChunk, TypeOK, upstream
  <2>3. ASSUME CollectFails \/ RelayBodyEnds \/ RelayEnds, UNCHANGED <<plane, stage, heard>>
        PROVE  TypeOK' /\ parser' \in Parsers /\ whole' \in Parsers
    <3>1. CASE CollectFails
      BY <1>1, <2>3, <3>1 DEF CollectFails, TypeOK, upstream, relay
    <3>2. CASE RelayEnds
      BY <1>1, <2>3, <3>2 DEF RelayEnds, Polls, TypeOK, upstream, relay
    <3>3. CASE RelayBodyEnds
      <4>1. pc' \in {"reading", "aborted"} /\ bodyDone' \in BOOLEAN
            /\ (bodyDone => bodyDone')
        BY <1>1, <3>3 DEF RelayBodyEnds, Polls, TypeOK
      <4> QED BY <1>1, <2>3, <3>3, <4>1 DEF RelayBodyEnds, Polls, TypeOK, upstream
    <3> QED BY <2>3, <3>1, <3>2, <3>3
  <2>4. ASSUME Deliver, UNCHANGED <<plane, stage, heard>>
        PROVE  TypeOK' /\ parser' \in Parsers /\ whole' \in Parsers
    <3>1. out' \in Seq(Chunks) /\ client' \in Seq(Chunks)
      BY <1>1, <2>4, Delivered DEF Deliver, TypeOK
    <3> QED BY <1>1, <2>4, <3>1 DEF Deliver, TypeOK, upstream
  <2>5. ASSUME EnqueueFinish, UNCHANGED <<plane, stage, heard>>
        PROVE  TypeOK' /\ parser' \in Parsers /\ whole' \in Parsers
    <3>1. <<FinishChunk, DoneChunk>> \in Seq(Chunks)
      BY ChunkKinds
    <3> QED BY <1>1, <2>5, <3>1 DEF EnqueueFinish, TypeOK, upstream
  <2> QED BY <1>6, <2>1, <2>2, <2>3, <2>4, <2>5 DEF RuntimeReads, Read
<1>7. CASE BridgeRelays
  <2> DEFINE p == Head(wire)
             more == IF DeltaOf(parser, p) # <<>> THEN Append(out, Delta(DeltaOf(parser, p)))
                     ELSE out
  <2>1. wire # <<>> /\ p \in AnyPayload
    BY <1>3, <1>7, PayloadsTyped DEF BridgeRelays
  <2>2. parser' \in Parsers /\ parser'.text \in Seq(STRING)
    BY <1>1, <1>2, <1>7, <2>1, FeedTyped DEF BridgeRelays
  <2>3. wire' \in Seq(Payloads) /\ Len(wire') <= written
    BY <1>3, <1>7, <2>1, PayloadsTyped DEF BridgeRelays
  <2>4. out' \in Seq(Chunks)
    <3>1. more \in Seq(Chunks)
      BY <1>1, <2>1, DeltaQueued DEF TypeOK
    <3> QED BY <1>7, <3>1 DEF BridgeRelays
  <2>5. rewritten' \in BOOLEAN /\ stage' \in {"talking", "over"}
    BY <1>7 DEF BridgeRelays
  <2> QED BY <1>1, <1>7, <2>2, <2>3, <2>4, <2>5 DEF BridgeRelays, Bridging, TypeOK, upstream
<1>8. CASE BridgeCollects
  <2> DEFINE p == Head(wire)
  <2>1. wire # <<>> /\ p \in AnyPayload
    BY <1>3, <1>8, PayloadsTyped DEF BridgeCollects
  <2>2. parser' \in Parsers /\ parser'.text \in Seq(STRING)
    BY <1>1, <1>2, <1>8, <2>1, FeedTyped DEF BridgeCollects
  <2>3. wire' \in Seq(Payloads) /\ Len(wire') <= written
    BY <1>3, <1>8, <2>1, PayloadsTyped DEF BridgeCollects
  <2>4. heard' \in Seq(STRING)
    <3>1. DeltaOf(parser, p) \in Seq(STRING) /\ heard \in Seq(STRING)
          /\ parser.text \in Seq(STRING)
      BY <1>1, <2>1, DeltaExtends DEF TypeOK
    <3>2. heard \o DeltaOf(parser, p) \in Seq(STRING)
      BY <3>1, ConcatProperties
    <3> QED BY <1>8, <3>1, <3>2 DEF BridgeCollects
  <2>5. rewritten' \in BOOLEAN /\ stage' \in {"talking", "over"}
    BY <1>8 DEF BridgeCollects
  <2> QED BY <1>1, <1>8, <2>2, <2>3, <2>4, <2>5
          DEF BridgeCollects, Bridging, TypeOK, upstream, relay
<1>9. CASE BridgeEnds \/ BridgeRaises
  <2>1. out \o <<FinishChunk, DoneChunk>> \in Seq(Chunks)
        /\ out \o <<ErrorChunk, DoneChunk>> \in Seq(Chunks)
    BY <1>1, EndQueued DEF TypeOK
  <2>2. CASE BridgeEnds
    BY <1>1, <2>1, <2>2 DEF BridgeEnds, Bridging, Settled, TypeOK, upstream, relay
  <2>3. CASE BridgeRaises
    BY <1>1, <2>1, <2>3 DEF BridgeRaises, Bridging, Settled, TypeOK, upstream, relay
  <2> QED BY <1>9, <2>2, <2>3
<1>10. CASE Forward
  <2>1. CASE Deliver
    <3>1. out' \in Seq(Chunks) /\ client' \in Seq(Chunks)
      BY <1>1, <2>1, Delivered DEF Deliver, TypeOK
    <3> QED BY <1>1, <1>10, <2>1, <3>1 DEF Forward, Deliver, TypeOK, upstream
  <2>2. CASE RelayEnds
    BY <1>1, <1>10, <2>2 DEF Forward, RelayEnds, Polls, TypeOK, upstream, relay
  <2> QED BY <1>10, <2>1, <2>2 DEF Forward
<1>11. CASE BridgeLost
  BY <1>1, <1>11 DEF BridgeLost, Settled, TypeOK, upstream, relay
<1>12. CASE ChatClientLeaves
  BY <1>1, <1>12 DEF ChatClientLeaves, ClientLeaves, Polls, TypeOK, upstream, relay
<1> QED
  BY <1>4, <1>5, <1>6, <1>7, <1>8, <1>9, <1>10, <1>11, <1>12 DEF ChatNext, Bridge

-----------------------------------------------------------------------------
(* The steps, told apart by what they touch.                               *)

(* Only the reader's place changes, or the conversation begins.            *)
Quiet ==
  /\ UNCHANGED <<reader, plane, wire, upstream, relay, parser, rewritten, heard>>
  /\ pc' = "ended" => pc = "ended" \/ (finished /\ out = <<>>)
  /\ pc' = "aborted" /\ plane = "upstream" => pc = "aborted" \/ ~finished
  /\ pc' = "returned" /\ plane = "helper" =>
       pc = "returned" \/ stage = "over" \/ (line = "eof" /\ wire = <<>>)
  /\ stage' = stage \/ (stage = "asking" /\ stage' = "talking")

BodyEnds ==
  /\ line = "eof" /\ wire = <<>>
  /\ pc = "reading" /\ ~finished
  /\ bodyDone' = TRUE
  /\ UNCHANGED <<reader, plane, stage, wire, upstream, parser, pc, finished, out, client,
                 rewritten, heard>>

(* The end of a streamed answer is queued, with or without an error.       *)
Ends(c) ==
  /\ pc = "reading" /\ ~finished
  /\ out' = out \o <<c, DoneChunk>> /\ finished' = TRUE
  /\ UNCHANGED <<reader, plane, stage, wire, upstream, parser, pc, bodyDone, client,
                 rewritten, heard>>

Finishes ==
  /\ Ends(FinishChunk)
  /\ bodyDone \/ stage = "over" \/ (line = "eof" /\ wire = <<>>)

Errs == plane = "helper" /\ Ends(ErrorChunk)

Reads(n) ==
  /\ plane = "upstream"
  /\ CollectChunk(n) \/ RelayChunk(n)
  /\ UNCHANGED <<plane, stage, heard>>

Delivers == Deliver /\ UNCHANGED <<plane, stage, heard>>

LEMMA Steps ==
  ASSUME Typed, ChatNext
  PROVE  \/ Quiet \/ UpstreamSpeaks \/ BodyEnds
         \/ Finishes \/ Errs
         \/ \E n \in 1..Len(wire) : Reads(n)
         \/ Delivers
         \/ BridgeRelays \/ BridgeCollects
<1>1. CASE Begins
  BY <1>1 DEF Begins, Refuse, Open, OpenFails, Settled, Quiet, vars, upstream, relay
<1>2. CASE RuntimeReads
  <2>1. CASE \E n \in 1..Len(wire) : CollectChunk(n) \/ RelayChunk(n)
    BY <1>2, <2>1 DEF RuntimeReads, Reads
  <2>2. CASE CollectFails
    BY <1>2, <2>2 DEF RuntimeReads, CollectFails, Quiet, upstream, relay
  <2>3. CASE Deliver
    BY <1>2, <2>3 DEF RuntimeReads, Delivers
  <2>4. CASE RelayBodyEnds
    <3>1. CASE line = "eof"
      BY <1>2, <2>4, <3>1 DEF RuntimeReads, RelayBodyEnds, Polls, BodyEnds, upstream
    <3>2. CASE line # "eof"
      BY <1>2, <2>4, <3>2 DEF RuntimeReads, RelayBodyEnds, Polls, Quiet, upstream, relay
    <3> QED BY <3>1, <3>2
  <2>5. CASE EnqueueFinish
    <3>1. out' = out \o <<FinishChunk, DoneChunk>>
      BY <2>5 DEF EnqueueFinish
    <3> QED BY <1>2, <2>5, <3>1 DEF RuntimeReads, EnqueueFinish, Polls, Finishes, Ends, upstream
  <2>6. CASE RelayEnds
    BY <1>2, <2>6 DEF RuntimeReads, RelayEnds, Polls, Quiet, upstream, relay
  <2> QED BY <1>2, <2>1, <2>2, <2>3, <2>4, <2>5, <2>6 DEF RuntimeReads, Read
<1>3. CASE BridgeEnds
  <2>1. CASE reader = "collect"
    BY <1>3, <2>1 DEF BridgeEnds, Bridging, Settled, Quiet, upstream, relay
  <2>2. CASE reader # "collect"
    BY <1>3, <2>2 DEF BridgeEnds, Bridging, Finishes, Ends, upstream
  <2> QED BY <2>1, <2>2
<1>4. CASE BridgeRaises
  <2>1. CASE reader = "collect"
    BY <1>4, <2>1 DEF BridgeRaises, Bridging, Settled, Quiet, upstream, relay
  <2>2. CASE reader # "collect"
    BY <1>4, <2>2 DEF BridgeRaises, Bridging, Errs, Ends, upstream
  <2> QED BY <2>1, <2>2
<1>5. CASE Forward
  BY <1>5 DEF Forward, RelayEnds, Polls, Delivers, Quiet, upstream, relay
<1>6. CASE BridgeLost
  BY <1>6 DEF BridgeLost, Settled, Quiet, upstream, relay
<1>7. CASE ChatClientLeaves
  BY <1>7 DEF ChatClientLeaves, ClientLeaves, Polls, Quiet, upstream, relay
<1> QED BY <1>1, <1>2, <1>3, <1>4, <1>5, <1>6, <1>7 DEF ChatNext, Bridge

-----------------------------------------------------------------------------
(* DeltasSpellText.                                                        *)
LEMMA StepSpells ==
  ASSUME Typed, DoneLast, DeltasSpellText, ChatNext
  PROVE  DeltasSpellText'
<1>1. /\ client \in Seq(Chunks) /\ out \in Seq(Chunks)
      /\ client \o out \in Seq(Chunks)
      /\ TextOf(client) \in Texts /\ TextOf(out) \in Texts
      /\ TextOf(client \o out) = TextOf(client) \o TextOf(out)
      /\ reader \in {"collect", "relay"} /\ parser \in Parsers
      /\ wire \in Seq(Payloads) /\ rewritten \in BOOLEAN
      /\ TextOf(client \o out) \in Texts /\ parser.text \in Texts
  BY ConcatProperties, TextOfConcat DEF Typed, TypeOK, Texts
<1>2. reader = "relay" => Spelt(rewritten, TextOf(client \o out), parser.text)
  BY <1>1, SpellsIs DEF DeltasSpellText
<1>3. ASSUME TextOf(client' \o out') \in Texts, parser'.text \in Texts,
              Spelt(rewritten', TextOf(client' \o out'), parser'.text)
       PROVE  DeltasSpellText'
  <2> DEFINE given == TextOf(client' \o out')
             text == parser'.text
  <2> HIDE DEF given, text
  <2>1. Spelt(rewritten', given, text) /\ given \in Texts /\ text \in Texts
    BY <1>3 DEF given, text
  <2>2. IF rewritten' THEN IsSuffix(text, given) ELSE given = text
    BY <2>1, SuffixIsEnd DEF Spelt
  <2> QED BY <2>2 DEF DeltasSpellText, Spells, given, text
<1>4. CASE Quiet \/ UpstreamSpeaks \/ BodyEnds
  <2>1. UNCHANGED <<reader, rewritten, client, out, parser>>
    BY <1>4 DEF Quiet, UpstreamSpeaks, Write, Breaks, Cut, BodyEnds, relay
  <2> QED BY <2>1 DEF DeltasSpellText, Spells
<1>5. ASSUME NEW c \in {FinishChunk, ErrorChunk}, Ends(c) PROVE DeltasSpellText'
  <2>1. UNCHANGED <<reader, rewritten, client, parser>> /\ out' = out \o <<c, DoneChunk>>
    BY <1>5 DEF Ends
  <2>2. out' \in Seq(Chunks) /\ TextOf(out') = TextOf(out)
    BY <1>1, <2>1, EndQueued
  <2>3. TextOf(client \o out') = TextOf(client) \o TextOf(out')
    BY <1>1, <2>2, TextOfConcat
  <2>4. TextOf(client' \o out') = TextOf(client \o out)
    BY <1>1, <2>1, <2>2, <2>3
  <2> QED BY <2>1, <2>4 DEF DeltasSpellText, Spells
<1>6. ASSUME NEW n \in 1..Len(wire), CollectChunk(n) PROVE DeltasSpellText'
  BY <1>6 DEF CollectChunk, DeltasSpellText
<1>7. ASSUME NEW n \in 1..Len(wire), RelayChunk(n) PROVE DeltasSpellText'
  <2>1. /\ out' \in Seq(Chunks) /\ parser' \in Parsers
        /\ \A given \in Texts : Spelt(rewritten, given, parser.text) =>
             Spelt(rewritten', given \o TextOf(out'), parser'.text)
    BY <1>7, RelayChunkReads
  <2>2. reader = "relay" /\ out = <<>> /\ client' = client
    BY <1>7 DEF RelayChunk, Polls
  <2>3. Spelt(rewritten, TextOf(client), parser.text)
    <3>1. client \o out = client
      BY <1>1, <2>2, ConcatEmptySeq
    <3> QED BY <1>2, <2>2, <3>1
  <2>4. TextOf(client \o out') = TextOf(client) \o TextOf(out')
    BY <1>1, <2>1, TextOfConcat
  <2>5. TextOf(client \o out') \in Texts /\ parser'.text \in Texts
    BY <1>1, <2>1, <2>4, TextProperties, TextOfConcat DEF Parsers, Texts
  <2>6. Spelt(rewritten', TextOf(client' \o out'), parser'.text)
    BY <1>1, <2>1, <2>2, <2>3, <2>4
  <2> QED BY <1>3, <2>2, <2>5, <2>6
<1>8. CASE Delivers
  <2>1. out # <<>> /\ client' = Append(client, Head(out)) /\ out' = Tail(out)
        /\ UNCHANGED <<reader, parser, rewritten>>
    BY <1>8 DEF Delivers, Deliver
  <2>2. client' \o out' = client \o out
    BY <1>1, <2>1, Delivered
  <2> QED BY <2>1, <2>2 DEF DeltasSpellText, Spells
<1>9. CASE BridgeRelays
  <2> DEFINE p == Head(wire)
             d == DeltaOf(parser, p)
             more == IF d # <<>> THEN Append(out, Delta(d)) ELSE out
  <2>1. p \in AnyPayload /\ reader = "relay" /\ reader' = "relay"
    BY <1>1, <1>9, PayloadsTyped DEF BridgeRelays
  <2>2. /\ parser' = Feed(parser, p) /\ out' = more /\ client' = client
        /\ rewritten' = (rewritten \/ ~Extends(parser, p))
    BY <1>9 DEF BridgeRelays
  <2> HIDE DEF p
  <2>3. more \in Seq(Chunks) /\ TextOf(more) = TextOf(out) \o d
    BY <1>1, <2>1, DeltaQueued
  <2>4. d \in Texts /\ Feed(parser, p).text \in Texts
    BY <1>1, <2>1, DeltaExtends, FeedTyped DEF Texts, Parsers
  <2>5. Spelt(rewritten \/ ~Extends(parser, p), TextOf(client \o out) \o d,
              Feed(parser, p).text)
    BY <1>1, <1>2, <2>1, SpellsOn
  <2> HIDE DEF d, more
  <2>6. TextOf(client \o more) = TextOf(client) \o (TextOf(out) \o d)
    BY <1>1, <2>3, TextOfConcat
  <2>7. (TextOf(client) \o TextOf(out)) \o d = TextOf(client) \o (TextOf(out) \o d)
    <3>1. TextOf(client) \in Texts /\ TextOf(out) \in Texts /\ d \in Texts
      BY <1>1, <2>4
    <3> QED BY ONLY <3>1, TextsAssociate
  <2>8. TextOf(client' \o out') = TextOf(client \o out) \o d
    BY <1>1, <2>2, <2>6, <2>7
  <2>9. TextOf(client' \o out') \in Texts
    BY <1>1, <2>4, <2>8, TextProperties
  <2> QED BY <1>3, <2>2, <2>4, <2>5, <2>8, <2>9
<1>10. CASE BridgeCollects
  BY <1>10 DEF BridgeCollects, DeltasSpellText
<1> QED
  BY <1>4, <1>5, <1>6, <1>7, <1>8, <1>9, <1>10, Steps
     DEF Finishes, Errs, Reads

-----------------------------------------------------------------------------
(* EndsOnce.                                                               *)
LEMMA DeltasConcat ==
  ASSUME NEW s \in Seq(Chunks), NEW t \in Seq(Chunks)
  PROVE  Deltas(s \o t) <=> Deltas(s) /\ Deltas(t)
<1>1. /\ Len(s) \in Nat /\ Len(t) \in Nat /\ Len(s \o t) = Len(s) + Len(t)
      /\ \A i \in 1..(Len(s) + Len(t)) :
           (s \o t)[i] = IF i <= Len(s) THEN s[i] ELSE t[i - Len(s)]
  BY LenProperties, ConcatProperties
<1> DEFINE m == Len(s)
           n == Len(t)
           both == s \o t
<1> HIDE DEF m, n, both
<1>2. /\ m \in Nat /\ n \in Nat /\ Len(both) = m + n
      /\ \A i \in 1..(m + n) : both[i] = IF i <= m THEN s[i] ELSE t[i - m]
  BY <1>1 DEF m, n, both
<1>3. ASSUME \A i \in 1..(m + n) : both[i].kind = "delta"
      PROVE  /\ \A i \in 1..m : s[i].kind = "delta"
             /\ \A i \in 1..n : t[i].kind = "delta"
  <2>1. ASSUME NEW i \in 1..m PROVE s[i].kind = "delta"
    <3>1. i \in 1..(m + n) /\ i <= m
      BY <1>2
    <3> QED BY <1>2, <1>3, <3>1
  <2>2. ASSUME NEW i \in 1..n PROVE t[i].kind = "delta"
    <3>1. m + i \in 1..(m + n) /\ ~(m + i <= m) /\ (m + i) - m = i
      BY <1>2
    <3> QED BY <1>2, <1>3, <3>1
  <2> QED BY <2>1, <2>2
<1>4. ASSUME \A i \in 1..m : s[i].kind = "delta", \A i \in 1..n : t[i].kind = "delta",
             NEW i \in 1..(m + n)
      PROVE  both[i].kind = "delta"
  <2>1. CASE i <= m
    BY <1>2, <1>4, <2>1
  <2>2. CASE ~(i <= m)
    <3>1. i - m \in 1..n
      BY <1>2, <2>2
    <3> QED BY <1>2, <1>4, <2>2, <3>1
  <2> QED BY <2>1, <2>2
<1> QED BY <1>2, <1>3, <1>4 DEF Deltas, m, n, both

LEMMA StepEnds ==
  ASSUME Typed, DoneLast, EndsOnce, ChatNext
  PROVE  EndsOnce'
<1> DEFINE chunks == client \o out
<1>1. /\ client \in Seq(Chunks) /\ out \in Seq(Chunks) /\ chunks \in Seq(Chunks)
      /\ Len(chunks) \in Nat /\ parser \in Parsers /\ wire \in Seq(Payloads)
      /\ finished \in BOOLEAN
  BY ConcatProperties, LenProperties DEF Typed, TypeOK
<1>2. ~finished => Deltas(chunks)
  BY DEF EndsOnce, Deltas
<1>3. ASSUME UNCHANGED <<client, out, finished, plane>>,
             pc' = "ended" => pc = "ended" \/ (finished /\ out = <<>>),
             pc' = "aborted" /\ plane = "upstream" => pc = "aborted" \/ ~finished
      PROVE  EndsOnce'
  <2>1. chunks' = chunks
    BY <1>3
  <2> HIDE DEF chunks
  <2>2. finished' = finished /\ out' = out /\ plane' = plane
    BY <1>3
  <2> QED BY <1>3, <2>1, <2>2 DEF EndsOnce, chunks
<1>4. ASSUME ~finished, ~finished', Deltas(client' \o out'), pc' = pc, plane' = plane
      PROVE  EndsOnce'
  <2>1. ~(pc = "ended")
    BY <1>4 DEF EndsOnce
  <2> QED BY <1>4, <2>1 DEF EndsOnce, Deltas
<1>5. CASE Quiet
  BY <1>3, <1>5 DEF Quiet, relay
<1>6. CASE UpstreamSpeaks \/ BodyEnds
  BY <1>3, <1>6 DEF UpstreamSpeaks, Write, Breaks, Cut, BodyEnds, relay
<1>7. ASSUME NEW c \in {FinishChunk, ErrorChunk}, Ends(c),
             c = ErrorChunk => plane = "helper"
      PROVE  EndsOnce'
  <2> DEFINE m == Len(chunks)
             more == chunks \o <<c, DoneChunk>>
  <2>1. /\ pc = "reading" /\ pc' = pc /\ ~finished /\ finished' = TRUE
        /\ client' = client /\ out' = out \o <<c, DoneChunk>> /\ plane' = plane
    BY <1>7 DEF Ends
  <2>2. client' \o out' = more
    <3> DEFINE end == <<c, DoneChunk>>
    <3>1. end \in Seq(Chunks)
      BY ChunkKinds
    <3>2. client \in Seq(Chunks) /\ out \in Seq(Chunks)
      BY <1>1
    <3>3. client' \o out' = client \o (out \o end)
      BY <2>1
    <3> HIDE DEF end, chunks
    <3>4. (client \o out) \o end = client \o (out \o end)
      BY <3>1, <3>2, ConcatAssociative
    <3> QED BY <3>3, <3>4 DEF chunks, end
  <2>3. /\ Len(more) = m + 2
        /\ \A i \in 1..m : more[i] = chunks[i]
        /\ more[m + 1] = c /\ more[m + 2] = DoneChunk
    BY <1>1, EndQueued
  <2>4. \A i \in 1..m : chunks[i].kind = "delta"
    BY <1>2, <2>1 DEF Deltas
  <2>5. m \in Nat
    BY <1>1
  <2>6. \A i \in 1..(m + 2) : i \in 1..m \/ i = m + 1 \/ i = m + 2
    BY <2>5
  <2>7. /\ c.kind = "finish" \/ (c.kind = "error" /\ plane = "helper")
        /\ DoneChunk.kind = "done"
    BY <1>7, ChunkKinds
  <2> HIDE DEF more, m
  <2>8. \A i \in 1..Len(more) : more[i].kind # "delta" =>
          /\ i >= Len(more) - 1
          /\ more[i].kind = "done" <=> i = Len(more)
          /\ more[i].kind = "error" => plane = "helper"
    <3>1. ASSUME NEW i \in 1..(m + 2), more[i].kind # "delta"
          PROVE  /\ i >= (m + 2) - 1
                 /\ more[i].kind = "done" <=> i = m + 2
                 /\ more[i].kind = "error" => plane = "helper"
      <4>1. CASE i = m + 1
        BY <2>3, <2>5, <2>7, <4>1
      <4>2. CASE i = m + 2
        BY <2>3, <2>5, <2>7, <4>2
      <4>3. ~(i \in 1..m)
        BY <2>3, <2>4, <3>1
      <4> QED BY <2>6, <4>1, <4>2, <4>3
    <3> QED BY <2>3, <3>1
  <2>9. Len(more) >= 2 /\ more[Len(more) - 1].kind # "delta"
    <3>1. (m + 2) - 1 = m + 1 /\ m + 2 >= 2
      BY <2>5
    <3> QED BY <2>3, <2>7, <3>1
  <2> QED BY <2>1, <2>2, <2>8, <2>9 DEF EndsOnce
<1>8. ASSUME NEW n \in 1..Len(wire), Reads(n) PROVE EndsOnce'
  <2>1. CASE CollectChunk(n)
    BY <1>3, <1>8, <2>1 DEF Reads, CollectChunk, relay
  <2>2. CASE RelayChunk(n)
    <3>1. out' \in Seq(Chunks) /\ Deltas(out')
      BY <2>2, RelayChunkReads
    <3>2. ~finished /\ out = <<>> /\ UNCHANGED <<client, finished, pc>>
      BY <2>2 DEF RelayChunk
    <3>3. Deltas(client)
      BY <1>1, <1>2, <3>2, DeltasConcat
    <3>4. Deltas(client \o out')
      BY <1>1, <3>1, <3>3, DeltasConcat
    <3> QED BY <1>4, <1>8, <3>2, <3>4 DEF Reads
  <2> QED BY <1>8, <2>1, <2>2 DEF Reads
<1>9. CASE Delivers
  <2>1. /\ out # <<>> /\ client' = Append(client, Head(out)) /\ out' = Tail(out)
        /\ pc = "reading" /\ UNCHANGED <<pc, finished, plane>>
    BY <1>9 DEF Delivers, Deliver, Polls
  <2>2. client' \o out' = chunks
    BY <1>1, <2>1, Delivered
  <2> HIDE DEF chunks
  <2> QED BY <2>1, <2>2 DEF EndsOnce, chunks
<1>10. CASE BridgeRelays
  <2> DEFINE p == Head(wire)
             d == DeltaOf(parser, p)
             more == IF d # <<>> THEN Append(out, Delta(d)) ELSE out
  <2>1. p \in AnyPayload
    BY <1>1, <1>10, PayloadsTyped DEF BridgeRelays
  <2>2. ~finished /\ out' = more /\ UNCHANGED <<client, finished, pc, plane>>
    BY <1>10 DEF BridgeRelays, Bridging
  <2> HIDE DEF p
  <2>3. /\ more \in Seq(Chunks) /\ Len(more) >= Len(out)
        /\ \A i \in 1..Len(out) : more[i] = out[i]
        /\ \A i \in 1..Len(more) : i > Len(out) => more[i].kind = "delta"
    BY <1>1, <2>1, DeltaQueued
  <2> HIDE DEF d, more
  <2>4. Len(more) \in Nat /\ Len(out) \in Nat
    BY <1>1, <2>3, LenProperties
  <2>5. Deltas(client) /\ Deltas(out)
    BY <1>1, <1>2, <2>2, DeltasConcat
  <2>6. Deltas(more)
    <3>1. \A i \in 1..Len(more) : i > Len(out) \/ i \in 1..Len(out)
      BY <2>4
    <3> QED BY <2>3, <2>5, <3>1 DEF Deltas
  <2>7. Deltas(client \o more)
    BY <1>1, <2>3, <2>5, <2>6, DeltasConcat
  <2> QED BY <1>4, <2>2, <2>7
<1>11. CASE BridgeCollects
  BY <1>3, <1>11 DEF BridgeCollects, relay
<1>12. CASE Finishes
  BY <1>7, <1>12, ChunkKinds DEF Finishes
<1>13. CASE Errs
  BY <1>7, <1>13 DEF Errs
<1> QED BY <1>5, <1>6, <1>8, <1>9, <1>10, <1>11, <1>12, <1>13, Steps

-----------------------------------------------------------------------------
(* What becomes of the wire.                                               *)
WireTaken(n) == wire' = SubSeq(wire, n + 1, Len(wire)) /\ UNCHANGED upstream

LEMMA WireSteps ==
  ASSUME Typed, ChatNext
  PROVE  \/ wire' = wire /\ UNCHANGED upstream
         \/ \E p \in Payloads : Write(p)
         \/ \E how \in {"eof", "error"}, n \in 0..Len(wire) : Cut(how, n)
         \/ \E n \in 1..Len(wire) : WireTaken(n)
<1>1. CASE Quiet \/ BodyEnds \/ Finishes \/ Errs
  BY <1>1 DEF Quiet, BodyEnds, Finishes, Errs, Ends
<1>2. CASE UpstreamSpeaks
  BY <1>2 DEF UpstreamSpeaks, Breaks
<1>3. ASSUME NEW n \in 1..Len(wire), Reads(n) PROVE WireTaken(n)
  BY <1>3 DEF Reads, CollectChunk, RelayChunk, WireTaken
<1>4. CASE Delivers
  BY <1>4 DEF Delivers, Deliver
<1>5. CASE BridgeRelays \/ BridgeCollects
  <2>1. wire # <<>> /\ wire' = Tail(wire) /\ UNCHANGED upstream
    BY <1>5 DEF BridgeRelays, BridgeCollects
  <2>2. wire \in Seq(Payloads)
    BY DEF Typed, TypeOK
  <2>3. Tail(wire) = SubSeq(wire, 1 + 1, Len(wire)) /\ 1 \in 1..Len(wire)
    <3>1. Tail(wire) = SubSeq(wire, 2, Len(wire)) /\ Len(wire) \in Nat \ {0}
      BY <2>1, <2>2, TailIsSubSeq, EmptySeq
    <3> QED BY <3>1
  <2> QED BY <2>1, <2>3 DEF WireTaken
<1> QED BY <1>1, <1>2, <1>3, <1>4, <1>5, Steps

LEMMA StepDoneLast ==
  ASSUME Typed, DoneLast, Follows, ChatNext
  PROVE  DoneLast'
<1>1. wire \in Seq(Payloads) /\ Len(wire) \in Nat
  BY LenProperties DEF Typed, TypeOK
<1>2. CASE wire' = wire /\ UNCHANGED upstream
  BY <1>2 DEF DoneLast, upstream
<1>3. ASSUME NEW p \in Payloads, Write(p) PROVE DoneLast'
  <2>1. /\ wire' = Append(wire, p) /\ ~upstreamDone
        /\ upstreamDone' = (p.kind = "done")
        /\ lost' = lost /\ ~lost
    BY <1>3 DEF Write, Follows
  <2>2. /\ Len(wire') = Len(wire) + 1 /\ wire'[Len(wire) + 1] = p
        /\ \A i \in 1..Len(wire) : wire'[i] = wire[i]
    BY <1>1, <2>1, AppendProperties
  <2>3. \A i \in 1..Len(wire) : wire[i].kind # "done"
    BY <2>1 DEF DoneLast
  <2>4. \A i \in 1..(Len(wire) + 1) : i \in 1..Len(wire) \/ i = Len(wire) + 1
    BY <1>1
  <2>5. ASSUME NEW i \in 1..Len(wire'), wire'[i].kind = "done"
        PROVE  i = Len(wire') /\ upstreamDone' /\ ~lost'
    <3>1. ~(i \in 1..Len(wire))
      BY <2>2, <2>3, <2>5
    <3>2. i = Len(wire) + 1
      BY <2>2, <2>4, <2>5, <3>1
    <3> QED BY <2>1, <2>2, <2>5, <3>2
  <2> QED BY <2>5 DEF DoneLast
<1>4. ASSUME NEW how \in {"eof", "error"}, NEW n \in 0..Len(wire), Cut(how, n)
      PROVE  DoneLast'
  <2>1. /\ wire' = SubSeq(wire, 1, n) /\ upstreamDone' = upstreamDone
        /\ lost' = (n < Len(wire))
    BY <1>4 DEF Cut
  <2>2. Len(wire') = n /\ \A i \in 1..n : wire'[i] = wire[i]
    BY <1>1, <2>1, Parts
  <2>3. \A i \in 1..n : i \in 1..Len(wire) /\ (i = Len(wire) => i = n /\ ~(n < Len(wire)))
    BY <1>1
  <2> QED BY <2>1, <2>2, <2>3 DEF DoneLast
<1>5. ASSUME NEW n \in 1..Len(wire), WireTaken(n) PROVE DoneLast'
  <2>1. wire' = SubSeq(wire, n + 1, Len(wire)) /\ upstreamDone' = upstreamDone
        /\ n \in 0..Len(wire) /\ lost' = lost
    BY <1>1, <1>5 DEF WireTaken, upstream
  <2>2. Len(wire') = Len(wire) - n /\ \A i \in 1..(Len(wire) - n) : wire'[i] = wire[n + i]
    BY <1>1, <2>1, Parts
  <2>3. \A i \in 1..(Len(wire) - n) :
          n + i \in 1..Len(wire) /\ (n + i = Len(wire) => i = Len(wire) - n)
    BY <1>1
  <2> QED BY <2>1, <2>2, <2>3 DEF DoneLast
<1> QED BY <1>2, <1>3, <1>4, <1>5, WireSteps

LEMMA StepFollows ==
  ASSUME Typed, DoneLast, Follows, ChatNext
  PROVE  Follows'
<1>1. /\ wire \in Seq(Payloads) /\ Len(wire) \in Nat /\ wire \in Seq(AnyPayload)
      /\ parser \in Parsers /\ whole \in Parsers /\ lost \in BOOLEAN
  BY LenProperties, PayloadsTyped DEF Typed, TypeOK
<1>2. line' = "open" => ~lost'
  <2>1. UNCHANGED upstream => UNCHANGED <<line, lost>>
    BY DEF upstream
  <2>2. \A p \in Payloads : Write(p) => UNCHANGED <<line, lost>>
    BY DEF Write
  <2>3. \A how \in {"eof", "error"}, n \in 0..Len(wire) : Cut(how, n) => line' # "open"
    BY DEF Cut
  <2> QED BY <2>1, <2>2, <2>3, WireSteps DEF Follows, WireTaken
<1> SUFFICES ASSUME plane' = "helper" \/ reader' = "relay", ~lost'
             PROVE  Leads(parser', wire', whole')
  BY <1>2 DEF Follows
<1>3. CASE Quiet \/ BodyEnds \/ Finishes \/ Errs \/ Delivers
  <2>1. UNCHANGED <<plane, reader, lost, parser, wire, whole>>
    BY <1>3 DEF Quiet, BodyEnds, Finishes, Errs, Ends, Delivers, Deliver, upstream
  <2> QED BY <2>1 DEF Follows
<1>4. ASSUME NEW p \in Payloads, Write(p), plane' = plane PROVE Leads(parser', wire', whole')
  <2>1. /\ wire' = Append(wire, p) /\ whole' = Feed(whole, p)
        /\ UNCHANGED <<plane, reader, lost, parser>>
    BY <1>4 DEF Write
  <2>2. Leads(parser, wire, whole)
    BY <2>1 DEF Follows
  <2> QED BY <1>1, <2>1, <2>2, LeadsFurther, PayloadsTyped
<1>5. ASSUME NEW how \in {"eof", "error"}, NEW n \in 0..Len(wire), Cut(how, n), plane' = plane
      PROVE  Leads(parser', wire', whole')
  <2>1. /\ line = "open" /\ wire' = SubSeq(wire, 1, n) /\ lost' = (n < Len(wire))
        /\ UNCHANGED <<reader, parser, whole>>
    BY <1>5 DEF Cut
  <2>2. n = Len(wire)
    <3>1. ~(n < Len(wire))
      BY <2>1, Zenon
    <3> QED BY <1>1, <3>1
  <2>3. wire' = wire
    BY <1>1, <2>1, <2>2, SubSeqFull
  <2> QED BY <1>5, <2>1, <2>3 DEF Follows
<1>6. ASSUME NEW n \in 1..Len(wire), Reads(n) PROVE Leads(parser', wire', whole')
  <2>1. CASE CollectChunk(n)
    BY <1>6, <2>1 DEF Reads, CollectChunk
  <2>2. CASE RelayChunk(n)
    <3>1. /\ wire' = SubSeq(wire, n + 1, Len(wire))
          /\ UNCHANGED <<whole, lost>> /\ reader = "relay"
      BY <2>2 DEF RelayChunk, Polls, upstream
    <3>2. PICK h : Path(h, parser, wire) /\ h[Len(wire)] = whole
      BY <3>1 DEF Follows, Leads
    <3>3. n \in 0..Len(wire) /\ n \in 0..n
      BY <1>1
    <3> DEFINE f == [i \in 0..n |-> h[i]]
    <3>4. Path(f, parser, SubSeq(wire, 1, n)) /\ Leads(h[n], SubSeq(wire, n + 1, Len(wire)), whole)
      BY <1>1, <3>2, <3>3, LeadsOn
    <3>5. f[n] = h[n]
      BY <3>3
    <3> HIDE DEF f
    <3>6. parser' = f[n]
      BY <2>2, <3>4, RelayChunkReads
    <3> QED BY <3>1, <3>4, <3>5, <3>6
  <2> QED BY <1>6, <2>1, <2>2 DEF Reads
<1>7. CASE BridgeRelays \/ BridgeCollects
  <2>1. /\ wire # <<>> /\ wire' = Tail(wire) /\ parser' = Feed(parser, Head(wire))
        /\ UNCHANGED <<whole, lost, plane>> /\ plane = "helper"
    BY <1>7 DEF BridgeRelays, BridgeCollects, Bridging, upstream
  <2>2. Leads(parser, wire, whole)
    BY <2>1 DEF Follows
  <2> QED BY <1>1, <2>1, <2>2, LeadsAfterHead
<1>8. CASE UpstreamSpeaks
  BY <1>4, <1>5, <1>8 DEF UpstreamSpeaks, Breaks
<1> QED BY <1>3, <1>6, <1>7, <1>8, Steps

LEMMA StepDrained ==
  ASSUME Typed, DoneLast, Drained, ChatNext
  PROVE  Drained'
<1>1. /\ wire \in Seq(Payloads) /\ Len(wire) \in Nat
      /\ client \in Seq(Chunks) /\ out \in Seq(Chunks)
  BY LenProperties DEF Typed, TypeOK
<1>2. AllRead => AllRead'
  <2> SUFFICES ASSUME wire = <<>>,
                      (upstreamDone /\ ~lost) \/ line = "eof"
               PROVE  AllRead'
    BY DEF AllRead
  <2>1. Len(wire) = 0
    BY EmptySeq
  <2>2. ASSUME NEW how \in {"eof", "error"}, NEW n \in 0..Len(wire), Cut(how, n)
        PROVE  AllRead'
    <3>1. n = 0 /\ n < 1
      BY <2>1
    <3>2. /\ wire' = SubSeq(wire, 1, n) /\ line = "open" /\ upstreamDone' = upstreamDone
          /\ lost' = (n < Len(wire))
      BY <2>2 DEF Cut
    <3>3. ~(n < Len(wire)) /\ wire' = <<>>
      BY <2>1, <3>1, <3>2, SubSeqEmpty
    <3> QED BY <3>2, <3>3 DEF AllRead
  <2>3. ~ \E n \in 1..Len(wire) : WireTaken(n)
    BY <2>1
  <2>4. ~ \E p \in Payloads : Write(p)
    BY DEF Write
  <2>5. CASE wire' = wire /\ UNCHANGED upstream
    BY <2>5 DEF AllRead, upstream
  <2> QED BY <2>2, <2>3, <2>4, <2>5, WireSteps
<1>3. ASSUME bodyDone' => bodyDone, stage' = "over" => stage = "over",
             plane' = plane, finished' = finished, client' \o out' = client \o out
      PROVE  Drained'
  BY <1>2, <1>3 DEF Drained, NoError
<1>4. CASE Quiet \/ UpstreamSpeaks
  BY <1>3, <1>4 DEF Quiet, UpstreamSpeaks, Write, Breaks, Cut, relay
<1>5. CASE BodyEnds
  <2>1. AllRead
    BY <1>5 DEF BodyEnds, AllRead
  <2> QED BY <1>2, <2>1 DEF Drained
<1>6. CASE Finishes
  <2>1. AllRead
    BY <1>6 DEF Finishes, Drained, AllRead
  <2> QED BY <1>2, <2>1 DEF Drained
<1>7. CASE Errs
  <2>1. /\ plane' = plane /\ stage' = stage /\ bodyDone' = bodyDone
        /\ client' \o out' = client \o (out \o <<ErrorChunk, DoneChunk>>)
    BY <1>7 DEF Errs, Ends
  <2>2. client \o (out \o <<ErrorChunk, DoneChunk>>)
          = (client \o out) \o <<ErrorChunk, DoneChunk>>
    <3>1. <<ErrorChunk, DoneChunk>> \in Seq(Chunks)
      BY ChunkKinds
    <3> QED BY <1>1, <3>1, ConcatAssociative
  <2>3. client \o out \in Seq(Chunks) /\ Len(client \o out) \in Nat
    BY <1>1, ConcatProperties, LenProperties
  <2> DEFINE more == (client \o out) \o <<ErrorChunk, DoneChunk>>
             m == Len(client \o out)
  <2>4. Len(more) = m + 2 /\ more[m + 1] = ErrorChunk
    BY <2>3, EndQueued
  <2>5. m \in Nat
    BY <2>3
  <2> HIDE DEF more, m
  <2>6. ~NoError(more)
    <3>1. m + 1 \in 1..Len(more)
      BY <2>4, <2>5
    <3> QED BY <2>4, <3>1 DEF NoError
  <2>7. ~NoError(client' \o out')
    BY <2>1, <2>2, <2>6 DEF more
  <2> QED BY <1>2, <2>1, <2>7 DEF Drained
<1>8. ASSUME NEW n \in 1..Len(wire), Reads(n) PROVE Drained'
  <2>1. CASE CollectChunk(n)
    BY <1>3, <1>8, <2>1 DEF Reads, CollectChunk, relay
  <2>2. CASE RelayChunk(n)
    <3>1. bodyDone' => wire' = <<>> /\ upstreamDone /\ ~lost
      BY <2>2, RelayChunkReads
    <3>2. upstreamDone' = upstreamDone /\ lost' = lost /\ plane' = "upstream" /\ stage' = stage
      BY <1>8, <2>2 DEF Reads, RelayChunk, upstream
    <3> QED BY <1>2, <3>1, <3>2 DEF Drained, AllRead
  <2> QED BY <1>8, <2>1, <2>2 DEF Reads
<1>9. CASE Delivers
  <2>1. /\ out # <<>> /\ client' = Append(client, Head(out)) /\ out' = Tail(out)
        /\ UNCHANGED <<bodyDone, stage, plane, finished>>
    BY <1>9 DEF Delivers, Deliver
  <2>2. client' \o out' = client \o out
    BY <1>1, <2>1, Delivered
  <2> QED BY <1>3, <2>1, <2>2
<1>10. CASE BridgeRelays \/ BridgeCollects
  <2>1. /\ wire # <<>> /\ wire' = Tail(wire) /\ ~finished'
        /\ UNCHANGED <<bodyDone, upstreamDone, lost>>
        /\ stage' = "over" => Head(wire).kind = "done"
    BY <1>10 DEF BridgeRelays, BridgeCollects, Bridging, upstream, relay
  <2>2. stage' = "over" => AllRead'
    <3> SUFFICES ASSUME Head(wire).kind = "done" PROVE AllRead'
      BY <2>1
    <3>1. /\ Head(wire) = wire[1] /\ Len(wire) \in Nat \ {0}
          /\ Tail(wire) \in Seq(Payloads) /\ Len(Tail(wire)) = Len(wire) - 1
      BY <1>1, <2>1, PayloadsTyped
    <3>2. 1 \in 1..Len(wire)
      BY <3>1
    <3>3. 1 = Len(wire) /\ upstreamDone /\ ~lost
      BY <3>1, <3>2 DEF DoneLast
    <3>4. Tail(wire) = <<>>
      <4>1. Len(wire) - 1 = 0
        BY <3>3
      <4>2. Len(Tail(wire)) = 0
        BY <3>1, <4>1, Zenon
      <4> QED BY <3>1, <4>2, EmptySeq
    <3> QED BY <2>1, <3>3, <3>4 DEF AllRead
  <2> QED BY <1>2, <2>1, <2>2 DEF Drained
<1> QED BY <1>4, <1>5, <1>6, <1>7, <1>8, <1>9, <1>10, Steps

LEMMA StepHeard ==
  ASSUME Typed, DoneLast, Follows, HeardAll, ChatNext
  PROVE  HeardAll'
<1>1. /\ wire \in Seq(Payloads) /\ Len(wire) \in Nat
      /\ plane \in {"upstream", "helper"} /\ reader \in {"collect", "relay"}
  BY LenProperties DEF Typed, TypeOK
<1>2. plane' = plane
  BY DEF ChatNext, Begins, Refuse, Open, OpenFails, Settled, UpstreamSpeaks, RuntimeReads,
         Bridge, BridgeRelays, BridgeCollects, BridgeEnds, BridgeRaises, Forward, BridgeLost,
         ChatClientLeaves
<1> SUFFICES ASSUME plane = "helper" PROVE HeardAll'
  BY <1>2 DEF HeardAll
<1>3. CASE Quiet
  BY <1>3 DEF Quiet, HeardAll, upstream
<1>4. CASE BodyEnds \/ Finishes \/ Errs \/ Delivers
  <2>1. UNCHANGED <<reader, plane, stage, wire, upstreamDone, lost, line, parser, pc, heard>>
    BY <1>4 DEF BodyEnds, Finishes, Errs, Ends, Delivers, Deliver, upstream
  <2> QED BY <2>1 DEF HeardAll
<1>5. ASSUME NEW p \in Payloads, Write(p), UNCHANGED <<plane, stage, heard>>
      PROVE  HeardAll'
  <2>1. /\ wire' = Append(wire, p) /\ upstreamDone' = (p.kind = "done") /\ line = "open"
        /\ UNCHANGED <<reader, plane, stage, lost, parser, pc, heard, line>>
    BY <1>5 DEF Write
  <2>2. wire' # <<>> /\ Len(wire') = Len(wire) + 1 /\ wire'[Len(wire) + 1] = p
    BY <1>1, <2>1, AppendProperties
  <2>3. reader' = "collect" /\ pc' = "returned" => stage' = "over"
    BY <2>1 DEF HeardAll
  <2>4. reader' = "collect" /\ stage' = "over" /\ parser'.text # <<>> => heard' = parser'.text
    BY <2>1 DEF HeardAll
  <2>5. upstreamDone' => wire'[Len(wire')].kind = "done"
    BY <2>1, <2>2
  <2> QED BY <2>2, <2>3, <2>4, <2>5 DEF HeardAll
<1>6. ASSUME NEW how \in {"eof", "error"}, NEW n \in 0..Len(wire), Cut(how, n),
             UNCHANGED <<plane, stage, heard>>
      PROVE  HeardAll'
  <2>1. /\ line = "open" /\ wire' = SubSeq(wire, 1, n) /\ lost' = (n < Len(wire))
        /\ UNCHANGED <<reader, plane, stage, upstreamDone, parser, pc, heard>>
    BY <1>6 DEF Cut
  <2>2. reader' = "collect" /\ pc' = "returned" => stage' = "over"
    BY <2>1 DEF HeardAll
  <2>3. reader' = "collect" /\ stage' = "over" /\ parser'.text # <<>> => heard' = parser'.text
    BY <2>1 DEF HeardAll
  <2>4. ASSUME upstreamDone', ~lost', stage' # "over"
        PROVE  wire' # <<>> /\ wire'[Len(wire')].kind = "done"
    <3>1. ~(n < Len(wire))
      BY <2>1, <2>4, Zenon
    <3>2. n = Len(wire)
      BY <1>1, <3>1
    <3>3. wire' = wire
      BY <1>1, <2>1, <3>2, SubSeqFull
    <3>4. ~lost
      BY <2>1 DEF Follows
    <3> QED BY <2>1, <2>4, <3>3, <3>4 DEF HeardAll
  <2> QED BY <2>2, <2>3, <2>4 DEF HeardAll
<1>7. CASE UpstreamSpeaks
  BY <1>5, <1>6, <1>7 DEF UpstreamSpeaks, Breaks
<1>8. CASE \E n \in 1..Len(wire) : Reads(n)
  BY <1>8 DEF Reads
<1>9. CASE BridgeRelays \/ BridgeCollects
  <2> DEFINE p == Head(wire)
  <2>1. /\ wire # <<>> /\ wire' = Tail(wire) /\ pc' = "reading" /\ stage = "talking"
        /\ UNCHANGED <<upstreamDone, lost>>
        /\ p.kind # "done" => stage' = "talking"
        /\ p.kind = "done" => stage' = "over"
    BY <1>9 DEF BridgeRelays, BridgeCollects, Bridging, upstream
  <2>2. /\ p = wire[1] /\ Len(wire) \in Nat \ {0}
        /\ Tail(wire) \in Seq(Payloads) /\ Len(Tail(wire)) = Len(wire) - 1
        /\ \A i \in 1..(Len(wire) - 1) : Tail(wire)[i] = wire[i + 1]
    BY <1>1, <2>1, PayloadsTyped
  <2>3. ASSUME upstreamDone', ~lost', stage' # "over"
        PROVE  wire' # <<>> /\ wire'[Len(wire')].kind = "done"
    <3>1. p.kind # "done" /\ wire[Len(wire)].kind = "done"
      BY <2>1, <2>3 DEF HeardAll
    <3>2. Len(wire) # 1 /\ Len(wire) - 1 \in 1..(Len(wire) - 1)
      BY <2>2, <3>1
    <3>3. Tail(wire)[Len(wire) - 1] = wire[(Len(wire) - 1) + 1]
          /\ (Len(wire) - 1) + 1 = Len(wire)
      BY <2>2, <3>2
    <3>4. Tail(wire) # <<>>
      <4>1. Len(wire) - 1 # 0
        BY <2>2, <3>2
      <4>2. Len(Tail(wire)) # 0
        BY <2>2, <4>1, Zenon
      <4> QED BY <4>2, EmptySeq
    <3> QED BY <2>1, <2>2, <3>1, <3>3, <3>4
  <2>4. ASSUME reader' = "collect", stage' = "over", parser'.text # <<>>
        PROVE  heard' = parser'.text
    <3>1. reader = "collect" /\ BridgeCollects
      BY <1>9, <2>4 DEF BridgeRelays, BridgeCollects
    <3>2. p.kind = "done"
      BY <2>1, <2>4
    <3>3. parser' = parser
      BY <3>1, <3>2 DEF BridgeCollects, Feed
    <3> QED BY <2>4, <3>1, <3>2, <3>3 DEF BridgeCollects
  <2> QED BY <2>1, <2>3, <2>4 DEF HeardAll
<1> QED BY <1>3, <1>4, <1>7, <1>8, <1>9, Steps

-----------------------------------------------------------------------------
LEMMA ChatInitOK == ChatInit => ChatInv
<1> SUFFICES ASSUME ChatInit PROVE ChatInv
  OBVIOUS
<1>1. /\ Len(<<>>) = 0 /\ <<>> \in Seq(Payloads) /\ <<>> \in Seq(Chunks)
      /\ <<>> \in Seq(STRING)
  BY EmptySeq
<1>2. /\ parser = NewParser /\ whole = NewParser /\ wire = <<>> /\ line = "open"
      /\ out = <<>> /\ client = <<>> /\ stage = "asking" /\ pc = "reading"
      /\ ~bodyDone /\ ~finished /\ ~lost /\ ~upstreamDone
  BY DEF ChatInit, Init
<1>3. NewParser \in Parsers /\ NewParser.text = <<>>
  BY NewParserTyped DEF NewParser
<1>4. Typed
  <2>1. 0 \in 0..MaxPayloads
    BY MaxPayloadsAssumption
  <2>2. /\ plane \in {"upstream", "helper"} /\ reader \in {"collect", "relay"}
        /\ heard = <<>> /\ written = 0 /\ Len(wire) <= written
        /\ bodyDone = FALSE /\ finished = FALSE /\ lost = FALSE /\ upstreamDone = FALSE
        /\ rewritten = FALSE
    BY <1>1, <1>2 DEF ChatInit, Init
  <2> QED BY <1>1, <1>2, <1>3, <2>1, <2>2 DEF Typed, TypeOK
<1>5. client \o out = <<>>
  BY <1>1, <1>2, ConcatEmptySeq
<1>6. DeltasSpellText
  <2>1. ~rewritten
    BY DEF ChatInit, Init
  <2> QED BY <1>2, <1>3, <1>5, <2>1, TextOfNone DEF DeltasSpellText, Spells
<1>7. EndsOnce
  BY <1>1, <1>2, <1>5 DEF EndsOnce
<1>8. DoneLast
  BY <1>1, <1>2 DEF DoneLast
<1>9. Follows
  BY <1>2, <1>3, LeadsNowhere DEF Follows
<1>10. Drained /\ HeardAll
  BY <1>2 DEF Drained, HeardAll
<1> QED BY <1>4, <1>6, <1>7, <1>8, <1>9, <1>10 DEF ChatInv

LEMMA ChatStutters == ChatInv /\ UNCHANGED chatVars => ChatInv'
<1> SUFFICES ASSUME ChatInv, UNCHANGED chatVars PROVE ChatInv'
  OBVIOUS
<1>1. /\ UNCHANGED <<reader, line, wire, parser, pc, bodyDone, finished, out, client>>
      /\ UNCHANGED <<written, whole, upstreamDone, lost, rewritten, plane, stage, heard>>
  BY DEF chatVars, vars, upstream, relay
<1>2. Typed'
  BY <1>1 DEF ChatInv, Typed, TypeOK
<1>3. DeltasSpellText'
  BY <1>1 DEF ChatInv, DeltasSpellText, Spells
<1>4. EndsOnce'
  BY <1>1 DEF ChatInv, EndsOnce
<1>5. DoneLast' /\ Follows' /\ HeardAll'
  BY <1>1 DEF ChatInv, DoneLast, Follows, HeardAll
<1>6. Drained'
  BY <1>1 DEF ChatInv, Drained, AllRead, NoError
<1> QED BY <1>2, <1>3, <1>4, <1>5, <1>6 DEF ChatInv

LEMMA ChatNextOK == ChatInv /\ [ChatNext]_chatVars => ChatInv'
<1> SUFFICES ASSUME ChatInv, ChatNext PROVE ChatInv'
  BY ChatStutters
<1> QED
  BY StepTyped, StepSpells, StepEnds, StepDoneLast, StepFollows, StepDrained, StepHeard
     DEF ChatInv

LEMMA ChatInductive == Chat => []ChatInv
BY ChatInitOK, ChatNextOK, PTL DEF Chat

-----------------------------------------------------------------------------
(* Every variable keeps its type.                                          *)
THEOREM ChatTypeCorrect == Chat => []TypeOK
<1>1. ChatInv => TypeOK
  BY DEF ChatInv, Typed
<1> QED BY <1>1, ChatInductive, PTL

(* Whatever the chunks the payloads came in, the client's deltas and those *)
(* under way spell out what has been read: exactly, and from a rewriting   *)
(* on with the text as rewritten in full at their end.                     *)
THEOREM ClientsHearTheText == Chat => []DeltasSpellText
<1>1. ChatInv => DeltasSpellText
  BY DEF ChatInv
<1> QED BY <1>1, ChatInductive, PTL

(* As long as the connection loses nothing, what is on the wire leads the  *)
(* reader's parser to where a parser is that missed nothing: no way to cut *)
(* the payloads into chunks skips one or takes one up twice.  run_text     *)
(* alone is left out: it stops early                                       *)
(* (openai_stream.rs:107-133, protocol_bridge.py:390-405, 690-718).        *)
THEOREM ReadersFollow ==
  Chat => [](~lost /\ (plane = "helper" \/ reader = "relay") =>
               Leads(parser, wire, whole))
<1>1. ChatInv => (~lost /\ (plane = "helper" \/ reader = "relay") =>
                    Leads(parser, wire, whole))
  BY DEF ChatInv, Follows
<1> QED BY <1>1, ChatInductive, PTL

(* A stream has one end: its last two chunks.                              *)
THEOREM StreamsEndOnce == Chat => []EndsOnce
<1>1. ChatInv => EndsOnce
  BY DEF ChatInv
<1> QED BY <1>1, ChatInductive, PTL

(* Who was told of the end without an error was given the whole reply.     *)
LEMMA InvWhole == ChatInv => RepliesAreWhole
<1> SUFFICES ASSUME ChatInv, ~ClosedEarly PROVE
      /\ reader = "relay" /\ pc = "ended" /\ NoError(client)
           => Spells(TextOf(client), whole.text)
      /\ plane = "helper" /\ pc = "returned" /\ upstreamDone /\ whole.text # <<>>
           => heard = whole.text
  BY DEF RepliesAreWhole, NoError
<1>1. /\ Typed /\ DeltasSpellText /\ EndsOnce /\ Follows /\ Drained /\ HeardAll
      /\ plane \in {"upstream", "helper"} /\ reader \in {"collect", "relay"}
      /\ client \in Seq(Chunks)
  BY DEF ChatInv, Typed, TypeOK
<1>2. ASSUME AllRead, plane = "helper" \/ reader = "relay" PROVE ~lost /\ parser = whole
  <2>1. ~lost
    BY <1>2 DEF AllRead, ClosedEarly
  <2> QED BY <1>1, <1>2, <2>1, LeadsNowhere DEF AllRead, Follows
<1>3. ASSUME reader = "relay", pc = "ended", NoError(client)
      PROVE  Spells(TextOf(client), whole.text)
  <2>1. finished /\ client \o out = client
    <3>1. finished /\ out = <<>>
      BY <1>1, <1>3 DEF EndsOnce
    <3> QED BY <1>1, <3>1, ConcatEmptySeq
  <2>2. AllRead
    <3>1. plane = "upstream" => bodyDone
      BY <1>1, <2>1 DEF Typed, TypeOK
    <3> QED BY <1>1, <1>3, <2>1, <3>1 DEF Drained
  <2>3. Spells(TextOf(client), parser.text)
    BY <1>1, <1>3, <2>1 DEF DeltasSpellText
  <2> QED BY <1>2, <1>3, <2>2, <2>3
<1>4. ASSUME plane = "helper", pc = "returned", upstreamDone, whole.text # <<>>
      PROVE  heard = whole.text
  <2>1. reader = "collect"
    BY <1>1, <1>4 DEF Typed, TypeOK
  <2>2. stage = "over"
    <3>1. CASE line = "eof" /\ wire = <<>> /\ stage # "over"
      <4>1. ~lost
        BY <3>1 DEF ClosedEarly
      <4> QED BY <1>1, <1>4, <3>1, <4>1 DEF HeardAll
    <3> QED BY <1>1, <1>4, <2>1, <3>1 DEF HeardAll
  <2>3. parser = whole
    BY <1>1, <1>2, <1>4, <2>2 DEF Drained
  <2> QED BY <1>1, <1>4, <2>1, <2>2, <2>3 DEF HeardAll
<1> QED BY <1>3, <1>4

(* A reply given without an error is the whole reply, whatever the network *)
(* cut off or lost, the upstream rewrote or the timeouts broke off, unless *)
(* the connection was closed early in good order.                          *)
THEOREM WholeReplies == Chat => []RepliesAreWhole
BY InvWhole, ChatInductive, PTL
=============================================================================
