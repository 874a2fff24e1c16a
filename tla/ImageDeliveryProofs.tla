------------------------- MODULE ImageDeliveryProofs -------------------------
(***************************************************************************)
(* Proofs about ImageDelivery: first its run of one image (UpstreamImage), *)
(* for every set of payloads, whatever their references, every length of a *)
(* chunk and every number of polls and attempts; then what a link opens,   *)
(* for every number of clients, images, restarts and seconds and whatever  *)
(* the run does.                                                           *)
(*                                                                         *)
(* The run asks its candidates in order, so what `next` has passed was     *)
(* asked for; the parser holds nothing that was not shown.  The store's    *)
(* invariant ties the three places an expiry is kept in: the map, the link *)
(* and a request between its two looks at the clock.                       *)
(***************************************************************************)
EXTENDS ImageDelivery, SseParserProofs

-----------------------------------------------------------------------------
(* The run.                                                                *)

References(s) == ToSet(s.files) \cup ToSet(s.sediments)

RunTyped ==
  /\ parser \in Parsers
  /\ next \in Nat \ {0} /\ polls \in 0..Polls

(* Whatever the parser holds, the upstream or a task has shown.            *)
FoundShown == References(parser) \subseteq shown

(* What next has passed was asked for, and what is downloaded is next.     *)
AskedInOrder ==
  /\ \A i \in 1..(next - 1) : i <= Len(Candidates) => Candidates[i] \in lookedUp
  /\ pc \in Starting \cup {"streaming"} => next = 1
  /\ url # "none" => /\ pc \in {"downloading", "done"}
                     /\ next \in 1..Len(Candidates)
                     /\ url = Candidates[next]

(* No more is asked for only after the last candidate and the last poll.   *)
GivenUp ==
  /\ pc = "polling" => next > Len(Candidates) /\ polls < Polls
  /\ failure = "no_url" => /\ pc = "done"
                           /\ next > Len(Candidates)
                           /\ ~parser.cid \/ polls = Polls

RunInv == RunTyped /\ FoundShown /\ AskedInOrder /\ GivenUp

Consumption == [parser : Parsers, stop : {"no", "ready", "done"}]

LEMMA ConsumedTyped ==
  ASSUME NEW acc \in Consumption, NEW p \in AnyPayload
  PROVE  Consumed(acc, p) \in Consumption
<1>1. Feed(acc.parser, p) \in Parsers
  BY FeedTyped DEF Consumption
<1> QED BY <1>1 DEF Consumed, Consumption

(* What the parser holds after a chunk it held before, or the chunk showed.*)
LEMMA ChunkTakesUp ==
  ASSUME NEW chunk \in Seq(Payloads), NEW start \in Consumption
  PROVE  LET got == Fold(Consumed, start, chunk)
         IN /\ got \in Consumption
            /\ References(got.parser) \subseteq References(start.parser) \cup Shown(chunk)
            /\ NamedOnce(start.parser) =>
                 NamedOnce(got.parser) /\ KeepsKnown(start.parser, got.parser)
<1> DEFINE N == Len(chunk)
           step == [n \in 1..N |-> [acc \in Consumption |-> Consumed(acc, chunk[n])]]
           Is(f) == f = [n \in 0..N |-> IF n = 0 THEN start
                                        ELSE Consumed(f[n - 1], chunk[n])]
           g == CHOOSE f : Is(f)
<1>1. N \in Nat /\ \A n \in 1..N : chunk[n] \in AnyPayload
  BY LenProperties, ElementOfSeq, PayloadsAssumption
<1>2. step \in [1..N -> [Consumption -> Consumption]]
  BY <1>1, ConsumedTyped
<1>3. Fold(Consumed, start, chunk) = g[N]
  BY DEF Fold
<1>4. \A n \in 1..N : chunk[n].kind # "user" => References(chunk[n]) \subseteq Shown(chunk)
  BY DEF Shown, References
<1> HIDE DEF N
<1>5. PICK f : Iterates(f, Consumption, start, N, step)
  <2> HIDE DEF step
  <2> QED BY <1>1, <1>2, IterationExists
<1>6. \A n \in 0..N : n = 0 \/ (n \in 1..N /\ n - 1 \in 0..N)
  BY <1>1
<1>7. \A n \in 1..N, acc \in Consumption : step[n][acc] = Consumed(acc, chunk[n])
  OBVIOUS
<1> HIDE DEF step
<1>8. Is(f)
  BY <1>5, <1>6, <1>7 DEF Iterates
<1>9. Is(g)
  BY <1>8
<1> HIDE DEF g
<1>10. /\ g = [n \in 0..N |-> g[n]] /\ g[0] = start
       /\ \A n \in 1..N : g[n] = Consumed(g[n - 1], chunk[n])
  <2>1. 0 \in 0..N /\ \A n \in 1..N : n \in 0..N /\ n # 0
    BY <1>1
  <2>2. g = [n \in 0..N |-> g[n]] /\ g[0] = start
    BY <1>9, <2>1
  <2>3. \A n \in 1..N : g[n] = Consumed(g[n - 1], chunk[n])
    BY <1>9, <2>1
  <2> QED BY <2>2, <2>3
<1>11. Iterates(g, Consumption, start, N, step)
  <2>1. \A n \in 1..N : g[n - 1] \in Consumption => g[n] = step[n][g[n - 1]]
    BY <1>7, <1>10
  <2> QED BY <1>1, <1>2, <1>10, <2>1, IterationStays
<1>12. g \in [0..N -> Consumption]
  BY <1>11 DEF Iterates
<1> DEFINE Bound == References(start.parser) \cup Shown(chunk)
           Kept(s) == NamedOnce(start.parser) => NamedOnce(s) /\ KeepsKnown(start.parser, s)
           T == {k \in Nat : k <= N =>
                   References(g[k].parser) \subseteq Bound /\ Kept(g[k].parser)}
<1>13. 0 \in T
  <2>1. start.parser.files \in Seq(STRING) /\ start.parser.sediments \in Seq(STRING)
    BY DEF Consumption, Parsers
  <2> QED BY <1>10, <2>1, KeepsAll DEF KeepsKnown
<1>14. ASSUME NEW k \in Nat, k \in T PROVE k + 1 \in T
  <2> SUFFICES ASSUME k + 1 <= N
               PROVE  References(g[k + 1].parser) \subseteq Bound /\ Kept(g[k + 1].parser)
    OBVIOUS
  <2> DEFINE acc == g[k]
             p == chunk[k + 1]
  <2>1. k \in 0..N /\ k + 1 \in 1..N /\ (k + 1) - 1 = k
    BY <1>1
  <2>2. acc \in Consumption /\ p \in AnyPayload /\ g[k + 1] = Consumed(acc, p)
    BY <1>1, <1>10, <1>12, <2>1
  <2>3. References(acc.parser) \subseteq Bound /\ Kept(acc.parser)
    BY <1>14, <2>1
  <2>4. p.kind # "user" => References(p) \subseteq Shown(chunk)
    BY <1>4, <2>1
  <2> HIDE DEF acc, p
  <2>5. References(Feed(acc.parser, p)) \subseteq Bound
    BY <2>2, <2>3, <2>4, FeedTakesUp DEF References, Consumption
  <2>6. Kept(Feed(acc.parser, p))
    <3> SUFFICES ASSUME NamedOnce(start.parser)
                 PROVE  /\ NamedOnce(Feed(acc.parser, p))
                        /\ KeepsKnown(start.parser, Feed(acc.parser, p))
      OBVIOUS
    <3>1. /\ start.parser \in Parsers /\ acc.parser \in Parsers
          /\ Feed(acc.parser, p) \in Parsers
      BY <2>2, FeedTyped DEF Consumption
    <3>2. NamedOnce(acc.parser) /\ KeepsKnown(start.parser, acc.parser)
      BY <2>3
    <3>3. NamedOnce(Feed(acc.parser, p)) /\ KeepsKnown(acc.parser, Feed(acc.parser, p))
      BY <2>2, <3>1, <3>2, FeedKeeps
    <3> QED BY <3>1, <3>2, <3>3, KeepsAll DEF KeepsKnown, Parsers
  <2> HIDE DEF Bound, Kept
  <2> QED BY <2>2, <2>3, <2>5, <2>6 DEF Consumed
<1> HIDE DEF T
<1>15. N \in T
  BY <1>1, <1>13, <1>14, Induction
<1>16. References(g[N].parser) \subseteq Bound /\ Kept(g[N].parser)
  BY <1>1, <1>15 DEF T
<1> QED BY <1>1, <1>3, <1>12, <1>16

(* Skipping the placeholder leaves the other files.                        *)
LEMMA SkippingLeaves ==
  ASSUME NEW ids \in Seq(STRING)
  PROVE  LET left == Fold(NotSkipped, <<>>, ids)
         IN left \in Seq(STRING) /\ ToSet(left) = ToSet(ids) \ {Upload}
<1> DEFINE N == Len(ids)
           Q == Seq(STRING)
           step == [n \in 1..N |-> [s \in Q |-> NotSkipped(s, ids[n])]]
           Is(f) == f = [n \in 0..N |-> IF n = 0 THEN <<>>
                                        ELSE NotSkipped(f[n - 1], ids[n])]
           g == CHOOSE f : Is(f)
<1>1. /\ N \in Nat /\ DOMAIN ids = 1..N /\ \A n \in 1..N : ids[n] \in STRING
      /\ <<>> \in Q
  BY LenProperties, ElementOfSeq, EmptySeq
<1>2. step \in [1..N -> [Q -> Q]]
  BY <1>1, AppendProperties DEF NotSkipped
<1>3. Fold(NotSkipped, <<>>, ids) = g[N]
  BY DEF Fold
<1> HIDE DEF N, Q
<1>4. PICK f : Iterates(f, Q, <<>>, N, step)
  <2> HIDE DEF step
  <2> QED BY <1>1, <1>2, IterationExists
<1>5. \A n \in 0..N : n = 0 \/ (n \in 1..N /\ n - 1 \in 0..N)
  BY <1>1
<1>6. \A n \in 1..N, s \in Q : step[n][s] = NotSkipped(s, ids[n])
  OBVIOUS
<1> HIDE DEF step
<1>7. Is(f)
  BY <1>4, <1>5, <1>6 DEF Iterates
<1>8. Is(g)
  BY <1>7
<1> HIDE DEF g
<1>9. /\ g = [n \in 0..N |-> g[n]] /\ g[0] = <<>>
      /\ \A n \in 1..N : g[n] = NotSkipped(g[n - 1], ids[n])
  <2>1. 0 \in 0..N /\ \A n \in 1..N : n \in 0..N /\ n # 0
    BY <1>1
  <2>2. g = [n \in 0..N |-> g[n]] /\ g[0] = <<>>
    BY <1>8, <2>1
  <2>3. \A n \in 1..N : g[n] = NotSkipped(g[n - 1], ids[n])
    BY <1>8, <2>1
  <2> QED BY <2>2, <2>3
<1>10. Iterates(g, Q, <<>>, N, step)
  <2>1. \A n \in 1..N : g[n - 1] \in Q => g[n] = step[n][g[n - 1]]
    BY <1>6, <1>9
  <2> QED BY <1>1, <1>2, <1>9, <2>1, IterationStays
<1>11. g \in [0..N -> Q]
  BY <1>10 DEF Iterates
<1> DEFINE T == {k \in Nat : k <= N =>
                   ToSet(g[k]) = {ids[n] : n \in 1..k} \ {Upload}}
<1>12. 0 \in T
  BY <1>9 DEF ToSet
<1>13. ASSUME NEW k \in Nat, k \in T PROVE k + 1 \in T
  <2> SUFFICES ASSUME k + 1 <= N
               PROVE  ToSet(g[k + 1]) = {ids[n] : n \in 1..(k+1)} \ {Upload}
    OBVIOUS
  <2>1. k \in 0..N /\ k + 1 \in 1..N /\ (k + 1) - 1 = k
    BY <1>1
  <2>2. g[k] \in Seq(STRING) /\ ids[k + 1] \in STRING
        /\ g[k + 1] = NotSkipped(g[k], ids[k + 1])
    BY <1>1, <1>9, <1>11, <2>1 DEF Q
  <2>3. ToSet(g[k]) = {ids[n] : n \in 1..k} \ {Upload}
    BY <1>13, <2>1
  <2>4. {ids[n] : n \in 1..(k+1)} = {ids[n] : n \in 1..k} \cup {ids[k + 1]}
    <3>1. 1..(k+1) = 1..k \cup {k + 1}
      OBVIOUS
    <3> QED BY <3>1
  <2>5. ToSet(g[k + 1]) = ToSet(g[k]) \cup ({ids[k + 1]} \ {Upload})
    BY <2>2, ToSetAppend DEF NotSkipped
  <2> QED BY <2>3, <2>4, <2>5
<1> HIDE DEF T
<1>14. N \in T
  BY <1>1, <1>12, <1>13, Induction
<1>15. ToSet(g[N]) = {ids[n] : n \in 1..N} \ {Upload}
  BY <1>1, <1>14 DEF T
<1>16. ToSet(ids) = {ids[n] : n \in 1..N}
  BY <1>1 DEF ToSet
<1> QED BY <1>1, <1>3, <1>11, <1>15, <1>16 DEF Q

(* The candidates: the files but the placeholder, then the sediments.      *)
LEMMA CandidatesAre ==
  ASSUME parser \in Parsers
  PROVE  /\ Files \in Seq(STRING) /\ Candidates \in Seq(STRING)
         /\ ToSet(Files) = ToSet(parser.files) \ {Upload}
         /\ Len(Files) \in Nat /\ Len(Candidates) \in Nat
         /\ Len(Files) <= Len(Candidates)
         /\ \A i \in 1..Len(Files) : Candidates[i] = Files[i]
         /\ \A i \in 1..Len(Candidates) :
              /\ i > Len(Files) => Candidates[i] \in ToSet(parser.sediments)
              /\ i <= Len(Files) => Candidates[i] \in ToSet(Files)
<1>1. parser.files \in Seq(STRING) /\ parser.sediments \in Seq(STRING)
  BY DEF Parsers
<1>2. Files \in Seq(STRING) /\ ToSet(Files) = ToSet(parser.files) \ {Upload}
  BY <1>1, SkippingLeaves DEF Files
<1>3. Sediments \in Seq(STRING) /\ ToSet(Sediments) \subseteq ToSet(parser.sediments)
  <2>1. CASE parser.cid
    BY <1>1, <2>1 DEF Sediments
  <2>2. CASE ~parser.cid
    <3>1. Sediments = <<>>
      BY <2>2 DEF Sediments
    <3>2. <<>> \in Seq(STRING) /\ DOMAIN <<>> = 1..0
      BY EmptySeq, LenProperties
    <3>3. ToSet(<<>>) = {}
      BY <3>2 DEF ToSet
    <3> QED BY <3>1, <3>2, <3>3
  <2> QED BY <2>1, <2>2
<1> DEFINE m == Len(Files)
           n == Len(Sediments)
<1>4. /\ m \in Nat /\ n \in Nat
      /\ DOMAIN Files = 1..m /\ DOMAIN Sediments = 1..n
  BY <1>2, <1>3, LenProperties
<1>5. /\ Candidates \in Seq(STRING) /\ Len(Candidates) = m + n
      /\ \A i \in 1..(m + n) : Candidates[i] = IF i <= m THEN Files[i] ELSE Sediments[i - m]
  BY <1>2, <1>3, ConcatProperties DEF Candidates
<1> HIDE DEF m, n
<1>6. ASSUME NEW i \in 1..(m + n)
      PROVE  /\ i > m => Candidates[i] \in ToSet(parser.sediments)
             /\ i <= m => Candidates[i] \in ToSet(Files)
  <2>1. CASE i <= m
    <3>1. i \in 1..m
      BY <1>4, <2>1
    <3> QED BY <1>4, <1>5, <2>1, <3>1 DEF ToSet
  <2>2. CASE i > m
    <3>1. i - m \in 1..n /\ ~(i <= m)
      BY <1>4, <2>2
    <3>2. Candidates[i] \in ToSet(Sediments)
      BY <1>4, <1>5, <3>1 DEF ToSet
    <3> QED BY <1>3, <3>1, <3>2
  <2> QED BY <1>4, <2>1, <2>2
<1>7. \A i \in 1..m : i \in 1..(m + n) /\ i <= m
  BY <1>4
<1> QED BY <1>2, <1>4, <1>5, <1>6, <1>7 DEF m

LEMMA SameCandidates ==
  ASSUME parser' = parser
  PROVE  Candidates' = Candidates
BY DEF Candidates, Files, Sediments

-----------------------------------------------------------------------------
LEMMA RunInitOK == Init => RunInv
<1> SUFFICES ASSUME Init PROVE RunInv
  OBVIOUS
<1>1. RunTyped
  BY NewParserTyped, BoundsAssumption DEF Init, RunTyped
<1>2. FoundShown
  BY DEF Init, FoundShown, References, NewParser, ToSet
<1>3. AskedInOrder
  BY DEF Init, AskedInOrder, Starting
<1>4. GivenUp
  BY DEF Init, GivenUp
<1> QED BY <1>1, <1>2, <1>3, <1>4 DEF RunInv

(* Steps that leave what was found and what was asked for alone.           *)
LEMMA StartRequestKeeps == ASSUME RunInv, StartRequest PROVE RunInv'
<1> USE DEF RunInv
<1>1. /\ UNCHANGED <<parser, next, polls, url, lookedUp, shown>>
      /\ pc \in Starting
      /\ \/ pc' \in Starting \cup {"streaming"} /\ failure' = failure
         \/ pc' = "done" /\ failure' = "start"
  BY DEF StartRequest, Fail, Starting, After
<1>2. Candidates' = Candidates
  BY <1>1, SameCandidates
<1>3. RunTyped' /\ FoundShown'
  BY <1>1 DEF RunTyped, FoundShown
<1>4. AskedInOrder'
  BY <1>1, <1>2 DEF AskedInOrder, Starting
<1>5. GivenUp'
  BY <1>1, <1>2 DEF GivenUp, Starting
<1> QED BY <1>3, <1>4, <1>5

LEMMA StreamEndsKeeps == ASSUME RunInv, StreamEnds PROVE RunInv'
<1> USE DEF RunInv
<1>1. /\ UNCHANGED <<parser, next, polls, url, lookedUp, shown>>
      /\ pc = "streaming" /\ pc' = "done" /\ failure' = "stream"
  BY DEF StreamEnds, Fail
<1>2. Candidates' = Candidates
  BY <1>1, SameCandidates
<1>3. RunTyped' /\ FoundShown'
  BY <1>1 DEF RunTyped, FoundShown
<1>4. AskedInOrder'
  BY <1>1, <1>2 DEF AskedInOrder, Starting
<1>5. GivenUp'
  BY <1>1, <1>2 DEF GivenUp
<1> QED BY <1>3, <1>4, <1>5

LEMMA DownloadKeeps == ASSUME RunInv, Download PROVE RunInv'
<1> USE DEF RunInv
<1>1. /\ UNCHANGED <<parser, next, polls, url, lookedUp, shown>>
      /\ pc = "downloading" /\ pc' \in {"downloading", "done"}
      /\ failure' = failure \/ failure' = "download"
  BY DEF Download, Fail
<1>2. Candidates' = Candidates
  BY <1>1, SameCandidates
<1>3. RunTyped' /\ FoundShown'
  BY <1>1 DEF RunTyped, FoundShown
<1>4. AskedInOrder'
  BY <1>1, <1>2 DEF AskedInOrder, Starting
<1>5. GivenUp'
  BY <1>1, <1>2 DEF GivenUp
<1> QED BY <1>3, <1>4, <1>5

(* A chunk is read before anything is asked for.                           *)
LEMMA ChunkKeeps ==
  ASSUME RunInv, NEW chunk \in Seq(Payloads), Chunk(chunk)
  PROVE  RunInv'
<1> USE DEF RunInv
<1> DEFINE start == [parser |-> parser, stop |-> "no"]
           got == Fold(Consumed, start, chunk)
<1>1. /\ parser' = got.parser /\ shown' = shown \cup Shown(chunk)
      /\ pc = "streaming" /\ pc' \in {"streaming", "resolving"}
      /\ UNCHANGED <<next, polls, url, failure, lookedUp>>
  BY DEF Chunk
<1>2. start \in Consumption /\ start.parser = parser
  BY DEF RunTyped, Consumption
<1>3. /\ got \in Consumption
      /\ References(got.parser) \subseteq References(parser) \cup Shown(chunk)
  BY <1>2, ChunkTakesUp
<1> HIDE DEF got
<1>4. RunTyped'
  BY <1>1, <1>3 DEF RunTyped, Consumption
<1>5. FoundShown'
  BY <1>1, <1>3 DEF FoundShown, References
<1>6. next = 1 /\ url = "none" /\ failure # "no_url"
  BY <1>1 DEF AskedInOrder, GivenUp
<1>7. AskedInOrder' /\ GivenUp'
  BY <1>1, <1>6 DEF AskedInOrder, GivenUp
<1> QED BY <1>4, <1>5, <1>7

(* A candidate is asked for: it is downloaded, or the next one's turn.     *)
LEMMA LookupKeeps == ASSUME RunInv, Lookup PROVE RunInv'
<1> USE DEF RunInv
<1>1. /\ UNCHANGED <<parser, polls, failure, shown>>
      /\ pc = "resolving" /\ next <= Len(Candidates)
      /\ lookedUp' = lookedUp \cup {Candidates[next]}
      /\ \/ url' = Candidates[next] /\ pc' = "downloading" /\ next' = next
         \/ url' = url /\ pc' = pc /\ next' = next + 1
  BY DEF Lookup
<1>2. Candidates' = Candidates /\ Len(Candidates) \in Nat
  BY <1>1, SameCandidates, CandidatesAre DEF RunTyped
<1>3. next \in Nat \ {0} /\ next \in 1..Len(Candidates)
  BY <1>1, <1>2 DEF RunTyped
<1>4. url = "none" /\ failure # "no_url"
  BY <1>1 DEF AskedInOrder, GivenUp
<1>5. RunTyped' /\ FoundShown'
  BY <1>1, <1>3 DEF RunTyped, FoundShown
<1>6. \A i \in 1..(next' - 1) : i <= Len(Candidates) => Candidates[i] \in lookedUp'
  <2>1. \A i \in 1..next : i = next \/ i \in 1..(next - 1)
    BY <1>3
  <2>2. next' - 1 = next \/ next' = next
    BY <1>1, <1>3
  <2> QED BY <1>1, <2>1, <2>2 DEF AskedInOrder
<1>7. AskedInOrder'
  BY <1>1, <1>2, <1>3, <1>4, <1>6 DEF AskedInOrder, Starting
<1>8. GivenUp'
  BY <1>1, <1>4 DEF GivenUp
<1> QED BY <1>5, <1>7, <1>8

LEMMA UnresolvedKeeps == ASSUME RunInv, Unresolved PROVE RunInv'
<1> USE DEF RunInv
<1>1. /\ UNCHANGED <<parser, next, polls, url, lookedUp, shown>>
      /\ pc = "resolving" /\ next > Len(Candidates)
      /\ \/ polls < Polls /\ pc' = "polling" /\ failure' = failure
         \/ (~parser.cid \/ polls = Polls) /\ pc' = "done" /\ failure' = "no_url"
  BY DEF Unresolved, Fail
<1>2. Candidates' = Candidates
  BY <1>1, SameCandidates
<1>3. url = "none" /\ failure # "no_url"
  BY <1>1 DEF AskedInOrder, GivenUp
<1>4. RunTyped' /\ FoundShown'
  BY <1>1 DEF RunTyped, FoundShown
<1>5. AskedInOrder'
  BY <1>1, <1>2, <1>3 DEF AskedInOrder, Starting
<1>6. GivenUp'
  BY <1>1, <1>2, <1>3 DEF GivenUp
<1> QED BY <1>4, <1>5, <1>6

(* A poll that finds files starts over; one that finds none changes        *)
(* nothing, and the last of them ends it.                                  *)
LEMMA PollKeeps ==
  ASSUME RunInv, NEW ids \in Seq(STRING), Poll(ids)
  PROVE  RunInv'
<1> USE DEF RunInv
<1>1. /\ pc = "polling" /\ polls' = polls + 1 /\ shown' = shown \cup ToSet(ids)
      /\ UNCHANGED <<url, lookedUp>>
  BY DEF Poll
<1>2. /\ polls \in Nat /\ polls < Polls /\ polls' \in 0..Polls
      /\ next > Len(Candidates) /\ url = "none" /\ failure # "no_url"
  BY <1>1, BoundsAssumption DEF RunTyped, GivenUp, AskedInOrder
<1>3. CASE /\ parser' = [parser EXCEPT !.files = AddUnique(@, ids)]
           /\ pc' = "resolving" /\ next' = 1 /\ failure' = failure
  <2>1. parser \in Parsers /\ parser.files \in Seq(STRING)
    BY DEF RunTyped, Parsers
  <2>2. /\ AddUnique(parser.files, ids) \in Seq(STRING)
        /\ ToSet(AddUnique(parser.files, ids)) = ToSet(parser.files) \cup ToSet(ids)
    BY <2>1, AddUniqueProperties
  <2>3. /\ parser' \in Parsers /\ parser'.files = AddUnique(parser.files, ids)
        /\ parser'.sediments = parser.sediments
    BY <1>3, <2>1, <2>2 DEF Parsers
  <2>4. RunTyped'
    BY <1>2, <1>3, <2>3 DEF RunTyped
  <2>5. FoundShown'
    BY <1>1, <2>2, <2>3 DEF FoundShown, References
  <2>6. AskedInOrder' /\ GivenUp'
    BY <1>1, <1>2, <1>3 DEF AskedInOrder, GivenUp
  <2> QED BY <2>4, <2>5, <2>6
<1>4. CASE /\ UNCHANGED <<parser, next>>
           /\ \/ polls' < Polls /\ pc' = pc /\ failure' = failure
              \/ polls' = Polls /\ pc' = "done" /\ failure' = "no_url"
  <2>1. Candidates' = Candidates
    BY <1>4, SameCandidates
  <2>2. RunTyped'
    BY <1>2, <1>4 DEF RunTyped
  <2>3. FoundShown'
    BY <1>1, <1>4 DEF FoundShown, References
  <2>4. AskedInOrder'
    BY <1>1, <1>2, <1>4, <2>1 DEF AskedInOrder, Starting
  <2>5. GivenUp'
    BY <1>1, <1>2, <1>4, <2>1 DEF GivenUp
  <2> QED BY <2>2, <2>3, <2>4, <2>5
<1> QED BY <1>3, <1>4 DEF Poll, Fail

LEMMA ChunksAreSequences == \A chunk \in SeqOf(Payloads, MaxChunk) : chunk \in Seq(Payloads)
<1> SUFFICES ASSUME NEW chunk \in SeqOf(Payloads, MaxChunk)
             PROVE  chunk \in Seq(Payloads)
  OBVIOUS
<1>1. PICK m \in 0..MaxChunk : chunk \in [1..m -> Payloads]
  BY DEF SeqOf
<1> QED BY <1>1, SeqDef, BoundsAssumption

LEMMA RunNextOK == RunInv /\ [Next]_vars => RunInv'
<1> SUFFICES ASSUME RunInv, [Next]_vars PROVE RunInv'
  OBVIOUS
<1>1. ASSUME NEW chunk \in SeqOf(Payloads, MaxChunk), Chunk(chunk)
      PROVE  RunInv'
  <2>1. chunk \in Seq(Payloads)
    BY ChunksAreSequences
  <2> QED BY <1>1, <2>1, ChunkKeeps
<1>2. ASSUME NEW ids \in TaskFiles, Poll(ids)
      PROVE  RunInv'
  BY <1>2, PollKeeps, PayloadsAssumption
<1>3. CASE UNCHANGED vars
  <2>1. Candidates' = Candidates
    BY <1>3, SameCandidates DEF vars
  <2>2. UNCHANGED <<pc, parser, next, polls, url, failure, lookedUp, shown>>
    BY <1>3 DEF vars
  <2> QED BY <2>1, <2>2 DEF RunInv, RunTyped, FoundShown, AskedInOrder, GivenUp
<1> QED BY <1>1, <1>2, <1>3, StartRequestKeeps, StreamEndsKeeps, LookupKeeps,
           UnresolvedKeeps, DownloadKeeps
        DEF Next, AnyChunk, Proceed

(* Every behaviour of the delivery is one of the run, which nothing else   *)
(* touches.                                                                *)
THEOREM UsesRun == Delivery => Spec
<1>1. DeliveryInit => Init
  BY DEF DeliveryInit
<1>2. [DeliveryNext]_allVars => [Next]_vars
  BY DEF DeliveryNext, RunStep, Deliver, DeliverError, DeliverLink, StoreStep, Restart,
         runVars, allVars
<1> QED BY <1>1, <1>2, PTL DEF Delivery, Spec

LEMMA RunInductive == Delivery => []RunInv
<1>1. Spec => []RunInv
  BY RunInitOK, RunNextOK, PTL DEF Spec
<1> QED BY <1>1, UsesRun, PTL

(* What is downloaded was shown by the upstream or a task of it, and is no *)
(* placeholder among the files.                                            *)
THEOREM OnlyUpstreamImages == Delivery => []DownloadsUpstreamImages
<1>1. ASSUME RunInv PROVE DownloadsUpstreamImages
  <2> SUFFICES ASSUME url # "none"
               PROVE  /\ url \in shown
                      /\ url = Upload => url \in ToSet(parser.sediments)
    BY DEF DownloadsUpstreamImages
  <2>1. /\ parser \in Parsers /\ next \in 1..Len(Candidates) /\ url = Candidates[next]
        /\ ToSet(parser.files) \subseteq shown /\ ToSet(parser.sediments) \subseteq shown
    BY <1>1 DEF RunInv, RunTyped, AskedInOrder, FoundShown, References
  <2>2. /\ url \in ToSet(parser.sediments) \/ url \in ToSet(Files)
        /\ ToSet(Files) = ToSet(parser.files) \ {Upload}
    BY <2>1, CandidatesAre
  <2> QED BY <2>1, <2>2
<1> QED BY <1>1, RunInductive, PTL

(* A reference that is a sediment only is downloaded after every file.     *)
THEOREM FilesComeFirst == Delivery => []FilesBeforeSediments
<1>1. ASSUME RunInv PROVE FilesBeforeSediments
  <2> SUFFICES ASSUME url # "none", url \notin ToSet(parser.files)
               PROVE  ToSet(parser.files) \ {Upload} \subseteq lookedUp
    BY DEF FilesBeforeSediments
  <2>1. /\ parser \in Parsers /\ next \in 1..Len(Candidates) /\ url = Candidates[next]
        /\ \A i \in 1..(next - 1) : i <= Len(Candidates) => Candidates[i] \in lookedUp
    BY <1>1 DEF RunInv, RunTyped, AskedInOrder
  <2>2. /\ Files \in Seq(STRING) /\ ToSet(Files) = ToSet(parser.files) \ {Upload}
        /\ Len(Files) \in Nat /\ Len(Candidates) \in Nat /\ Len(Files) <= Len(Candidates)
        /\ \A i \in 1..Len(Files) : Candidates[i] = Files[i]
        /\ next <= Len(Files) => Candidates[next] \in ToSet(Files)
    BY <2>1, CandidatesAre
  <2>3. next > Len(Files)
    BY <2>1, <2>2
  <2>4. \A i \in 1..Len(Files) : Files[i] \in lookedUp
    BY <2>1, <2>2, <2>3
  <2> QED BY <2>2, <2>4, LenProperties DEF ToSet
<1> QED BY <1>1, RunInductive, PTL

(* run_image gives up for want of a URL last of all.                       *)
THEOREM GivesUpOnlyLast == Delivery => []GivesUpLast
<1>1. ASSUME RunInv PROVE GivesUpLast
  <2> SUFFICES ASSUME failure = "no_url"
               PROVE  /\ ToSet(Candidates) \subseteq lookedUp
                      /\ ~parser.cid \/ polls = Polls
    BY DEF GivesUpLast
  <2>1. /\ parser \in Parsers /\ next \in Nat /\ next > Len(Candidates)
        /\ ~parser.cid \/ polls = Polls
        /\ \A i \in 1..(next - 1) : i <= Len(Candidates) => Candidates[i] \in lookedUp
    BY <1>1 DEF RunInv, RunTyped, AskedInOrder, GivenUp
  <2>2. Candidates \in Seq(STRING) /\ Len(Candidates) \in Nat
    BY <2>1, CandidatesAre
  <2>3. \A i \in 1..Len(Candidates) : Candidates[i] \in lookedUp
    BY <2>1, <2>2
  <2> QED BY <2>1, <2>2, <2>3, LenProperties DEF ToSet
<1> QED BY <1>1, RunInductive, PTL

(* The order of what was found.                                            *)
LEMMA NextKeepsKnown ==
  ASSUME RunInv, NamedOnce(parser), [Next]_vars
  PROVE  NamedOnce(parser') /\ KeepsKnown(parser, parser')
<1>1. /\ parser \in Parsers
      /\ parser.files \in Seq(STRING) /\ parser.sediments \in Seq(STRING)
  BY DEF RunInv, RunTyped, Parsers
<1>2. CASE parser' = parser
  BY <1>1, <1>2, KeepsAll DEF KeepsKnown
<1>3. ASSUME NEW chunk \in SeqOf(Payloads, MaxChunk), Chunk(chunk)
      PROVE  NamedOnce(parser') /\ KeepsKnown(parser, parser')
  <2> DEFINE start == [parser |-> parser, stop |-> "no"]
  <2>1. chunk \in Seq(Payloads)
    BY ChunksAreSequences
  <2>2. start \in Consumption /\ start.parser = parser
    BY <1>1 DEF Consumption
  <2>3. parser' = Fold(Consumed, start, chunk).parser
    BY <1>3 DEF Chunk
  <2> HIDE DEF start
  <2> QED BY <2>1, <2>2, <2>3, ChunkTakesUp
<1>4. ASSUME NEW ids \in TaskFiles, parser' = [parser EXCEPT !.files = AddUnique(@, ids)]
      PROVE  NamedOnce(parser') /\ KeepsKnown(parser, parser')
  <2>1. ids \in Seq(STRING)
    BY PayloadsAssumption
  <2>2. /\ Once(AddUnique(parser.files, ids))
        /\ Keeps(parser.files, AddUnique(parser.files, ids))
    BY <1>1, <2>1, AddUniqueKeeps DEF NamedOnce
  <2>3. /\ parser'.files = AddUnique(parser.files, ids)
        /\ parser'.sediments = parser.sediments
    BY <1>1, <1>4 DEF Parsers
  <2> QED BY <1>1, <2>2, <2>3, KeepsAll DEF NamedOnce, KeepsKnown
<1>5. \/ parser' = parser
      \/ \E chunk \in SeqOf(Payloads, MaxChunk) : Chunk(chunk)
      \/ \E ids \in TaskFiles : parser' = [parser EXCEPT !.files = AddUnique(@, ids)]
  BY DEF Next, AnyChunk, Proceed, StartRequest, StreamEnds, Lookup, Unresolved, Poll,
         Download, vars
<1> QED BY <1>2, <1>3, <1>4, <1>5

(* The files and the sediments that were found are never dropped, named    *)
(* twice or moved, by the stream or by a poll: what was seen first is      *)
(* looked up first, however often the upstream repeats itself              *)
(* (sse.rs:74-80, runtime.rs:126-130, 159-196).                            *)
THEOREM FoundOnceInOrder ==
  Delivery => []NamedOnce(parser) /\ [][KeepsKnown(parser, parser')]_runVars
<1>1. Init => NamedOnce(parser)
  <2>1. Len(<<>>) = 0
    BY EmptySeq
  <2> QED BY <2>1 DEF Init, NewParser, NamedOnce, Once
<1>2. RunInv /\ NamedOnce(parser) /\ [Next]_vars => NamedOnce(parser)'
  BY NextKeepsKnown
<1>3. RunInv /\ NamedOnce(parser) /\ [Next]_vars => [KeepsKnown(parser, parser')]_runVars
  BY NextKeepsKnown DEF runVars
<1>4. Spec => []RunInv
  BY RunInitOK, RunNextOK, PTL DEF Spec
<1> QED BY <1>1, <1>2, <1>3, <1>4, UsesRun, PTL DEF Spec

(* How far the run is from its end: stages first, then polls, then the     *)
(* candidates, then the attempts of a download.                            *)
StagesLeft ==
  CASE pc = "bootstrap" -> 7
    [] pc = "requirements" -> 6
    [] pc = "prepare" -> 5
    [] pc = "start" -> 4
    [] pc = "streaming" -> 3
    [] pc \in {"resolving", "polling"} -> 2
    [] pc = "downloading" -> 1
    [] OTHER -> 0

InBounds ==
  /\ StagesLeft \in 0..7
  /\ polls \in 0..Polls
  /\ next \in 1..(Len(Candidates) + 1)
  /\ attempt \in 1..Downloads

Descends ==
  \/ StagesLeft' < StagesLeft
  \/ /\ StagesLeft' = StagesLeft
     /\ \/ polls' > polls
        \/ /\ polls' = polls
           /\ \/ pc = "resolving" /\ pc' = "polling"
              \/ /\ pc' = pc /\ parser' = parser
                 /\ \/ next' > next
                    \/ next' = next /\ attempt' > attempt

(* The chunks of the stream alone are not counted.                         *)
RunsDown ==
  /\ Proceed => Descends
  /\ AnyChunk => StagesLeft' <= StagesLeft

Within ==
  /\ pc \in Places /\ attempt \in 1..Downloads
  /\ next # 1 => next <= Len(Candidates) + 1

LEMMA WithinInit == Init => Within
BY BoundsAssumption DEF Init, Within, Places, Starting

LEMMA WithinKept == RunInv /\ Within /\ [Next]_vars => Within'
<1> SUFFICES ASSUME RunInv, Within, [Next]_vars PROVE Within'
  OBVIOUS
<1>1. /\ parser \in Parsers /\ next \in Nat \ {0}
      /\ pc \in Starting \cup {"streaming"} => next = 1
  BY DEF RunInv, RunTyped, AskedInOrder
<1>2. Len(Candidates) \in Nat
  BY <1>1, CandidatesAre
<1>3. \/ next' = 1
      \/ next' = next /\ parser' = parser
      \/ next' = next + 1 /\ parser' = parser /\ next <= Len(Candidates)
  BY <1>1 DEF Next, AnyChunk, Proceed, StartRequest, StreamEnds, Chunk, Lookup,
         Unresolved, Poll, Download, vars
<1>4. parser' = parser => Candidates' = Candidates
  BY SameCandidates
<1>5. next' # 1 => next' <= Len(Candidates') + 1
  BY <1>1, <1>2, <1>3, <1>4 DEF Within
<1>6. pc' \in Places
  BY DEF Within, Next, AnyChunk, Proceed, StartRequest, StreamEnds, Chunk, Lookup,
         Unresolved, Poll, Download, Fail, Places, Starting, After, vars
<1>7. attempt' \in 1..Downloads
  BY BoundsAssumption
     DEF Within, Next, AnyChunk, Proceed, StartRequest, StreamEnds, Chunk, Lookup,
         Unresolved, Poll, Download, Fail, vars
<1> QED BY <1>5, <1>6, <1>7 DEF Within

LEMMA WithinBounds == RunInv /\ Within => InBounds
<1> SUFFICES ASSUME RunInv, Within PROVE InBounds
  OBVIOUS
<1>1. parser \in Parsers /\ next \in Nat \ {0} /\ polls \in 0..Polls
  BY DEF RunInv, RunTyped
<1>2. Len(Candidates) \in Nat
  BY <1>1, CandidatesAre
<1>3. StagesLeft \in 0..7
  BY DEF StagesLeft
<1> QED BY <1>1, <1>2, <1>3 DEF InBounds, Within

LEMMA StepDescends == RunInv /\ Within /\ [Next]_vars => [RunsDown]_runVars
<1> SUFFICES ASSUME RunInv, Within PROVE RunsDown
  OBVIOUS
<1>1. next \in Nat /\ polls \in Nat /\ attempt \in Nat
  BY BoundsAssumption DEF RunInv, RunTyped, Within
<1>2. ASSUME Proceed PROVE Descends
  <2>1. CASE StartRequest
    BY <2>1 DEF StartRequest, Fail, After, Starting, StagesLeft, Descends
  <2>2. CASE StreamEnds
    BY <2>2 DEF StreamEnds, Fail, StagesLeft, Descends
  <2>3. CASE Lookup
    BY <1>1, <2>3 DEF Lookup, StagesLeft, Descends
  <2>4. CASE Unresolved
    BY <2>4 DEF Unresolved, Fail, StagesLeft, Descends
  <2>5. ASSUME NEW ids \in TaskFiles, Poll(ids) PROVE Descends
    BY <1>1, <2>5 DEF Poll, Fail, StagesLeft, Descends
  <2>6. CASE Download
    BY <1>1, <2>6 DEF Download, Fail, StagesLeft, Descends
  <2> QED BY <1>2, <2>1, <2>2, <2>3, <2>4, <2>5, <2>6 DEF Proceed
<1>3. ASSUME AnyChunk PROVE StagesLeft' <= StagesLeft
  BY <1>3 DEF AnyChunk, Chunk, StagesLeft
<1> QED BY <1>2, <1>3 DEF RunsDown

(* A run ends: every step but the reading of a chunk takes it down an      *)
(* order that is bounded below, through the stages, the polls, the         *)
(* candidates of one round and the attempts of the download, and a chunk   *)
(* never takes it back (runtime.rs:87-196, estuary.rs:109).  What AnswerComes  *)
(* needs besides is that requests and the stream end, which is fairness.   *)
THEOREM RunsEnd == Delivery => []InBounds /\ [][RunsDown]_runVars
<1>1. Spec => []RunInv
  BY RunInitOK, RunNextOK, PTL DEF Spec
<1> QED BY <1>1, WithinInit, WithinKept, WithinBounds, StepDescends, UsesRun, PTL DEF Spec

-----------------------------------------------------------------------------
(* The store.                                                              *)

(* A link of this process has its image in the map, with its own expiry.   *)
MapFitsLinks ==
  /\ now \in Int /\ boot \in Int
  /\ \A id \in DOMAIN links :
       /\ links[id].exp \in Int /\ links[id].boot \in Int
       /\ links[id].boot <= boot
       /\ links[id].boot = boot => id \in DOMAIN assets
  /\ \A id \in DOMAIN assets :
       /\ id \in DOMAIN links
       /\ assets[id].image = links[id].image
       /\ assets[id].expires_at = links[id].exp
       /\ links[id].boot = boot

(* A request follows an issued link, and one that is looking has its exp.  *)
AsksFitLinks ==
  /\ DOMAIN asked = Clients
  /\ \A c \in Clients :
       /\ asked[c].step \in {"looking", "served", "refused"} =>
            asked[c].id \in DOMAIN links
       /\ asked[c].step = "looking" => asked[c].exp = links[asked[c].id].exp

StoreInv == MapFitsLinks /\ AsksFitLinks /\ LinksOpenUntilExpiry
-----------------------------------------------------------------------------
LEMMA PutKeeps ==
  ASSUME StoreInv, NEW id, NEW image, Store!Put(id, image)
  PROVE  StoreInv'
<1> USE DEF StoreInv, MapFitsLinks, AsksFitLinks
<1>1. /\ id \notin DOMAIN links
      /\ DOMAIN links' = DOMAIN links \cup {id}
      /\ links'[id] = [image |-> image, exp |-> now + TTL, boot |-> boot]
      /\ \A x \in DOMAIN links : links'[x] = links[x]
      /\ DOMAIN assets' = DOMAIN assets \cup {id}
      /\ assets'[id] = [image |-> image, expires_at |-> now + TTL]
      /\ \A x \in DOMAIN assets : x # id /\ assets'[x] = assets[x]
      /\ UNCHANGED <<now, boot, asked>>
  BY DEF Store!Put, Store!Extended
<1>2. MapFitsLinks'
  BY <1>1, StoreAssumption
<1>3. AsksFitLinks'
  BY <1>1
<1>4. LinksOpenUntilExpiry'
  BY <1>1 DEF LinksOpenUntilExpiry, Store!LinksOpenUntilExpiry
<1> QED BY <1>2, <1>3, <1>4

(* The answer of one request changes nothing for the others.               *)
LEMMA AnswerKeeps ==
  ASSUME StoreInv, NEW c \in Clients, NEW id \in DOMAIN links, NEW exp,
         NEW step \in {"looking", "served", "refused"}, NEW image,
         Store!Answer(c, id, exp, step, image),
         step = "looking" => exp = links[id].exp,
         step = "served" =>
           /\ image = links[id].image /\ exp = links[id].exp
           /\ now <= links[id].exp /\ boot = links[id].boot,
         step = "refused" /\ exp = links[id].exp =>
           now > links[id].exp \/ boot > links[id].boot,
         UNCHANGED <<now, boot, assets, links>>
  PROVE  StoreInv'
<1> USE DEF StoreInv
<1>1. /\ DOMAIN asked' = Clients
      /\ asked'[c] = [step |-> step, id |-> id, exp |-> exp, image |-> image,
                      at |-> now, boot |-> boot]
      /\ \A d \in Clients \ {c} : asked'[d] = asked[d]
  BY DEF Store!Answer, AsksFitLinks
<1>2. MapFitsLinks'
  BY DEF MapFitsLinks
<1>3. AsksFitLinks'
  BY <1>1 DEF AsksFitLinks
<1>4. LinksOpenUntilExpiry'
  BY <1>1 DEF LinksOpenUntilExpiry, Store!LinksOpenUntilExpiry
<1> QED BY <1>2, <1>3, <1>4

LEMMA FollowKeeps ==
  ASSUME StoreInv, NEW c \in Clients, NEW id \in DOMAIN links,
         NEW exp \in Int, Store!Follow(c, id, exp)
  PROVE  StoreInv'
<1> DEFINE step == IF exp < now \/ exp # links[id].exp THEN "refused" ELSE "looking"
<1>1. Store!Answer(c, id, exp, step, "none") /\ UNCHANGED <<now, boot, assets, links>>
  BY DEF Store!Follow
<1>2. now \in Int
  BY DEF StoreInv, MapFitsLinks
<1>3. CASE exp < now \/ exp # links[id].exp
  <2>1. step = "refused" /\ (exp = links[id].exp => now > links[id].exp)
    BY <1>2, <1>3
  <2> QED BY <1>1, <2>1, AnswerKeeps
<1>4. CASE ~(exp < now \/ exp # links[id].exp)
  <2>1. step = "looking" /\ exp = links[id].exp
    BY <1>4
  <2> QED BY <1>1, <2>1, AnswerKeeps
<1> QED BY <1>3, <1>4

LEMMA LookKeeps ==
  ASSUME StoreInv, NEW c \in Clients, Store!Look(c)
  PROVE  StoreInv'
<1> DEFINE id == asked[c].id
           exp == asked[c].exp
<1>1. /\ id \in DOMAIN links /\ exp = links[id].exp
      /\ UNCHANGED <<now, boot, assets, links>>
      /\ now \in Int /\ boot \in Int
      /\ links[id].exp \in Int /\ links[id].boot \in Int /\ links[id].boot <= boot
      /\ links[id].boot = boot => id \in DOMAIN assets
  BY DEF Store!Look, StoreInv, MapFitsLinks, AsksFitLinks
<1>2. id \in DOMAIN assets =>
        /\ assets[id].image = links[id].image
        /\ assets[id].expires_at = links[id].exp
        /\ links[id].boot = boot
  BY DEF StoreInv, MapFitsLinks
<1>3. \/ /\ id \in DOMAIN assets /\ assets[id].expires_at >= now
         /\ Store!Answer(c, id, exp, "served", assets[id].image)
      \/ /\ id \in DOMAIN assets => assets[id].expires_at < now
         /\ Store!Answer(c, id, exp, "refused", "none")
  BY DEF Store!Look
<1> HIDE DEF id, exp
<1>4. CASE /\ id \in DOMAIN assets /\ assets[id].expires_at >= now
           /\ Store!Answer(c, id, exp, "served", assets[id].image)
  <2>1. now <= links[id].exp
    BY <1>1, <1>2, <1>4
  <2> QED BY <1>1, <1>2, <1>4, <2>1, AnswerKeeps
<1>5. CASE /\ id \in DOMAIN assets => assets[id].expires_at < now
           /\ Store!Answer(c, id, exp, "refused", "none")
  <2>1. now > links[id].exp \/ boot > links[id].boot
    BY <1>1, <1>2, <1>5
  <2> QED BY <1>1, <1>5, <2>1, AnswerKeeps
<1> QED BY <1>3, <1>4, <1>5

LEMMA TickKeeps == ASSUME StoreInv, Store!Tick PROVE StoreInv'
BY DEF StoreInv, MapFitsLinks, AsksFitLinks, Store!Tick, LinksOpenUntilExpiry,
       Store!LinksOpenUntilExpiry

LEMMA RestartKeeps == ASSUME StoreInv, Store!Restart PROVE StoreInv'
<1> USE DEF StoreInv
<1>1. /\ DOMAIN asked' = Clients
      /\ \A c \in Clients : \/ asked[c].step # "looking" /\ asked'[c] = asked[c]
                            \/ asked'[c].step = "cut"
      /\ boot' = boot + 1 /\ DOMAIN assets' = {} /\ UNCHANGED <<now, links>>
  BY DEF Store!Restart
<1>2. MapFitsLinks'
  BY <1>1 DEF MapFitsLinks
<1>3. AsksFitLinks'
  BY <1>1 DEF AsksFitLinks
<1>4. LinksOpenUntilExpiry'
  BY <1>1 DEF LinksOpenUntilExpiry, Store!LinksOpenUntilExpiry
<1> QED BY <1>2, <1>3, <1>4

LEMMA RestKeeps == ASSUME StoreInv, UNCHANGED storeVars PROVE StoreInv'
BY DEF StoreInv, MapFitsLinks, AsksFitLinks, storeVars, LinksOpenUntilExpiry,
       Store!LinksOpenUntilExpiry

LEMMA InitOK == DeliveryInit => StoreInv
BY DEF DeliveryInit, Store!Init, StoreInv, MapFitsLinks, AsksFitLinks,
       LinksOpenUntilExpiry, Store!LinksOpenUntilExpiry

LEMMA NextOK == StoreInv /\ [DeliveryNext]_allVars => StoreInv'
<1> SUFFICES ASSUME StoreInv, [DeliveryNext]_allVars PROVE StoreInv'
  OBVIOUS
<1>1. CASE RunStep
  BY <1>1, RestKeeps DEF RunStep
<1>2. CASE Deliver
  <2>1. CASE DeliverError
    BY <2>1, RestKeeps DEF DeliverError
  <2>2. ASSUME NEW id \in Ids, DeliverLink(id)
        PROVE  StoreInv'
    BY <2>2, PutKeeps DEF DeliverLink
  <2> QED BY <1>2, <2>1, <2>2 DEF Deliver
<1>3. CASE StoreStep
  <2>1. ASSUME NEW c \in Clients, NEW id \in DOMAIN links, NEW later \in {0, 1},
               Store!Follow(c, id, links[id].exp + later)
        PROVE  StoreInv'
    <3>1. links[id].exp + later \in Int
      BY DEF StoreInv, MapFitsLinks
    <3> QED BY <2>1, <3>1, FollowKeeps
  <2> QED BY <1>3, <2>1, PutKeeps, LookKeeps, TickKeeps DEF StoreStep
<1>4. CASE Restart
  BY <1>4, RestartKeeps DEF Restart
<1>5. CASE UNCHANGED allVars
  BY <1>5, RestKeeps DEF allVars
<1> QED BY <1>1, <1>2, <1>3, <1>4, <1>5 DEF DeliveryNext

(* A link opens the image it was issued for until it expires or the        *)
(* process restarts, and nothing else.                                     *)
THEOREM LinksAreKept == Delivery => []LinksOpenUntilExpiry
<1>1. StoreInv => LinksOpenUntilExpiry
  BY DEF StoreInv
<1> QED BY <1>1, InitOK, NextOK, PTL DEF Delivery

=============================================================================
