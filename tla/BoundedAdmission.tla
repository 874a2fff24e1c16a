--------------------------- MODULE BoundedAdmission ---------------------------
(***************************************************************************)
(* What IMAGE_GLOBAL_CONCURRENCY promises: of the requests that have come  *)
(* and not gone at most Permits are inside, the others wait in the order   *)
(* in which they came, and nobody waits while there is room.  Requests go  *)
(* when they like, from the inside or out of the line.                     *)
(*                                                                         *)
(* How permits are counted and handed over is ImageGateway's affair, which *)
(* implements this specification; ImagePipeline builds upon it.            *)
(***************************************************************************)
EXTENDS Integers, FiniteSets, SequencesExt

CONSTANTS
  Requests,  \* those that may come
  Permits    \* IMAGE_GLOBAL_CONCURRENCY

VARIABLES
  inside,  \* the requests with a permit
  line     \* the others, in the order in which they came

Init == inside = {} /\ line = <<>>

(* The head of the waiting line goes in as far as there is room.           *)
Settle(in, waiting) ==
  \E k \in 0..Len(waiting) :
    /\ inside' = in \cup {waiting[i] : i \in 1..k}
    /\ line' = SubSeq(waiting, k + 1, Len(waiting))
    /\ Cardinality(inside') <= Permits
    /\ line' # <<>> => Cardinality(inside') = Permits

Come(r) ==
  /\ r \notin inside /\ \A i \in DOMAIN line : line[i] # r
  /\ Settle(inside, Append(line, r))

Go(r) ==
  \/ /\ r \in inside
     /\ Settle(inside \ {r}, line)
  \/ \E k \in DOMAIN line :
       /\ line[k] = r
       /\ Settle(inside, RemoveAt(line, k))

Next == \E r \in Requests : Come(r) \/ Go(r)

Spec == Init /\ [][Next]_<<inside, line>>
=============================================================================
