---------------------------- MODULE WholePayloads ----------------------------
(***************************************************************************)
(* An event stream as TextStream and UpstreamImage take it to be: payloads *)
(* go in one by one, come out in whole ones, any number at a time and in   *)
(* order, and the connection may end after any of them.                    *)
(***************************************************************************)
EXTENDS Naturals, Sequences

CONSTANT Payloads

VARIABLES
  wire,  \* payloads written and not read yet
  got,   \* payloads the reader was given
  line   \* the upstream's end of the connection

vars == <<wire, got, line>>

Init == wire = <<>> /\ got = <<>> /\ line = "open"

Write(p) ==
  /\ line = "open"
  /\ wire' = Append(wire, p)
  /\ UNCHANGED <<got, line>>

Cut(how, n) ==
  /\ line = "open"
  /\ line' = how
  /\ wire' = SubSeq(wire, 1, n)
  /\ UNCHANGED got

Read(n) ==
  /\ got' = got \o SubSeq(wire, 1, n)
  /\ wire' = SubSeq(wire, n + 1, Len(wire))
  /\ UNCHANGED line

Next ==
  \/ \E p \in Payloads : Write(p)
  \/ \E how \in {"eof", "error"}, n \in 0..Len(wire) : Cut(how, n)
  \/ \E n \in 1..Len(wire) : Read(n)

Spec == Init /\ [][Next]_vars

=============================================================================
