---------------------------- MODULE MCTextStream ----------------------------
(* The payloads the runs give the upstream to write.                       *)
EXTENDS TextStream

Says(kind, text) == [Payload(kind) EXCEPT !.text = text]

(* One that only names the conversation, one that says nothing, pieces of  *)
(* text, a snapshot and replacements of it, one of them empty, and the end. *)
MCPayloads ==
  {[Payload("other") EXCEPT !.cid = TRUE], Payload("raw"), Payload("done")}
  \cup {Says(kind, <<t>>) : kind \in {"append", "bare", "replace"}, t \in {"a", "b"}}
  \cup {Says("replace", <<>>)}
  \cup {Says("message", t) : t \in {<<>>, <<"a">>, <<"a", "b">>}}
=============================================================================
