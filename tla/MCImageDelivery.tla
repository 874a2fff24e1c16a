--------------------------- MODULE MCImageDelivery ---------------------------
(* What the upstream may write and a poll may find.                        *)
EXTENDS ImageDelivery

Names(kind, cid, files, sediments) ==
  [Payload(kind) EXCEPT !.cid = cid, !.files = files, !.sediments = sediments]

MCUpload == "file_upload"

MCPayloads ==
  {Payload("done"), Payload("invoked"), Payload("idle")}
  \cup {Names(kind, cid, f, s) :
          kind \in {"tool", "user", "other"}, cid \in BOOLEAN,
          f \in {<<>>, <<MCUpload>>, <<"f1", "f2">>}, s \in {<<>>, <<"s1">>}}
  \cup {Names("pointer", FALSE, <<"f2">>, <<"f1">>), Names("raw", TRUE, <<"f1">>, <<>>)}

MCTaskFiles == {<<>>, <<"f1">>, <<"f3", "f2">>}
=============================================================================
