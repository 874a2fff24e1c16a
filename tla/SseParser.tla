----------------------------- MODULE SseParser -----------------------------
(***************************************************************************)
(* The parser of the upstream's event stream (crates/upstream/src/sse.rs): *)
(* what one "data:" payload does to ConversationState.  A payload is told  *)
(* by what the code looks for in it:                                       *)
(*                                                                         *)
(*   done      [DONE]                                                      *)
(*   raw       not JSON                                                    *)
(*   message   an assistant's message with its text so far                 *)
(*   append    a patch that appends at /message/content/parts/0            *)
(*   bare      {"v": "chunk"}, with neither a path nor an operation        *)
(*   replace   a patch that replaces the text                              *)
(*   invoked   server_ste_metadata with tool_invoked true, idle with false *)
(*   tool      a message of the image tool                                 *)
(*   pointer   a patch that carries an asset pointer                       *)
(*   user      the user's own message, echoed                              *)
(*   other     any other event                                             *)
(*                                                                         *)
(* Every payload may name the conversation (cid) and any number of files   *)
(* and sediments.  Text is a sequence of pieces no two of which read alike.*)
(***************************************************************************)
EXTENDS Integers, Sequences, SequencesExt

Kinds == {"done", "raw", "message", "append", "bare", "replace",
          "invoked", "idle", "tool", "pointer", "user", "other"}

(* A payload that names nothing and says nothing.                          *)
Payload(kind) ==
  [kind |-> kind, cid |-> FALSE, text |-> <<>>, files |-> <<>>, sediments |-> <<>>]

AnyPayload ==
  [kind : Kinds, cid : BOOLEAN, text : Seq(STRING), files : Seq(STRING),
   sediments : Seq(STRING)]

(* What ConversationState may hold.                                        *)
Parsers ==
  [cid : BOOLEAN, text : Seq(STRING), files : Seq(STRING), sediments : Seq(STRING),
   invoked : BOOLEAN]

NewParser ==
  [cid |-> FALSE, text |-> <<>>, files |-> <<>>, sediments |-> <<>>,
   invoked |-> FALSE]

(* A loop over items: FoldLeft, by recursion on the positions.             *)
Fold(Step(_, _), start, items) ==
  LET after[n \in 0..Len(items)] ==
        IF n = 0 THEN start ELSE Step(after[n - 1], items[n])
  IN after[Len(items)]

(* add_unique.                                                             *)
Added(known, c) == IF c \in ToSet(known) THEN known ELSE Append(known, c)

AddUnique(values, candidates) == Fold(Added, values, candidates)

(* Fault: the user's own message counts too.                               *)
ImageContextOfAnyone(s, p) == p.kind \in {"tool", "pointer"} \/ s.invoked

(* References count where an image is being made: in the tool's messages,  *)
(* in patches that carry an asset pointer, and, once a tool was invoked,   *)
(* in anything but the user's own message.                                 *)
ImageContext(s, p) ==
  \/ p.kind \in {"tool", "pointer"}
  \/ s.invoked /\ p.kind # "user"

(* assistant_raw_text and apply_text_patch.                                *)
NextText(s, p) ==
  CASE p.kind = "message" /\ p.text # <<>> -> p.text
    [] p.kind = "append" -> s.text \o p.text
    [] p.kind = "bare" /\ s.text # <<>> -> s.text \o p.text
    [] p.kind = "replace" -> p.text
    [] OTHER -> s.text

(* feed_line: the state after payload p.                                   *)
Feed(s, p) ==
  IF p.kind = "done" THEN s
  ELSE [cid |-> s.cid \/ p.cid,
        text |-> NextText(s, p),
        files |-> IF ImageContext(s, p) THEN AddUnique(s.files, p.files) ELSE s.files,
        sediments |-> IF ImageContext(s, p) THEN AddUnique(s.sediments, p.sediments)
                      ELSE s.sediments,
        invoked |-> CASE p.kind = "invoked" -> TRUE
                      [] p.kind = "idle" -> FALSE
                      [] OTHER -> s.invoked]

(* Does the text after p extend the text before it?                        *)
Extends(s, p) == IsPrefix(s.text, Feed(s, p).text)

(* The delta of p's event: what p adds, or the whole of a text it rewrote. *)
DeltaOf(s, p) ==
  LET text == Feed(s, p).text
  IN IF Extends(s, p) THEN SubSeq(text, Len(s.text) + 1, Len(text)) ELSE text

TextReady(s) == s.cid \/ s.text # <<>>

ImageReady(s) == s.files # <<>> \/ s.sediments # <<>>

=============================================================================
