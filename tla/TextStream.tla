----------------------------- MODULE TextStream -----------------------------
(***************************************************************************)
(* A text conversation with the upstream, from its event stream to the     *)
(* gateway's client (crates/upstream/src): read either by run_text, which  *)
(* collects an answer with consume_sse_until (sse.rs, runtime.rs), or by   *)
(* OpenAiSseStream (openai_stream.rs), which relays it as OpenAI chunks.   *)
(*                                                                         *)
(* The upstream writes payloads; a chunk of the network is any number of   *)
(* whole ones, and the stream may end after any of them, in good order or  *)
(* with an error: the HTTP client's own timeout (requirements.rs:69) is    *)
(* one of the errors.  That the bytes of a chunk, which may end inside a   *)
(* line or a character, come to this is the refinement of WholePayloads    *)
(* by SseLines, which translates split_sse_data_lines.                     *)
(***************************************************************************)
EXTENDS Integers, SseParser

CONSTANTS
  Payloads,     \* the payloads the upstream may write
  MaxPayloads   \* bound: how many it writes

ASSUME PayloadsAssumption == Payloads \subseteq AnyPayload
ASSUME MaxPayloadsAssumption == MaxPayloads \in Nat

VARIABLES
  reader,        \* who reads: run_text ("collect") or OpenAiSseStream ("relay")
  line,          \* the upstream's end of the connection
  wire,          \* payloads written and not read yet
  parser,        \* the reader's SseParser
  pc,            \* where the reader is
  bodyDone,      \* body_done
  finished,      \* finished
  out,           \* out, the relay's queue of chunks
  client,        \* history: the chunks the client was given
  written,       \* history: how many payloads the upstream wrote
  whole,         \* history: a parser that missed nothing of them
  upstreamDone,  \* history: [DONE] was one of them
  lost,          \* history: some never arrived
  rewritten      \* history: the text was once replaced by no extension of it

upstream == <<line, written, whole, upstreamDone, lost>>
relay == <<bodyDone, finished, out, client>>
vars == <<reader, wire, parser, pc, upstream, relay, rewritten>>

Delta(text) == [kind |-> "delta", text |-> text]
FinishChunk == [kind |-> "finish", text |-> <<>>]
DoneChunk == [kind |-> "done", text |-> <<>>]

(* The text in a sequence of chunks, as an OpenAI client puts it together. *)
Spelled(text, chunk) == text \o chunk.text

TextOf(chunks) == Fold(Spelled, <<>>, chunks)

Init ==
  /\ reader \in {"collect", "relay"}
  /\ line = "open" /\ wire = <<>>
  /\ parser = NewParser /\ whole = NewParser
  /\ pc = "reading"
  /\ bodyDone = FALSE /\ finished = FALSE /\ out = <<>> /\ client = <<>>
  /\ written = 0 /\ upstreamDone = FALSE /\ lost = FALSE /\ rewritten = FALSE

-----------------------------------------------------------------------------
(* The upstream and the network.                                           *)
Write(p) ==
  /\ line = "open" /\ ~upstreamDone
  /\ written < MaxPayloads
  /\ written' = written + 1
  /\ wire' = Append(wire, p)
  /\ whole' = Feed(whole, p)
  /\ upstreamDone' = (p.kind = "done")
  /\ UNCHANGED <<reader, line, lost, parser, pc, relay, rewritten>>

(* The stream ends; of what is under way only the first n arrive.          *)
Cut(how, n) ==
  /\ line = "open"
  /\ line' = how
  /\ wire' = SubSeq(wire, 1, n)
  /\ lost' = (n < Len(wire))
  /\ UNCHANGED <<reader, written, whole, upstreamDone, parser, pc, relay, rewritten>>

-----------------------------------------------------------------------------
(* consume_sse_until(resp, Text, ..): one chunk of n payloads.  The first  *)
(* that makes the text ready ends the call; [DONE] only ends the chunk.    *)
Collected(acc, p) ==
  IF acc.stop # "no" THEN acc
  ELSE LET next == Feed(acc.parser, p)
       IN [parser |-> next,
           stop |-> IF TextReady(next) THEN "ready"
                    ELSE IF p.kind = "done" THEN "done" ELSE "no",
           rewritten |-> acc.rewritten \/ ~Extends(acc.parser, p)]

CollectChunk(n) ==
  /\ reader = "collect" /\ pc = "reading"
  /\ n \in 1..Len(wire)
  /\ LET got == Fold(Collected,
                     [parser |-> parser, stop |-> "no", rewritten |-> rewritten],
                     SubSeq(wire, 1, n))
     IN /\ parser' = got.parser
        /\ rewritten' = got.rewritten
        /\ pc' = IF got.stop = "ready" THEN "returned" ELSE "reading"
  /\ wire' = SubSeq(wire, n + 1, Len(wire))
  /\ UNCHANGED <<reader, upstream, relay>>

(* The stream ends, or the deadline passes, before any text is ready.      *)
CollectFails ==
  /\ reader = "collect" /\ pc = "reading"
  /\ pc' = "failed"
  /\ UNCHANGED <<reader, wire, parser, upstream, relay, rewritten>>

-----------------------------------------------------------------------------
(* OpenAiSseStream::poll_next.                                             *)

Polls == reader = "relay" /\ pc = "reading"

(* A queued chunk goes out before anything else is looked at.              *)
Deliver ==
  /\ Polls
  /\ out # <<>>
  /\ client' = Append(client, Head(out))
  /\ out' = Tail(out)
  /\ UNCHANGED <<reader, wire, parser, pc, upstream, bodyDone, finished, rewritten>>

(* feed_payload, until [DONE].                                             *)
Relayed(acc, p) ==
  IF acc.done THEN acc
  ELSE [parser |-> Feed(acc.parser, p),
        out |-> IF DeltaOf(acc.parser, p) # <<>>
                THEN Append(acc.out, Delta(DeltaOf(acc.parser, p))) ELSE acc.out,
        done |-> p.kind = "done",
        rewritten |-> acc.rewritten \/ ~Extends(acc.parser, p)]

RelayChunk(n) ==
  /\ Polls
  /\ out = <<>> /\ ~finished /\ ~bodyDone
  /\ n \in 1..Len(wire)
  /\ LET got == Fold(Relayed,
                     [parser |-> parser, out |-> <<>>, done |-> FALSE,
                      rewritten |-> rewritten],
                     SubSeq(wire, 1, n))
     IN /\ parser' = got.parser
        /\ out' = got.out
        /\ bodyDone' = got.done
        /\ rewritten' = got.rewritten
  /\ wire' = SubSeq(wire, n + 1, Len(wire))
  /\ UNCHANGED <<reader, pc, upstream, finished, client>>

(* Faults: any end of the body stands for [DONE]; an orderly one is waited *)
(* out.                                                                    *)
RelayBodyEndsAnyhow ==
  /\ Polls
  /\ out = <<>> /\ ~finished /\ ~bodyDone
  /\ wire = <<>>
  /\ line # "open"
  /\ bodyDone' = TRUE
  /\ UNCHANGED <<reader, wire, parser, pc, upstream, finished, out, client, rewritten>>

RelayBodyErrs ==
  /\ Polls
  /\ out = <<>> /\ ~finished /\ ~bodyDone
  /\ wire = <<>>
  /\ line = "error"
  /\ pc' = "aborted"
  /\ UNCHANGED <<reader, wire, parser, upstream, relay, rewritten>>

(* The body ended: in good order, which stands for [DONE], or by an error, *)
(* after which the server gives the response up.                           *)
RelayBodyEnds ==
  /\ Polls
  /\ out = <<>> /\ ~finished /\ ~bodyDone
  /\ wire = <<>>
  /\ \/ /\ line = "eof"
        /\ bodyDone' = TRUE
        /\ UNCHANGED pc
     \/ /\ line = "error"
        /\ pc' = "aborted"
        /\ UNCHANGED bodyDone
  /\ UNCHANGED <<reader, wire, parser, upstream, finished, out, client, rewritten>>

(* Faults: the end is queued before the body is done; nothing remembers    *)
(* that it was.                                                            *)
EnqueueFinishEarly ==
  /\ Polls
  /\ out = <<>> /\ ~finished
  /\ out' = <<FinishChunk, DoneChunk>>
  /\ finished' = TRUE
  /\ UNCHANGED <<reader, wire, parser, pc, upstream, bodyDone, client, rewritten>>

EnqueueFinishAgain ==
  /\ Polls
  /\ out = <<>> /\ ~finished /\ bodyDone
  /\ out' = <<FinishChunk, DoneChunk>>
  /\ UNCHANGED <<reader, wire, parser, pc, upstream, bodyDone, finished, client,
                 rewritten>>

(* enqueue_finish.                                                         *)
EnqueueFinish ==
  /\ Polls
  /\ out = <<>> /\ ~finished /\ bodyDone
  /\ out' = <<FinishChunk, DoneChunk>>
  /\ finished' = TRUE
  /\ UNCHANGED <<reader, wire, parser, pc, upstream, bodyDone, client, rewritten>>

RelayEnds ==
  /\ Polls
  /\ out = <<>> /\ finished
  /\ pc' = "ended"
  /\ UNCHANGED <<reader, wire, parser, upstream, relay, rewritten>>

(* The client goes away and the response is dropped.                       *)
ClientLeaves ==
  /\ Polls
  /\ pc' = "dropped"
  /\ UNCHANGED <<reader, wire, parser, upstream, relay, rewritten>>

-----------------------------------------------------------------------------
Read ==
  \/ \E n \in 1..Len(wire) : CollectChunk(n) \/ RelayChunk(n)
  \/ CollectFails
  \/ Deliver \/ RelayBodyEnds \/ EnqueueFinish \/ RelayEnds

Breaks == \E how \in {"eof", "error"}, n \in 0..Len(wire) : Cut(how, n)

Next ==
  \/ \E p \in Payloads : Write(p)
  \/ Breaks
  \/ Read
  \/ ClientLeaves

Spec == Init /\ [][Next]_vars

-----------------------------------------------------------------------------
(* "Bootstrap -> chat-requirements -> text SSE -> collected assistant      *)
(* text" (runtime.rs:71): the text run_text returns is the assistant's.    *)
CollectsAssistantText ==
  /\ reader = "collect" /\ pc = "returned"
  /\ upstreamDone /\ ~lost
  => parser.text = whole.text

=============================================================================
