--------------------------- MODULE ChatCompletions ---------------------------
(***************************************************************************)
(* POST /v1/chat/completions (crates/gateway/src/main.rs) on both data     *)
(* planes, streamed or not.  On the upstream plane the conversation is     *)
(* TextStream's.  On the helper plane the bridge holds it                  *)
(* (helper/protocol_bridge.py, execute_text and execute_text_stream) and   *)
(* the gateway passes on what the bridge answers: out is then what the     *)
(* bridge has yielded and the gateway has not forwarded.                   *)
(*                                                                         *)
(* conversation_events, which the bridge reads, is not under src/.  It is  *)
(* taken to make of each payload what sse.rs makes of it, and of [DONE] an *)
(* event with the full text; it may stop or raise at any time.             *)
(***************************************************************************)
EXTENDS TextStream

VARIABLES
  plane,  \* cfg.data_plane, fixed when the process starts
  stage,  \* the conversation: being asked for, going on, or over
  heard   \* text of execute_text

chatVars == <<vars, plane, stage, heard>>

(* What the bridge sends in place of the finish chunk.                     *)
ErrorChunk == [kind |-> "error", text |-> <<>>]

ChatInit ==
  /\ Init
  /\ plane \in {"upstream", "helper"}
  /\ stage = "asking"
  /\ heard = <<>>

(* The client's answer is settled: a status, or the end of the stream.     *)
Settled(how) ==
  /\ pc' = how
  /\ UNCHANGED <<reader, wire, parser, upstream, relay, rewritten, plane, stage, heard>>

-----------------------------------------------------------------------------
(* No text of a user, or no account: no conversation is asked for.         *)
Refuse ==
  /\ pc = "reading" /\ stage = "asking"
  /\ Settled("refused")

(* start_text_stream gets its response, or make_backend a session.         *)
Open ==
  /\ pc = "reading" /\ stage = "asking"
  /\ stage' = "talking"
  /\ UNCHANGED <<vars, plane, heard>>

(* They do not, and the client gets an error; but the bridge's generator   *)
(* only starts after its status has gone out.                              *)
OpenFails ==
  /\ pc = "reading" /\ stage = "asking"
  /\ \/ Settled("failed")
     \/ plane = "helper" /\ reader = "relay" /\ Settled("aborted")

(* While a conversation goes on, the upstream writes and may break off.    *)
UpstreamSpeaks ==
  /\ stage = "talking"
  /\ \/ \E p \in Payloads : Write(p)
     \/ Breaks
  /\ UNCHANGED <<plane, stage, heard>>

(* The upstream plane.                                                     *)
RuntimeReads ==
  /\ plane = "upstream" /\ stage = "talking"
  /\ Read
  /\ UNCHANGED <<plane, stage, heard>>

-----------------------------------------------------------------------------
(* The helper plane.                                                       *)
Bridging == plane = "helper" /\ pc = "reading" /\ ~finished

(* Fault: the full text of the last event is one more delta.               *)
BridgeRelaysEverything ==
  LET p == Head(wire) IN
  /\ Bridging /\ stage = "talking" /\ reader = "relay"
  /\ wire # <<>>
  /\ parser' = Feed(parser, p)
  /\ out' = IF p.kind = "done" THEN Append(out, Delta(parser.text))
            ELSE IF DeltaOf(parser, p) # <<>> THEN Append(out, Delta(DeltaOf(parser, p)))
            ELSE out
  /\ rewritten' = (rewritten \/ ~Extends(parser, p))
  /\ stage' = IF p.kind = "done" THEN "over" ELSE "talking"
  /\ wire' = Tail(wire)
  /\ UNCHANGED <<reader, pc, upstream, bodyDone, finished, client, plane, heard>>

(* One event of the conversation, relayed: execute_text_stream.            *)
BridgeRelays ==
  LET p == Head(wire)
      delta == DeltaOf(parser, p)
  IN
  /\ Bridging /\ stage = "talking" /\ reader = "relay"
  /\ wire # <<>>
  /\ parser' = Feed(parser, p)
  /\ out' = IF delta # <<>> THEN Append(out, Delta(delta)) ELSE out
  /\ rewritten' = (rewritten \/ ~Extends(parser, p))
  /\ stage' = IF p.kind = "done" THEN "over" ELSE "talking"
  /\ wire' = Tail(wire)
  /\ UNCHANGED <<reader, pc, upstream, bodyDone, finished, client, plane, heard>>

(* One event, collected: execute_text.  The last one's text replaces what  *)
(* the deltas added up to.                                                 *)
BridgeCollects ==
  LET p == Head(wire) IN
  /\ Bridging /\ stage = "talking" /\ reader = "collect"
  /\ wire # <<>>
  /\ parser' = Feed(parser, p)
  /\ heard' = IF p.kind = "done" /\ parser.text # <<>> THEN parser.text
              ELSE heard \o DeltaOf(parser, p)
  /\ rewritten' = (rewritten \/ ~Extends(parser, p))
  /\ stage' = IF p.kind = "done" THEN "over" ELSE "talking"
  /\ wire' = Tail(wire)
  /\ UNCHANGED <<reader, pc, upstream, relay, plane>>

(* The events come to an end.                                              *)
BridgeEnds ==
  /\ Bridging
  /\ stage = "over" \/ (stage = "talking" /\ line = "eof" /\ wire = <<>>)
  /\ \/ /\ reader = "collect"
        /\ Settled(IF heard # <<>> THEN "returned" ELSE "failed")
     \/ /\ reader = "relay"
        /\ out' = out \o <<FinishChunk, DoneChunk>>
        /\ finished' = TRUE
        /\ UNCHANGED <<reader, wire, parser, pc, upstream, bodyDone, client,
                       rewritten, plane, stage, heard>>

(* except Exception: the relay tells the client in a chunk of its own.     *)
BridgeRaises ==
  /\ Bridging /\ stage # "asking"
  /\ \/ reader = "collect" /\ Settled("failed")
     \/ /\ reader = "relay"
        /\ out' = out \o <<ErrorChunk, DoneChunk>>
        /\ finished' = TRUE
        /\ UNCHANGED <<reader, wire, parser, pc, upstream, bodyDone, client,
                       rewritten, plane, stage, heard>>

(* The gateway passes a chunk on, or the end of the bridge's answer.       *)
Forward ==
  /\ plane = "helper"
  /\ Deliver \/ RelayEnds
  /\ UNCHANGED <<plane, stage, heard>>

(* The gateway's call of the bridge breaks off: its timeout, 120 s or, for *)
(* a whole stream, 180 s, or a crash of the bridge.                        *)
BridgeLost ==
  /\ plane = "helper"
  /\ pc = "reading" /\ stage # "asking"
  /\ Settled(IF reader = "collect" THEN "failed" ELSE "aborted")

-----------------------------------------------------------------------------
(* The client goes away, and the response is dropped.                      *)
ChatClientLeaves ==
  /\ stage # "asking"
  /\ ClientLeaves
  /\ UNCHANGED <<plane, stage, heard>>

Begins == Refuse \/ Open \/ OpenFails

Bridge == BridgeRelays \/ BridgeCollects \/ BridgeEnds \/ BridgeRaises

ChatNext ==
  \/ Begins
  \/ UpstreamSpeaks
  \/ RuntimeReads
  \/ Bridge \/ Forward \/ BridgeLost
  \/ ChatClientLeaves

Chat == ChatInit /\ [][ChatNext]_chatVars

(* Requests for a conversation carry timeouts; the reader's task is polled *)
(* for as long as it can go on; the HTTP client's timeout ends a stream    *)
(* that the upstream leaves open; the bridge's threads run.                *)
ChatFairness ==
  /\ WF_chatVars(Begins)
  /\ WF_chatVars(RuntimeReads)
  /\ WF_chatVars(stage = "talking" /\ Breaks /\ UNCHANGED <<plane, stage, heard>>)
  /\ WF_chatVars(Bridge) /\ WF_chatVars(Forward)

FairChat == Chat /\ ChatFairness

-----------------------------------------------------------------------------
Chunks == [kind : {"delta", "finish", "error", "done"}, text : Seq(STRING)]

TypeOK ==
  /\ plane \in {"upstream", "helper"} /\ stage \in {"asking", "talking", "over"}
  /\ reader \in {"collect", "relay"}
  /\ line \in {"open", "eof", "error"}
  /\ wire \in Seq(Payloads) /\ Len(wire) <= written
  /\ parser.text \in Seq(STRING) /\ whole.text \in Seq(STRING) /\ heard \in Seq(STRING)
  /\ pc \in {"reading", "refused", "failed"} \cup
       IF reader = "collect" THEN {"returned"} ELSE {"aborted", "ended", "dropped"}
  /\ bodyDone \in BOOLEAN /\ finished \in BOOLEAN
  /\ out \in Seq(Chunks) /\ client \in Seq(Chunks)
  /\ plane = "upstream" /\ finished => bodyDone
  /\ written \in 0..MaxPayloads
  /\ upstreamDone \in BOOLEAN /\ lost \in BOOLEAN /\ rewritten \in BOOLEAN

(* given is text; once the upstream has rewritten its text, something that *)
(* ends with text, for a delta then repeats the whole of it.               *)
Spells(given, text) ==
  IF rewritten THEN IsSuffix(text, given) ELSE given = text

(* The deltas the client has and those under way spell out what has been   *)
(* read of the upstream's text, whatever the chunks they came in, on both  *)
(* planes: exactly, until the upstream rewrites its text, and with the     *)
(* rewritten text in full at the end, however often it does                *)
(* (openai_stream.rs:90-101, sse.rs:373-383, protocol_bridge.py:700-718).   *)
DeltasSpellText ==
  reader = "relay" => Spells(TextOf(client \o out), parser.text)

(* The stream of a reply ends once: with the finish chunk and [DONE], or,  *)
(* where the bridge raised, with its error and [DONE]; these are its last  *)
(* two chunks and never come twice.  An upstream stream that broke off has *)
(* no end (openai_stream.rs:79-88, 107-133; protocol_bridge.py:719-739).    *)
EndsOnce ==
  LET chunks == client \o out
      Ending(i) == chunks[i].kind # "delta"
  IN /\ \A i \in 1..Len(chunks) : Ending(i) =>
          /\ finished
          /\ i >= Len(chunks) - 1
          /\ chunks[i].kind = "done" <=> i = Len(chunks)
          /\ chunks[i].kind = "error" => plane = "helper"
     /\ finished => Len(chunks) >= 2 /\ Ending(Len(chunks) - 1)
     /\ pc = "aborted" /\ plane = "upstream" => ~finished
     /\ pc = "ended" => finished /\ out = <<>>

(* The connection was closed in good order before all that was written had *)
(* come.  No reader can tell: the end of the body stands for [DONE].       *)
ClosedEarly == lost /\ line = "eof"

(* A client that was given [DONE] and no error was given the whole reply.  *)
(* A stream severed in its middle, by a lost connection or by a timeout of *)
(* either client (60 s of the upstream's, 180 s of the bridge's), never    *)
(* passes for a whole one; only a connection closed early does.  And an    *)
(* answer the bridge collects is the whole reply even when the upstream    *)
(* rewrote it: "both paths therefore end with identical text"; but a reply *)
(* the upstream emptied leaves what was heard before (`or text`)           *)
(* (protocol_bridge.py:405, 690; openai_stream.rs:107-133,                 *)
(* requirements.rs:69; helper_client lib.rs:250-256).                      *)
RepliesAreWhole ==
  ~ClosedEarly =>
    /\ reader = "relay" /\ pc = "ended"
         /\ (\A i \in 1..Len(client) : client[i] # ErrorChunk)
       => Spells(TextOf(client), whole.text)
    /\ plane = "helper" /\ pc = "returned" /\ upstreamDone /\ whole.text # <<>>
       => heard = whole.text

(* Every conversation ends, also one the upstream leaves open.             *)
ConversationEnds == <>(pc # "reading")

=============================================================================
