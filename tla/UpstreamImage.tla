---------------------------- MODULE UpstreamImage ----------------------------
(***************************************************************************)
(* One image on the upstream data plane: UpstreamRuntime::run_image        *)
(* (crates/upstream/src/runtime.rs), from the four requests that start the *)
(* conversation, over the event stream (sse.rs) and the look-up of a       *)
(* download URL with its polls of /backend-api/tasks (poll.rs), to the     *)
(* download (estuary.rs).  The upstream may fail or answer anything at     *)
(* every step; the gateway drops the whole call when its client leaves,    *)
(* which is no step of its own here.                                       *)
(***************************************************************************)
EXTENDS Integers, SseParser

CONSTANTS
  Payloads,    \* the payloads the upstream may write
  Upload,      \* the file id "file_upload", SKIP_FILE_IDS
  TaskFiles,   \* the file ids a poll may find, a set of sequences
  MaxChunk,    \* bound: payloads in one chunk of the stream
  Polls,       \* polls of the tasks, 3 in the code
  Downloads    \* attempts of download_image_bytes, 3 in the code

ASSUME BoundsAssumption ==
  MaxChunk \in Nat \ {0} /\ Polls \in Nat /\ Downloads \in Nat \ {0}
ASSUME PayloadsAssumption ==
  Payloads \subseteq AnyPayload /\ TaskFiles \subseteq Seq(STRING)

VARIABLES
  pc,        \* where run_image is
  parser,    \* the SseParser; then, as ready_for_download, what it found
  next,      \* resolve_image_download_url: the candidate to look up
  polls,     \* attempt of the poll loop
  url,       \* the candidate download_url is for, or "none"
  attempt,   \* attempt of download_image_bytes
  failure,   \* what run_image failed with, or "none"
  lookedUp,  \* history: ids whose download URL was asked for
  shown      \* history: ids that the upstream itself wrote, or a task names

vars == <<pc, parser, next, polls, url, attempt, failure, lookedUp, shown>>

Starting == {"bootstrap", "requirements", "prepare", "start"}
Places == Starting \cup {"streaming", "resolving", "polling", "downloading", "done"}
Failures == {"none", "start", "stream", "no_url", "download"}

Init ==
  /\ pc = "bootstrap"
  /\ parser = NewParser
  /\ next = 1 /\ polls = 0 /\ attempt = 1
  /\ url = "none" /\ failure = "none"
  /\ lookedUp = {} /\ shown = {}

Fail(with) == pc' = "done" /\ failure' = with

-----------------------------------------------------------------------------
(* bootstrap only soft-fails, its body aside; the other requests must      *)
(* succeed.                                                                *)
After == [bootstrap |-> "requirements", requirements |-> "prepare",
          prepare |-> "start", start |-> "streaming"]

StartRequest ==
  /\ pc \in Starting
  /\ \/ pc' = After[pc] /\ UNCHANGED failure
     \/ Fail("start")
  /\ UNCHANGED <<parser, next, polls, url, attempt, lookedUp, shown>>

-----------------------------------------------------------------------------
(* consume_sse_until(resp, Image, ..): the first payload that makes the    *)
(* image ready ends the call; [DONE] only ends the chunk.                  *)
Consumed(acc, p) ==
  IF acc.stop # "no" THEN acc
  ELSE LET s == Feed(acc.parser, p)
       IN [parser |-> s,
           stop |-> IF ImageReady(s) THEN "ready"
                    ELSE IF p.kind = "done" THEN "done" ELSE "no"]

(* What the upstream shows in a chunk, the echo of the user's message and  *)
(* what [DONE] hides aside.                                                *)
Shown(chunk) ==
  UNION {ToSet(chunk[i].files) \cup ToSet(chunk[i].sediments) :
           i \in {k \in 1..Len(chunk) : chunk[k].kind # "user"}}

Chunk(chunk) ==
  /\ pc = "streaming"
  /\ LET got == Fold(Consumed, [parser |-> parser, stop |-> "no"], chunk)
     IN /\ parser' = got.parser
        /\ pc' = IF got.stop = "ready" THEN "resolving" ELSE "streaming"
  /\ shown' = shown \cup Shown(chunk)
  /\ UNCHANGED <<next, polls, url, attempt, failure, lookedUp>>

(* The stream ends or its deadline passes first.                           *)
StreamEnds ==
  /\ pc = "streaming"
  /\ Fail("stream")
  /\ UNCHANGED <<parser, next, polls, url, attempt, lookedUp, shown>>

-----------------------------------------------------------------------------
(* resolve_image_download_url.                                             *)

(* SKIP_FILE_IDS: the placeholder is passed over.                          *)
NotSkipped(kept, f) == IF f = Upload THEN kept ELSE Append(kept, f)

Files == Fold(NotSkipped, <<>>, parser.files)

Sediments == IF parser.cid THEN parser.sediments ELSE <<>>

(* Fault: sediments first.                                                 *)
CandidatesSedimentsFirst == Sediments \o Files

(* Files in the order they were seen, then the sediments of a conversation *)
(* that is known.                                                          *)
Candidates == Files \o Sediments

Lookup ==
  /\ pc = "resolving"
  /\ next <= Len(Candidates)
  /\ lookedUp' = lookedUp \cup {Candidates[next]}
  /\ \/ /\ url' = Candidates[next]
        /\ pc' = "downloading"
        /\ UNCHANGED next
     \/ /\ next' = next + 1
        /\ UNCHANGED <<url, pc>>
  /\ UNCHANGED <<parser, polls, attempt, failure, shown>>

(* No candidate had a URL: without a conversation, or after the last poll, *)
(* that is run_image's error.                                              *)
Unresolved ==
  /\ pc = "resolving"
  /\ next > Len(Candidates)
  /\ \/ /\ parser.cid /\ polls < Polls
        /\ pc' = "polling"
        /\ UNCHANGED failure
     \/ /\ ~parser.cid \/ polls = Polls
        /\ Fail("no_url")
  /\ UNCHANGED <<parser, next, polls, url, attempt, lookedUp, shown>>

(* Faults: polls that find nothing new do not count; a poll that finds     *)
(* nothing is the last.                                                    *)
PollUncounted(ids) ==
  /\ pc = "polling"
  /\ polls' = IF AddUnique(parser.files, ids) = parser.files THEN polls ELSE polls + 1
  /\ shown' = shown \cup ToSet(ids)
  /\ parser' = [parser EXCEPT !.files = AddUnique(@, ids)]
  /\ pc' = IF ids # <<>> THEN "resolving" ELSE "polling"
  /\ next' = 1
  /\ UNCHANGED <<url, attempt, failure, lookedUp>>

PollOnce(ids) ==
  /\ pc = "polling"
  /\ polls' = polls + 1
  /\ shown' = shown \cup ToSet(ids)
  /\ IF ids # <<>>
     THEN /\ parser' = [parser EXCEPT !.files = AddUnique(@, ids)]
          /\ pc' = "resolving" /\ next' = 1
          /\ UNCHANGED failure
     ELSE Fail("no_url") /\ UNCHANGED <<parser, next>>
  /\ UNCHANGED <<url, attempt, lookedUp>>

(* 1.5 s later the tasks of the conversation are queried: ids are the      *)
(* files they name, none where the query fails, the image failed or only   *)
(* the placeholder is named.  Any file, known or new, has everything       *)
(* looked up again.                                                        *)
Poll(ids) ==
  /\ pc = "polling"
  /\ polls' = polls + 1
  /\ shown' = shown \cup ToSet(ids)
  /\ \/ /\ ids # <<>>
        /\ parser' = [parser EXCEPT !.files = AddUnique(@, ids)]
        /\ pc' = "resolving" /\ next' = 1
        /\ UNCHANGED failure
     \/ /\ ids = <<>> /\ polls' < Polls
        /\ UNCHANGED <<parser, next, pc, failure>>
     \/ /\ ids = <<>> /\ polls' = Polls
        /\ Fail("no_url")
        /\ UNCHANGED <<parser, next>>
  /\ UNCHANGED <<url, attempt, lookedUp>>

-----------------------------------------------------------------------------
(* download_image_bytes: an image, a status or transport error worth       *)
(* another attempt, or the end of it.                                      *)
Download ==
  /\ pc = "downloading"
  /\ \/ /\ pc' = "done"
        /\ UNCHANGED <<attempt, failure>>
     \/ /\ attempt < Downloads
        /\ attempt' = attempt + 1
        /\ UNCHANGED <<pc, failure>>
     \/ /\ Fail("download")
        /\ UNCHANGED attempt
  /\ UNCHANGED <<parser, next, polls, url, lookedUp, shown>>

-----------------------------------------------------------------------------
AnyChunk == \E chunk \in SeqOf(Payloads, MaxChunk) : Chunk(chunk)

Proceed ==
  \/ StartRequest
  \/ StreamEnds
  \/ Lookup \/ Unresolved
  \/ \E ids \in TaskFiles : Poll(ids)
  \/ Download

Next == AnyChunk \/ Proceed

Spec == Init /\ [][Next]_vars

-----------------------------------------------------------------------------
(* What is downloaded is an image the upstream or one of its tasks named:  *)
(* never a reference that only the user's own message held, and never the  *)
(* placeholder of an upload, unless as a sediment, where the code does not *)
(* look for it (sse.rs:176-185, runtime.rs:157-196).                       *)
DownloadsUpstreamImages ==
  url # "none" =>
    /\ url \in shown
    /\ url = Upload => url \in ToSet(parser.sediments)

(* A file is always preferred: a reference that is no file, but a sediment *)
(* only, is downloaded after every file known was asked for                *)
(* (runtime.rs:159-196).                                                   *)
FilesBeforeSediments ==
  url # "none" /\ url \notin ToSet(parser.files) =>
    ToSet(parser.files) \ {Upload} \subseteq lookedUp

(* run_image gives up for want of a URL only after everything it knows of, *)
(* the files of the last poll included, was asked for, and after the last  *)
(* poll, unless it has no conversation to poll for (runtime.rs:108-148).   *)
GivesUpLast ==
  failure = "no_url" =>
    /\ ToSet(Candidates) \subseteq lookedUp
    /\ ~parser.cid \/ polls = Polls

=============================================================================
