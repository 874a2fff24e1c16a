------------------------------ MODULE SseLines ------------------------------
(***************************************************************************)
(* From bytes to payloads: split_sse_data_lines                            *)
(* (crates/upstream/src/sse.rs:456-474), which both readers of the         *)
(* upstream's event stream call for every chunk of bytes the network       *)
(* delivers (sse.rs:506, openai_stream.rs:122).                            *)
(*                                                                         *)
(* A byte is told by what the code looks for: the line's end LF, CR and    *)
(* blanks, the two parts "data" and ":" of the prefix, between which a     *)
(* chunk may end, the two bytes of the character "e'", between which it    *)
(* may end too, and the others.  "?" is U+FFFD.                            *)
(***************************************************************************)
EXTENDS Integers, Sequences, SequencesExt, FiniteSetsExt

CONSTANTS
  Texts,       \* texts of data lines, without blanks around them
  Frames,      \* what stands around a text: a blank or none, the line's end
  OtherLines,  \* lines, in bytes, that carry no data, or data without text
  MaxLines     \* bound: lines the upstream writes

ASSUME TextsAssumption == Texts \subseteq Seq({"x", "e'", " "}) \ {<<>>}
ASSUME FramesAssumption ==
  Frames \subseteq [gap : {<<>>, <<" ">>}, eol : {<<"LF">>, <<"CR", "LF">>}]
ASSUME OtherLinesAssumption ==
  \A other \in OtherLines :
    /\ \A i \in 1..Len(other) : other[i] = "LF" <=> i = Len(other)
    /\ IsPrefix(<<"data", ":">>, other) =>
         \A i \in 3..Len(other) : other[i] \in {" ", "CR", "LF"}
ASSUME MaxLinesAssumption == MaxLines \in Nat

VARIABLES
  connection,  \* the upstream's end of the connection
  unread,      \* bytes under way
  pending,     \* pending
  payloads,    \* history: what the reader was given, in all
  received,    \* history: how many bytes it received
  said,        \* history: the texts the upstream wrote
  ends,        \* history: for each of them, where in the stream its line ends
  lines        \* history: how many lines the upstream wrote

lineVars == <<connection, unread, pending, payloads, received, said, ends, lines>>

LinesInit ==
  /\ connection = "open"
  /\ unread = <<>> /\ pending = <<>> /\ payloads = <<>> /\ received = 0
  /\ said = <<>> /\ ends = <<>> /\ lines = 0

-----------------------------------------------------------------------------
(* What the upstream writes: UTF-8.                                        *)
Encoded(text) ==
  FlattenSeq([i \in 1..Len(text) |->
                IF text[i] = "e'" THEN <<"lead", "trail">> ELSE <<text[i]>>])

DataLine(text, frame) ==
  <<"data", ":">> \o frame.gap \o Encoded(text) \o frame.eol

(* String::from_utf8_lossy.                                                *)
Decoded(bytes) ==
  LET Whole(i) == i \in 1..(Len(bytes) - 1) /\ bytes[i] = "lead" /\ bytes[i + 1] = "trail"
      Char(i) == IF Whole(i) THEN <<"e'">>
                 ELSE IF Whole(i - 1) THEN <<>>
                 ELSE IF bytes[i] \in {"lead", "trail"} THEN <<"?">>
                 ELSE <<bytes[i]>>
  IN FlattenSeq([i \in 1..Len(bytes) |-> Char(i)])

(* trim, after which trim_end_matches(['\r', '\n']) makes no difference.   *)
Trimmed(text) ==
  LET kept == {i \in 1..Len(text) : text[i] \notin {" ", "CR", "LF"}}
  IN IF kept = {} THEN <<>> ELSE SubSeq(text, Min(kept), Max(kept))

(* The payload of a line, or nothing.                                      *)
PayloadOf(bytes) ==
  LET text == Decoded(bytes)
  IN IF IsPrefix(<<"data", ":">>, text) THEN Trimmed(SubSeq(text, 3, Len(text))) ELSE <<>>

(* The loop that drains the complete lines, and what it leaves.            *)
RECURSIVE Drained(_)
Drained(bytes) ==
  LET pos == SelectInSeq(bytes, LAMBDA b : b = "LF")
      payload == PayloadOf(SubSeq(bytes, 1, pos))
      rest == Drained(SubSeq(bytes, pos + 1, Len(bytes)))
  IN IF pos = 0 THEN [payloads |-> <<>>, pending |-> bytes]
     ELSE IF payload = <<>> THEN rest
     ELSE [rest EXCEPT !.payloads = <<payload>> \o @]

(* Faults: every chunk is decoded by itself; a chunk's end ends a line.    *)
SplitDecodesChunks(chunk, left) == Drained(left \o Decoded(chunk))

SplitEndsLines(chunk, left) == Drained(left \o chunk \o <<"LF">>)

(* split_sse_data_lines.                                                   *)
Split(chunk, left) == Drained(left \o chunk)

-----------------------------------------------------------------------------
Writes(bytes) ==
  /\ connection = "open" /\ lines < MaxLines
  /\ unread' = unread \o bytes
  /\ lines' = lines + 1
  /\ UNCHANGED <<connection, pending, payloads, received>>

WriteData(text, frame) ==
  /\ Writes(DataLine(text, frame))
  /\ said' = Append(said, text)
  /\ ends' = Append(ends, received + Len(unread'))

WriteOther(bytes) == Writes(bytes) /\ UNCHANGED <<said, ends>>

(* The connection ends; of the bytes under way only the first n arrive.    *)
BreakOff(how, n) ==
  /\ connection = "open"
  /\ connection' = how
  /\ unread' = SubSeq(unread, 1, n)
  /\ UNCHANGED <<pending, payloads, received, said, ends, lines>>

(* One chunk, of n bytes.                                                  *)
Chunk(n) ==
  /\ LET got == Split(SubSeq(unread, 1, n), pending)
     IN /\ payloads' = payloads \o got.payloads
        /\ pending' = got.pending
  /\ received' = received + n
  /\ unread' = SubSeq(unread, n + 1, Len(unread))
  /\ UNCHANGED <<connection, said, ends, lines>>

LinesNext ==
  \/ \E text \in Texts, frame \in Frames : WriteData(text, frame)
  \/ \E bytes \in OtherLines : WriteOther(bytes)
  \/ \E how \in {"eof", "error"}, n \in 0..Len(unread) : BreakOff(how, n)
  \/ \E n \in 1..Len(unread) : Chunk(n)

Lines == LinesInit /\ [][LinesNext]_lineVars

-----------------------------------------------------------------------------
(* The texts whose lines end within the first n bytes of the stream.       *)
WrittenWithin(n) == SubSeq(said, 1, Cardinality({i \in 1..Len(ends) : ends[i] <= n}))

(* Wherever the network cuts the stream into chunks, inside a line, the    *)
(* prefix, a character or between CR and LF, the reader has been given     *)
(* exactly the texts whose lines have come in full, each as it was         *)
(* written; of a stream that ends early only the unfinished line is lost   *)
(* (sse.rs:456-474).                                                       *)
ReadsWholeLines == payloads = WrittenWithin(received)

(* Those that will still come in full and have not been given.             *)
Coming ==
  LET arriving == WrittenWithin(received + Len(unread))
  IN SubSeq(arriving, Len(payloads) + 1, Len(arriving))

(* To its readers the stream is one of whole payloads: every chunk of      *)
(* bytes stands for any number of those next in line, or for none, and     *)
(* where the bytes break off, so does it after one of them                 *)
(* (sse.rs:506-524, openai_stream.rs:121-127).                             *)
Whole == INSTANCE WholePayloads
           WITH Payloads <- Texts, wire <- Coming, got <- payloads, line <- connection

ReadsAsWhole == Whole!Spec

=============================================================================
