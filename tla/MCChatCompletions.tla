-------------------------- MODULE MCChatCompletions --------------------------
(***************************************************************************)
(* ChatCompletions with the payloads of MCTextStream, and the bytes of a   *)
(* stream (SseLines).  The two share no variable, and what they have to do *)
(* with each other is the refinement ReadsAsWhole: so the bytes move only  *)
(* where one conversation was refused, and nothing of it moves any more,   *)
(* and every behaviour of either is still there.                           *)
(***************************************************************************)
EXTENDS ChatCompletions, MCTextStream, SseLines

(* Texts with and without a blank beside the two-byte character; a data    *)
(* line without text, the blank line that ends an event and a line of      *)
(* another field.                                                          *)
MCTexts == {<<"e'">>, <<"x", " ", "e'">>}

MCFrames ==
  {[gap |-> <<>>, eol |-> <<"LF">>], [gap |-> <<" ">>, eol |-> <<"CR", "LF">>]}

MCOtherLines ==
  {<<"data", ":", " ", "LF">>, <<"LF">>, <<"x", ":", "data", ":", "LF">>}

ChatRests == plane = "upstream" /\ reader = "relay" /\ pc = "refused"

ChatAndLinesInit == ChatInit /\ LinesInit

ChatAndLinesNext ==
  \/ ChatNext /\ UNCHANGED lineVars
  \/ ChatRests /\ LinesNext /\ UNCHANGED chatVars

ChatAndLines ==
  /\ ChatAndLinesInit
  /\ [][ChatAndLinesNext]_<<chatVars, lineVars>>
  /\ ChatFairness
=============================================================================
