\* Up to three payloads, on either plane, collected or streamed; and up to
\* three lines, in any chunks of bytes.
SPECIFICATION ChatAndLines
CONSTANTS
  Payloads <- MCPayloads
  MaxPayloads = 3
  Texts <- MCTexts
  Frames <- MCFrames
  OtherLines <- MCOtherLines
  MaxLines = 3
INVARIANTS
  TypeOK
  DeltasSpellText
  EndsOnce
  RepliesAreWhole
  ReadsWholeLines
PROPERTIES
  ConversationEnds
  ReadsAsWhole
\* A conversation is over once its reader is.
CHECK_DEADLOCK FALSE
