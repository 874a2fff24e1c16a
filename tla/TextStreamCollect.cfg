\* run_text returns at the first sign of text.
SPECIFICATION Spec
CONSTANTS
  Payloads <- MCPayloads
  MaxPayloads = 3
INVARIANT CollectsAssistantText
CHECK_DEADLOCK FALSE
