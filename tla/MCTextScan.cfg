CONSTANTS
  Letters = {"a", "f"}
  Digits = {"0"}
  Format <- MCFormat
  Alphabets <- MCAlphabets
  MaxLength = 5
SPECIFICATION Spec
INVARIANTS OneReceiver TokensTile BracesAsTokens
PROPERTY CallFollowsTyping
