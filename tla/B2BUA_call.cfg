SPECIFICATION Spec
CONSTANTS
  Cancels = {}
  HangUps = {"bye", "web"}
  Kind <- MCKind
  MaxTx = 2
CHECK_DEADLOCK FALSE
INVARIANTS OneFinalResponse DialogsAreLive
PROPERTIES CallerGetsFinal
