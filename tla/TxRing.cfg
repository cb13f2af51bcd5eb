SPECIFICATION LiveSpec
CONSTANTS
  Skb = {f1, f2, f3, f4}
  N = 3
  W = 6
  Closes = 1
  Racing = FALSE
  None = None
INVARIANTS RingIsSound
PROPERTIES ImplementsFifo DoneIsConfirmed
