SPECIFICATION Spec
CONSTANTS
  Chunk = {c1, c2, c3}
  Skb = {b1, b2, b3, b4, b5}
  None = None
  Num = 3
  QuietUnload = TRUE
SYMMETRY Symmetry
INVARIANTS CountsCoverLists FreedChunkIsUsed BuffersHaveOnePlace
