SPECIFICATION Spec
CONSTANTS
  None = None
  b1 = b1
  b2 = b2
  Bufs = {b1}
  Widths = {100, 3840}
  Lefts = {0, 97}
  Word = 65536
  Peer = FALSE
  Resets = TRUE
  InBounds = TRUE
INVARIANTS
  JobPictureFits
