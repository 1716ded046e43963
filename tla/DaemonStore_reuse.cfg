SPECIFICATION Spec
CONSTANTS
  SessionIds = {s1, s2}
  Clients = {c1, c2}
  PtyIds = {p1, p2}
  NoPty = NoPty
  NoSession = NoSession
  ReuseIds = TRUE
  ReaderMayFail = TRUE
SYMMETRY Symmetry
INVARIANT MapsAgree
INVARIANT StrandedOnlyByReaderClone
INVARIANT NoForgottenChild
INVARIANT NoGhostClient
