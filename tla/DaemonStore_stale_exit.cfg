SPECIFICATION Spec
CONSTANTS
  SessionIds = {s1}
  Clients = {c1}
  PtyIds = {p1, p2}
  NoPty = NoPty
  NoSession = NoSession
  ReuseIds = TRUE
  ReaderMayFail = FALSE
INVARIANT WaitFindsExitedChild
