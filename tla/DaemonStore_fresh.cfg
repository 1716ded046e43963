SPECIFICATION FairSpec
CONSTANTS
  SessionIds = {s1, s2}
  Clients = {c1}
  PtyIds = {p1, p2}
  NoPty = NoPty
  NoSession = NoSession
  ReuseIds = FALSE
  ReaderMayFail = FALSE
INVARIANT WaitFindsExitedChild
PROPERTY ExitCodeKept
PROPERTY ExitIsNoticed
PROPERTY ShutdownCompletes
