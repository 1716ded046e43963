SPECIFICATION FairSpec
CONSTANTS
    t1 = t1  t2 = t2  s1 = s1
    Terminals = {t1, t2}
    Sessions = {s1}
    SessionOf <- OneSession
    AckReaders = {t1, t2}
    NoTerminal = NoTerminal
    MaxMsgs = 2
    MsgLen = 2
    ReqCap = 2
    AckCap = 1
    TtyCap = 1
INVARIANTS MessagesWhole
PROPERTIES IsFairInputPipe StopIsServed
