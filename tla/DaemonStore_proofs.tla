-------------------------- MODULE DaemonStore_proofs --------------------------
(* Proofs about DaemonStore, for every value of its constants. *)
EXTENDS DaemonStore, TLAPS

\* Facts about sequences of PTY ids the channel needs.
LEMMA ChannelType ==
    ASSUME NEW S, NEW q \in Seq(S)
    PROVE  /\ \A e \in S : Append(q, e) \in Seq(S)
           /\ q # <<>> => Head(q) \in S /\ Tail(q) \in Seq(S)
  OBVIOUS

\* Records: what the helpers on sessions return.
LEMMA SessionType ==
    /\ \A p \in PtyIds : NewSession(p) \in Session
    /\ \A ses \in Session : SetStopped(ses) \in Session
    /\ \A ses \in Session \cup {NoSession}, code \in {"none", "some"} :
          RecordExit(ses, code) \in Session \cup {NoSession}
    /\ \A ses \in Session \cup {NoSession}, c \in Clients :
          Detached(ses, c) \in Session \cup {NoSession}
<1>1. \A p \in PtyIds : NewSession(p) \in Session
  BY DEF Session, NewSession
<1>2. \A ses \in Session : SetStopped(ses) \in Session
  BY DEF Session, SetStopped
<1>3. ASSUME NEW ses \in Session \cup {NoSession}, NEW code \in {"none", "some"}
      PROVE  RecordExit(ses, code) \in Session \cup {NoSession}
  BY DEF Session, SetStopped, RecordExit
<1>4. ASSUME NEW ses \in Session \cup {NoSession}, NEW c \in Clients
      PROVE  Detached(ses, c) \in Session \cup {NoSession}
  BY DEF Session, Detached
<1> QED
  BY <1>1, <1>2, <1>3, <1>4

\* What stopping a session leaves behind.
LEMMA SessionFields ==
    /\ \A ses \in Session :
          /\ SetStopped(ses).state = "stopped"
          /\ SetStopped(ses).output_tx = NoPty
          /\ SetStopped(ses).exit_code = ses.exit_code
          /\ SetStopped(ses) # NoSession
    /\ \A ses \in Session, code \in {"none", "some"} :
          /\ RecordExit(ses, code).state = "stopped"
          /\ RecordExit(ses, code).output_tx = NoPty
          /\ RecordExit(ses, code).exit_code = code
          /\ RecordExit(ses, code) # NoSession
    /\ \A code \in {"none", "some"} : RecordExit(NoSession, code) = NoSession
<1>1. ASSUME NEW ses \in Session
      PROVE  /\ SetStopped(ses).state = "stopped"
             /\ SetStopped(ses).output_tx = NoPty
             /\ SetStopped(ses).exit_code = ses.exit_code
             /\ SetStopped(ses) \in Session
  BY DEF Session, SetStopped
<1>2. ASSUME NEW ses \in Session, NEW code \in {"none", "some"}
      PROVE  /\ RecordExit(ses, code).state = "stopped"
             /\ RecordExit(ses, code).output_tx = NoPty
             /\ RecordExit(ses, code).exit_code = code
             /\ RecordExit(ses, code) \in Session
  <2>1. /\ ses # NoSession
        /\ RecordExit(ses, code) = [SetStopped(ses) EXCEPT !.exit_code = code]
    BY NoSessionIsNone DEF RecordExit
  <2> HIDE DEF SetStopped
  <2> QED BY <1>1, <2>1 DEF Session
<1>3. \A code \in {"none", "some"} : RecordExit(NoSession, code) = NoSession
  BY DEF RecordExit
<1> QED
  BY <1>1, <1>2, <1>3, NoSessionIsNone

\* Kill only touches children and the history of failures.
LEMMA KillType ==
    ASSUME child \in [PtyIds -> {"unborn", "alive", "dead"}],
           killFailed \subseteq PtyIds,
           NEW P, Kill(P)
    PROVE  /\ child' \in [PtyIds -> {"unborn", "alive", "dead"}]
           /\ P \subseteq PtyIds => killFailed' \subseteq PtyIds
  BY DEF Kill

\* A new event at the end of the channel, or the first one gone.
LEMMA ChannelDone ==
    ASSUME NEW q \in Seq(PtyIds), NEW r \in [PtyIds -> {"none", "reading", "done"}],
           \A i \in 1 .. Len(q) : r[q[i]] = "done"
    PROVE  /\ \A p \in PtyIds : r[p] = "done" =>
                 \A i \in 1 .. Len(Append(q, p)) : r[Append(q, p)[i]] = "done"
           /\ q # <<>> => /\ r[Head(q)] = "done"
                          /\ \A i \in 1 .. Len(Tail(q)) : r[Tail(q)[i]] = "done"
<1>1. ASSUME NEW p \in PtyIds, r[p] = "done", NEW i \in 1 .. Len(Append(q, p))
      PROVE  r[Append(q, p)[i]] = "done"
  BY <1>1
<1>2. ASSUME q # <<>> PROVE r[Head(q)] = "done"
  BY <1>2
<1>3. ASSUME q # <<>>, NEW i \in 1 .. Len(Tail(q))
      PROVE  r[Tail(q)[i]] = "done"
  BY <1>3
<1> QED BY <1>1, <1>2, <1>3

\* The session an event is for is one some client created.
LEMMA EventSessionType ==
    ASSUME TypeOK, Provenance, exit_rx # <<>>
    PROVE  EventSession \in SessionIds
<1>1. Head(exit_rx) \in PtyIds /\ reader[Head(exit_rx)] = "done"
  BY ChannelType, ChannelDone DEF TypeOK, Provenance, EventsFromDoneReaders
<1> QED BY <1>1 DEF TypeOK, Provenance, UnopenedIsIdle, EventSession

\* The variables have their types after every step.
LEMMA TypePreserved == TypeOK /\ Provenance /\ [Next]_vars => TypeOK'
<1> SUFFICES ASSUME TypeOK, Provenance, [Next]_vars PROVE TypeOK'
  OBVIOUS
<1> USE DEF TypeOK, store, procs, conns
<1>1. ASSUME NEW c \in Clients, Connect(c) PROVE TypeOK'
  BY <1>1 DEF Connect
<1>2. ASSUME NEW c \in Clients, Disconnect(c) PROVE TypeOK'
  BY <1>2 DEF Disconnect
<1>3. ASSUME NEW c \in Clients, DetachClientFromAll(c) PROVE TypeOK'
  BY <1>3, SessionType DEF DetachClientFromAll
<1>4. ASSUME NEW c \in Clients, NEW s \in SessionIds, NEW p \in PtyIds,
             CreateSession(c, s, p)
      PROVE TypeOK'
  BY <1>4, SessionType DEF CreateSession, Opening
<1>5. ASSUME NEW c \in Clients, NEW s \in SessionIds, NEW p \in PtyIds,
             CreateFailsAtWriter(c, s, p)
      PROVE TypeOK'
  BY <1>5 DEF CreateFailsAtWriter, Opening
<1>6. ASSUME NEW c \in Clients, NEW s \in SessionIds, NEW p \in PtyIds,
             CreateFailsAtReader(c, s, p)
      PROVE TypeOK'
  BY <1>6 DEF CreateFailsAtReader, Opening
<1>7. ASSUME NEW c \in Clients, NEW s \in SessionIds, AttachClient(c, s)
      PROVE TypeOK'
  <2>1. [sessions[s] EXCEPT !.attached_clients = @ \cup {c}] \in Session
    BY <1>7 DEF AttachClient, IsRunning, Session
  <2> QED BY <1>7, <2>1 DEF AttachClient
<1>8. ASSUME NEW c \in Clients, NEW s \in SessionIds, DetachClient(c, s)
      PROVE TypeOK'
  BY <1>8, SessionType DEF DetachClient
<1>9. ASSUME NEW c \in Clients, NEW s \in SessionIds, StopSession(c, s)
      PROVE TypeOK'
  <2>1. {ptys[s]} \ {NoPty} \subseteq PtyIds
    OBVIOUS
  <2>2. sessions[s] \in Session
    BY <1>9 DEF StopSession, IsRunning
  <2> QED BY <1>9, <2>1, <2>2, KillType, SessionType DEF StopSession
<1>10. ASSUME NEW c \in Clients, NEW s \in SessionIds, DestroySession(c, s)
       PROVE TypeOK'
  <2>1. {ptys[s]} \ {NoPty} \subseteq PtyIds
    OBVIOUS
  <2> QED BY <1>10, <2>1, KillType DEF DestroySession
<1>11. ASSUME NEW p \in PtyIds, ChildExits(p) PROVE TypeOK'
  BY <1>11 DEF ChildExits
<1>12. ASSUME NEW p \in PtyIds, ReaderEnds(p) PROVE TypeOK'
  BY <1>12, ChannelType DEF ReaderEnds
<1>13. CASE HandlePtyExit
  BY <1>13, ChannelType, EventSessionType DEF HandlePtyExit, NextEvent
<1>14. ASSUME NEW code \in {"none", "some"}, WaitReturns(code) PROVE TypeOK'
  BY <1>14, SessionType DEF WaitReturns
<1>15. CASE HandlePtyAlreadyRemoved
  BY <1>15, ChannelType, SessionType DEF HandlePtyAlreadyRemoved, NextEvent
<1>16. CASE LeaveLoop
  BY <1>16 DEF LeaveLoop
<1>17. CASE StopAll
  <2>1. {ptys[s] : s \in RunningIds} \ {NoPty} \subseteq PtyIds
    BY DEF RunningIds
  <2>2. \A s \in RunningIds : sessions[s] \in Session
    BY DEF RunningIds, IsRunning
  <2> QED BY <1>17, <2>1, <2>2, KillType, SessionType DEF StopAll
<1>18. CASE Exit
  BY <1>18 DEF Exit
<1>19. CASE CancelShutdownToken
  BY <1>19 DEF CancelShutdownToken
<1>20. CASE Terminated \/ UNCHANGED vars
  BY <1>20 DEF Terminated, vars
<1>21. ASSUME NEW c \in Clients,
              WriteReturns(c) \/ \E s \in SessionIds : WriteStdin(c, s)
       PROVE TypeOK'
  BY <1>21 DEF WriteReturns, WriteStdin
<1>22. CASE TakeExitEvent
  BY <1>22 DEF TakeExitEvent
<1> QED
  BY <1>1, <1>2, <1>3, <1>4, <1>5, <1>6, <1>7, <1>8, <1>9, <1>10, <1>11,
     <1>12, <1>13, <1>14, <1>15, <1>16, <1>17, <1>18, <1>19, <1>20, <1>21, <1>22
  DEF Next, ClientStep, PtyStep, MainStep

\* Nothing refers to a PTY that was never opened.
LEMMA FreshUnreferenced ==
    ASSUME TypeOK, Provenance, SessionsMatch, NEW p \in PtyIds, Fresh(p)
    PROVE  /\ child[p] = "unborn" /\ reader[p] = "none"
           /\ \A s \in SessionIds : ptys[s] # p
           /\ waiting # p
           /\ \A s \in SessionIds :
                 sessions[s] # NoSession => sessions[s].output_tx # p
           /\ \A i \in 1 .. Len(exit_rx) : exit_rx[i] # p
  BY DistinctConstants
  DEF Fresh, TypeOK, Provenance, UnopenedIsIdle, EventsFromDoneReaders,
      StoredUnderOwner, WaitedForHasLeft, SessionsMatch

\* Every step keeps the record of where PTYs come from.
LEMMA ProvenancePreserved ==
    ASSUME TypeOK, Provenance, SessionsMatch, [Next]_vars
    PROVE  Provenance'
<1> USE DEF TypeOK, store, procs, conns, UnopenedIsIdle, EventsFromDoneReaders,
            StoredUnderOwner, WaitedForHasLeft
<1>1. CASE UNCHANGED <<ptys, procs, exit_rx, waiting>>
  BY <1>1 DEF Provenance
<1>2. ASSUME NEW c \in Clients, NEW s \in SessionIds, NEW p \in PtyIds,
             \/ CreateSession(c, s, p)
             \/ CreateFailsAtWriter(c, s, p)
             \/ CreateFailsAtReader(c, s, p)
      PROVE  Provenance'
  <2>1. /\ Fresh(p) /\ waiting = NoPty /\ ptys[s] = NoPty
        /\ owner' = [owner EXCEPT ![p] = s]
        /\ ptys' \in {ptys, [ptys EXCEPT ![s] = p]}
        /\ reader' \in {reader, [reader EXCEPT ![p] = "reading"]}
        /\ \A q \in PtyIds : q # p => child'[q] = child[q]
        /\ UNCHANGED <<exit_rx, waiting>>
    BY <1>2 DEF CreateSession, CreateFailsAtWriter, CreateFailsAtReader,
                Opening, Request, LockFree
  <2>2. UnopenedIsIdle'
    BY <2>1, DistinctConstants DEF Provenance
  <2>3. EventsFromDoneReaders'
    BY <2>1, FreshUnreferenced DEF Provenance
  <2>4. StoredUnderOwner'
    BY <2>1, FreshUnreferenced DEF Provenance
  <2>5. WaitedForHasLeft'
    BY <2>1
  <2> QED BY <2>2, <2>3, <2>4, <2>5 DEF Provenance
<1>3. ASSUME NEW P, Kill(P), waiting = NoPty,
             \A s \in SessionIds : ptys'[s] \in {ptys[s], NoPty},
             \A p \in P : owner[p] # NoSession,
             UNCHANGED <<owner, reader, exit_rx, waiting>>
      PROVE  Provenance'
  BY <1>3 DEF Kill, Provenance
<1>4. ASSUME NEW c \in Clients, NEW s \in SessionIds,
             StopSession(c, s) \/ DestroySession(c, s)
      PROVE  Provenance'
  <2>1. \A p \in {ptys[s]} \ {NoPty} : owner[p] # NoSession
    BY DistinctConstants DEF Provenance
  <2> QED BY <1>3, <1>4, <2>1
          DEF StopSession, DestroySession, Request, LockFree
<1>5. CASE StopAll
  <2>1. \A p \in {ptys[s] : s \in RunningIds} \ {NoPty} : owner[p] # NoSession
    BY DistinctConstants DEF Provenance, RunningIds
  <2> QED BY <1>3, <1>5, <2>1 DEF StopAll, LockFree
<1>6. ASSUME NEW p \in PtyIds, ChildExits(p) PROVE Provenance'
  BY <1>6 DEF ChildExits, Provenance
<1>7. ASSUME NEW p \in PtyIds, ReaderEnds(p) PROVE Provenance'
  BY <1>7, ChannelType, ChannelDone DEF ReaderEnds, Provenance
<1>8. CASE HandlePtyExit
  <2>1. EventSession \in SessionIds
    BY <1>8, EventSessionType DEF HandlePtyExit, NextEvent
  <2>2. EventsFromDoneReaders'
    BY <1>8, ChannelType, ChannelDone DEF HandlePtyExit, NextEvent, Provenance
  <2>3. UnopenedIsIdle' /\ StoredUnderOwner'
    BY <1>8, <2>1 DEF HandlePtyExit, Provenance
  <2>4. WaitedForHasLeft'
    BY <1>8, <2>1, DistinctConstants DEF HandlePtyExit, Provenance
  <2> QED BY <2>2, <2>3, <2>4 DEF Provenance
<1>9. ASSUME NEW code \in {"none", "some"}, WaitReturns(code)
      PROVE  Provenance'
  BY <1>9 DEF WaitReturns, Provenance
<1>10. CASE HandlePtyAlreadyRemoved
  <2>1. EventsFromDoneReaders'
    BY <1>10, ChannelType, ChannelDone
    DEF HandlePtyAlreadyRemoved, NextEvent, Provenance
  <2> QED BY <1>10, <2>1 DEF HandlePtyAlreadyRemoved, Provenance
<1> QED
  BY <1>1, <1>2, <1>4, <1>5, <1>6, <1>7, <1>8, <1>9, <1>10
  DEF Next, ClientStep, PtyStep, MainStep, vars, Connect, Disconnect,
      DetachClientFromAll, AttachClient, DetachClient, LeaveLoop,
      TakeExitEvent, WriteStdin, WriteReturns, Exit, CancelShutdownToken,
      Terminated

\* Requests that change only who is attached leave everything else alone.
LEMMA SameButClients ==
    ASSUME TypeOK, NEW c \in Clients,
           \/ DetachClientFromAll(c)
           \/ \E s \in SessionIds : AttachClient(c, s) \/ DetachClient(c, s)
    PROVE  /\ UNCHANGED <<ptys, procs, exit_rx, waiting>>
           /\ \A s \in SessionIds :
                 /\ sessions'[s] = NoSession <=> sessions[s] = NoSession
                 /\ sessions[s] # NoSession =>
                       /\ sessions'[s].state = sessions[s].state
                       /\ sessions'[s].output_tx = sessions[s].output_tx
                       /\ sessions'[s].exit_code = sessions[s].exit_code
<1> USE DEF TypeOK, store, procs, conns
<1> DEFINE With(ses, C) == [ses EXCEPT !.attached_clients = C]
<1>1. /\ UNCHANGED <<ptys, procs, exit_rx, waiting>>
      /\ \A s \in SessionIds :
            \/ sessions'[s] = sessions[s]
            \/ /\ sessions[s] \in Session
               /\ \E C \in SUBSET Clients : sessions'[s] = With(sessions[s], C)
  <2>1. CASE DetachClientFromAll(c)
    BY <2>1 DEF DetachClientFromAll, Detached, Session
  <2>2. ASSUME NEW t \in SessionIds, AttachClient(c, t)
        PROVE  /\ UNCHANGED <<ptys, procs, exit_rx, waiting>>
               /\ \A s \in SessionIds : s # t => sessions'[s] = sessions[s]
               /\ sessions[t] \in Session
               /\ sessions'[t] =
                    With(sessions[t], sessions[t].attached_clients \cup {c})
    BY <2>2 DEF AttachClient, IsRunning
  <2>3. ASSUME NEW t \in SessionIds, DetachClient(c, t)
        PROVE  /\ UNCHANGED <<ptys, procs, exit_rx, waiting>>
               /\ \A s \in SessionIds : s # t => sessions'[s] = sessions[s]
               /\ \/ sessions'[t] = sessions[t]
                  \/ /\ sessions[t] \in Session
                     /\ sessions'[t] =
                          With(sessions[t], sessions[t].attached_clients \ {c})
    BY <2>3 DEF DetachClient, Detached
  <2>4. \A ses \in Session : /\ ses.attached_clients \cup {c} \in SUBSET Clients
                              /\ ses.attached_clients \ {c} \in SUBSET Clients
    BY DEF Session
  <2> HIDE DEF With
  <2> QED BY <2>1, <2>2, <2>3, <2>4
<1>2. ASSUME NEW s \in SessionIds
      PROVE  /\ sessions'[s] = NoSession <=> sessions[s] = NoSession
             /\ sessions[s] # NoSession =>
                   /\ sessions'[s].state = sessions[s].state
                   /\ sessions'[s].output_tx = sessions[s].output_tx
                   /\ sessions'[s].exit_code = sessions[s].exit_code
  <2>1. CASE sessions'[s] = sessions[s]
    BY <2>1
  <2>2. ASSUME sessions[s] \in Session, NEW C \in SUBSET Clients,
               sessions'[s] = With(sessions[s], C)
        PROVE  /\ sessions'[s] # NoSession /\ sessions[s] # NoSession
               /\ sessions'[s].state = sessions[s].state
               /\ sessions'[s].output_tx = sessions[s].output_tx
               /\ sessions'[s].exit_code = sessions[s].exit_code
    <3>1. /\ With(sessions[s], C) \in Session
          /\ With(sessions[s], C).state = sessions[s].state
          /\ With(sessions[s], C).output_tx = sessions[s].output_tx
          /\ With(sessions[s], C).exit_code = sessions[s].exit_code
      BY <2>2 DEF Session
    <3> HIDE DEF With
    <3> QED BY <2>2, <3>1, NoSessionIsNone
  <2> HIDE DEF With
  <2> QED BY <1>1, <2>1, <2>2
<1> QED
  BY <1>1, <1>2

\* Every step keeps the two maps matched.
LEMMA SessionsMatchPreserved ==
    ASSUME TypeOK, Provenance, SessionsMatch, [Next]_vars
    PROVE  SessionsMatch'
<1> USE NoSessionIsNone, DistinctConstants
<1> USE DEF TypeOK, store, procs, conns
<1>1. CASE UNCHANGED <<sessions, ptys, owner, waiting>>
  BY <1>1 DEF SessionsMatch
<1>2. ASSUME NEW c \in Clients,
             \/ DetachClientFromAll(c)
             \/ \E s \in SessionIds : AttachClient(c, s) \/ DetachClient(c, s)
      PROVE  SessionsMatch'
  BY <1>2, SameButClients DEF SessionsMatch
<1>3. ASSUME NEW c \in Clients, NEW s \in SessionIds, NEW p \in PtyIds,
             CreateSession(c, s, p)
      PROVE  SessionsMatch'
  <2>1. NewSession(p) # NoSession
    BY DEF NewSession, Session
  <2>2. /\ Fresh(p) /\ waiting' = NoPty /\ waiting = NoPty
        /\ ptys' = [ptys EXCEPT ![s] = p]
        /\ owner' = [owner EXCEPT ![p] = s]
        /\ sessions' = [sessions EXCEPT ![s] = NewSession(p)]
    BY <1>3 DEF CreateSession, Opening, Request, LockFree
  <2> QED BY <2>1, <2>2, FreshUnreferenced DEF SessionsMatch, NewSession, Session
<1>4. ASSUME NEW c \in Clients, NEW s \in SessionIds, NEW p \in PtyIds,
             CreateFailsAtWriter(c, s, p) \/ CreateFailsAtReader(c, s, p)
      PROVE  SessionsMatch'
  <2>1. /\ Fresh(p) /\ UNCHANGED <<sessions, waiting>>
        /\ sessions[s] = NoSession
        /\ ptys' \in {ptys, [ptys EXCEPT ![s] = p]}
        /\ owner' = [owner EXCEPT ![p] = s]
    BY <1>4 DEF CreateFailsAtWriter, CreateFailsAtReader, Opening
  <2> QED BY <2>1, FreshUnreferenced DEF SessionsMatch, Session
<1>5. ASSUME NEW c \in Clients, NEW s \in SessionIds, StopSession(c, s)
      PROVE  SessionsMatch'
  BY <1>5 DEF StopSession, SessionsMatch, SetStopped, IsRunning, Request,
              LockFree, Session
<1>6. ASSUME NEW c \in Clients, NEW s \in SessionIds, DestroySession(c, s)
      PROVE  SessionsMatch'
  BY <1>6 DEF DestroySession, SessionsMatch
<1>7. CASE HandlePtyExit
  <2>1. EventSession \in SessionIds /\ waiting = NoPty
    BY <1>7, EventSessionType DEF HandlePtyExit, NextEvent, LockFree
  <2> QED BY <1>7, <2>1 DEF HandlePtyExit, SessionsMatch, Provenance,
                            StoredUnderOwner
<1>8. ASSUME NEW code \in {"none", "some"}, WaitReturns(code)
      PROVE  SessionsMatch'
  <2>1. /\ waiting # NoPty /\ waiting' = NoPty /\ UNCHANGED <<ptys, owner>>
        /\ \A s \in SessionIds : sessions'[s] =
              IF s = owner[waiting] THEN RecordExit(sessions[s], code)
                                    ELSE sessions[s]
    BY <1>8 DEF WaitReturns
  <2>2. ptys[owner[waiting]] = NoPty
    BY <2>1 DEF Provenance, WaitedForHasLeft
  <2> QED BY <2>1, <2>2, SessionFields DEF SessionsMatch
<1>9. CASE HandlePtyAlreadyRemoved
  <2>1. EventSession \in SessionIds /\ waiting = NoPty /\ waiting' = NoPty
        /\ ptys[EventSession] = NoPty /\ UNCHANGED <<ptys, owner>>
        /\ \A s \in SessionIds : sessions'[s] =
              IF s = EventSession THEN RecordExit(sessions[s], "none")
                                  ELSE sessions[s]
    BY <1>9, EventSessionType DEF HandlePtyAlreadyRemoved, NextEvent, LockFree
  <2> QED BY <2>1, SessionFields DEF SessionsMatch
<1>10. CASE StopAll
  <2>1. waiting = NoPty /\ UNCHANGED <<owner, waiting>>
    BY <1>10 DEF StopAll, LockFree
  <2>2. \A s \in SessionIds :
          IF IsRunning(s)
          THEN sessions'[s] = SetStopped(sessions[s]) /\ ptys'[s] = NoPty
          ELSE sessions'[s] = sessions[s] /\ ptys'[s] = ptys[s]
    BY <1>10 DEF StopAll, RunningIds
  <2> QED BY <2>1, <2>2, SessionFields DEF SessionsMatch, IsRunning
<1> QED
  BY <1>1, <1>2, <1>3, <1>4, <1>5, <1>6, <1>7, <1>8, <1>9, <1>10
  DEF Next, ClientStep, PtyStep, MainStep, vars, Connect, Disconnect,
      ChildExits, ReaderEnds, LeaveLoop, TakeExitEvent, WriteStdin,
      WriteReturns, Exit, CancelShutdownToken, Terminated

\* No step strands a PTY that has a reader.
LEMMA StrandedPreserved ==
    ASSUME TypeOK, Provenance, SessionsMatch, StrandedOnlyByReaderClone,
           [Next]_vars
    PROVE  StrandedOnlyByReaderClone'
<1> USE NoSessionIsNone, DistinctConstants
<1> USE DEF TypeOK, store, procs, conns, IsRunning
<1>1. CASE UNCHANGED <<sessions, ptys, reader>>
  BY <1>1 DEF StrandedOnlyByReaderClone
<1>2. ASSUME NEW c \in Clients,
             \/ DetachClientFromAll(c)
             \/ \E s \in SessionIds : AttachClient(c, s) \/ DetachClient(c, s)
      PROVE  StrandedOnlyByReaderClone'
  BY <1>2, SameButClients DEF StrandedOnlyByReaderClone
<1>3. ASSUME NEW c \in Clients, NEW s \in SessionIds, NEW p \in PtyIds,
             CreateSession(c, s, p)
      PROVE  StrandedOnlyByReaderClone'
  <2>1. NewSession(p) # NoSession /\ NewSession(p).state = "running"
    BY DEF NewSession, Session
  <2>2. /\ Fresh(p)
        /\ ptys' = [ptys EXCEPT ![s] = p]
        /\ reader' = [reader EXCEPT ![p] = "reading"]
        /\ sessions' = [sessions EXCEPT ![s] = NewSession(p)]
    BY <1>3 DEF CreateSession, Opening
  <2> QED BY <2>1, <2>2, FreshUnreferenced DEF StrandedOnlyByReaderClone
<1>4. ASSUME NEW c \in Clients, NEW s \in SessionIds, NEW p \in PtyIds,
             CreateFailsAtWriter(c, s, p) \/ CreateFailsAtReader(c, s, p)
      PROVE  StrandedOnlyByReaderClone'
  <2>1. /\ Fresh(p) /\ UNCHANGED <<sessions, reader>>
        /\ ptys' \in {ptys, [ptys EXCEPT ![s] = p]}
    BY <1>4 DEF CreateFailsAtWriter, CreateFailsAtReader, Opening
  <2> QED BY <2>1, FreshUnreferenced DEF StrandedOnlyByReaderClone
<1>5. ASSUME NEW c \in Clients, NEW s \in SessionIds,
             StopSession(c, s) \/ DestroySession(c, s)
      PROVE  StrandedOnlyByReaderClone'
  BY <1>5 DEF StopSession, DestroySession, StrandedOnlyByReaderClone
<1>6. ASSUME NEW p \in PtyIds, ReaderEnds(p)
      PROVE  StrandedOnlyByReaderClone'
  BY <1>6 DEF ReaderEnds, StrandedOnlyByReaderClone
<1>7. CASE HandlePtyExit
  BY <1>7 DEF HandlePtyExit, StrandedOnlyByReaderClone
<1>8. ASSUME NEW code \in {"none", "some"}, WaitReturns(code)
      PROVE  StrandedOnlyByReaderClone'
  BY <1>8 DEF WaitReturns, StrandedOnlyByReaderClone, Provenance,
              WaitedForHasLeft
<1>9. CASE HandlePtyAlreadyRemoved
  BY <1>9 DEF HandlePtyAlreadyRemoved, StrandedOnlyByReaderClone
<1>10. CASE StopAll
  <2>1. \A s \in SessionIds :
          /\ IsRunning(s) => ptys'[s] = NoPty
          /\ ~IsRunning(s) => sessions'[s] = sessions[s] /\ ptys'[s] = ptys[s]
    BY <1>10 DEF StopAll, RunningIds
  <2>2. UNCHANGED reader
    BY <1>10 DEF StopAll
  <2> QED BY <2>1, <2>2 DEF StrandedOnlyByReaderClone
<1> QED
  BY <1>1, <1>2, <1>3, <1>4, <1>5, <1>6, <1>7, <1>8, <1>9, <1>10
  DEF Next, ClientStep, PtyStep, MainStep, vars, Connect, Disconnect,
      ChildExits, LeaveLoop, TakeExitEvent, WriteStdin, WriteReturns, Exit,
      CancelShutdownToken, Terminated

\* No step forgets a child that is alive.
LEMMA ForgottenPreserved ==
    ASSUME TypeOK, Provenance, SessionsMatch, NoForgottenChild, [Next]_vars
    PROVE  NoForgottenChild'
<1> USE DistinctConstants
<1> USE DEF TypeOK, store, procs, conns
<1>1. CASE UNCHANGED <<ptys, owner, child, waiting, killFailed>>
  BY <1>1 DEF NoForgottenChild
<1>2. ASSUME NEW c \in Clients, NEW s \in SessionIds, NEW p \in PtyIds,
             \/ CreateSession(c, s, p)
             \/ CreateFailsAtWriter(c, s, p)
             \/ CreateFailsAtReader(c, s, p)
      PROVE  NoForgottenChild'
  <2>1. /\ Fresh(p) /\ ptys[s] = NoPty /\ UNCHANGED waiting
        /\ owner' = [owner EXCEPT ![p] = s]
        /\ ptys' \in {ptys, [ptys EXCEPT ![s] = p]}
        /\ killFailed \subseteq killFailed'
        /\ \A q \in PtyIds : q # p => child'[q] = child[q]
    BY <1>2 DEF CreateSession, CreateFailsAtWriter, CreateFailsAtReader, Opening
  <2>2. child'[p] = "alive" => ptys'[s] = p \/ p \in killFailed'
    BY <1>2 DEF CreateSession, CreateFailsAtWriter, CreateFailsAtReader
  <2>3. \A q \in PtyIds : child[q] = "alive" => owner[q] \in SessionIds
    BY DEF Provenance, UnopenedIsIdle
  <2> QED BY <2>1, <2>2, <2>3 DEF NoForgottenChild
<1>3. ASSUME NEW P, Kill(P), UNCHANGED <<owner, waiting>>,
             \A s \in SessionIds : ptys'[s] = ptys[s] \/ ptys[s] \in P \cup {NoPty}
      PROVE  NoForgottenChild'
  <2>1. PICK failed \in SUBSET {p \in P : child[p] = "alive"} :
           /\ child' = [p \in PtyIds |-> IF p \in P \ failed THEN "dead"
                                                             ELSE child[p]]
           /\ killFailed' = killFailed \cup failed
    BY <1>3 DEF Kill
  <2>2. ASSUME NEW p \in PtyIds, child'[p] = "alive"
        PROVE  ptys'[owner'[p]] = p \/ waiting' = p \/ p \in killFailed'
    <3>1. child[p] = "alive" /\ (p \in P => p \in killFailed')
      BY <2>1, <2>2
    <3>2. CASE ptys[owner[p]] = p
      <4>1. owner[p] \in SessionIds
        BY <3>1 DEF Provenance, UnopenedIsIdle
      <4> QED BY <1>3, <3>1, <3>2, <4>1
    <3> QED BY <1>3, <2>1, <3>1, <3>2 DEF NoForgottenChild
  <2> QED BY <2>2 DEF NoForgottenChild
<1>4. ASSUME NEW c \in Clients, NEW s \in SessionIds,
             StopSession(c, s) \/ DestroySession(c, s)
      PROVE  NoForgottenChild'
  BY <1>3, <1>4 DEF StopSession, DestroySession
<1>5. CASE StopAll
  BY <1>3, <1>5 DEF StopAll
<1>6. ASSUME NEW p \in PtyIds, ChildExits(p) PROVE NoForgottenChild'
  BY <1>6 DEF ChildExits, NoForgottenChild
<1>7. CASE HandlePtyExit
  <2>1. EventSession \in SessionIds /\ waiting = NoPty
    BY <1>7, EventSessionType DEF HandlePtyExit, NextEvent, LockFree
  <2> QED BY <1>7, <2>1 DEF HandlePtyExit, NoForgottenChild
<1>8. ASSUME NEW code \in {"none", "some"}, WaitReturns(code)
      PROVE  NoForgottenChild'
  BY <1>8 DEF WaitReturns, NoForgottenChild
<1> QED
  BY <1>1, <1>2, <1>4, <1>5, <1>6, <1>7, <1>8
  DEF Next, ClientStep, PtyStep, MainStep, vars, Connect, Disconnect,
      DetachClientFromAll, AttachClient, DetachClient, ReaderEnds, LeaveLoop,
      TakeExitEvent, WriteStdin, WriteReturns, HandlePtyAlreadyRemoved, Exit,
      CancelShutdownToken, Terminated

\* The store's inductive invariant holds initially ...
LEMMA InitStoreInv == Init => StoreInv
<1> SUFFICES ASSUME Init PROVE StoreInv
  OBVIOUS
<1>1. exit_rx \in Seq(PtyIds) /\ Len(exit_rx) = 0
  BY DEF Init
<1>2. TypeOK
  BY <1>1 DEF Init, TypeOK
<1>3. Provenance
  BY <1>1, DistinctConstants
  DEF Init, Provenance, UnopenedIsIdle, EventsFromDoneReaders,
      StoredUnderOwner, WaitedForHasLeft
<1>4. SessionsMatch
  BY DEF Init, SessionsMatch
<1>5. StrandedOnlyByReaderClone
  BY DEF Init, StrandedOnlyByReaderClone
<1>6. NoForgottenChild
  BY DEF Init, NoForgottenChild
<1> QED BY <1>2, <1>3, <1>4, <1>5, <1>6 DEF StoreInv

\* ... and every step keeps it ...
LEMMA NextStoreInv == StoreInv /\ [Next]_vars => StoreInv'
  BY TypePreserved, ProvenancePreserved, SessionsMatchPreserved,
     StrandedPreserved, ForgottenPreserved DEF StoreInv

\* ... so it holds in every reachable state.
THEOREM StoreInvariant == Spec => []StoreInv
  BY InitStoreInv, NextStoreInv, PTL DEF Spec

\* The variables have their types in every reachable state.
THEOREM TypeCorrect == Spec => []TypeOK
<1>1. StoreInv => TypeOK
  BY DEF StoreInv
<1> QED BY StoreInvariant, <1>1, PTL

\* The two maps of the store agree whenever its lock is free.
THEOREM StoreConsistent == Spec => []MapsAgree
<1>1. StoreInv => MapsAgree
  BY DistinctConstants
  DEF StoreInv, TypeOK, SessionsMatch, MapsAgree, Session
<1> QED BY StoreInvariant, <1>1, PTL

\* A PTY with a reader is never in the store without its running session.
THEOREM NothingStranded == Spec => []StrandedOnlyByReaderClone
<1>1. StoreInv => StrandedOnlyByReaderClone
  BY DEF StoreInv
<1> QED BY StoreInvariant, <1>1, PTL

\* Every child that is alive is in the store, waited for, or failed to be killed.
THEOREM NothingForgotten == Spec => []NoForgottenChild
<1>1. StoreInv => NoForgottenChild
  BY DEF StoreInv
<1> QED BY StoreInvariant, <1>1, PTL

\* What the helpers on sessions do to the clients attached.
LEMMA SessionClients ==
    /\ \A p \in PtyIds : NewSession(p).attached_clients = {}
    /\ \A ses \in Session :
          SetStopped(ses).attached_clients = ses.attached_clients
    /\ \A ses \in Session, code \in {"none", "some"} :
          RecordExit(ses, code).attached_clients = ses.attached_clients
    /\ \A ses \in Session, c \in Clients :
          /\ Detached(ses, c) \in Session
          /\ Detached(ses, c).attached_clients = ses.attached_clients \ {c}
<1>1. \A p \in PtyIds : NewSession(p).attached_clients = {}
  BY DEF NewSession
<1>2. ASSUME NEW ses \in Session
      PROVE  /\ SetStopped(ses).attached_clients = ses.attached_clients
             /\ SetStopped(ses) \in Session
  BY DEF Session, SetStopped
<1>3. ASSUME NEW ses \in Session, NEW code \in {"none", "some"}
      PROVE  RecordExit(ses, code).attached_clients = ses.attached_clients
  <2>1. RecordExit(ses, code) = [SetStopped(ses) EXCEPT !.exit_code = code]
    BY NoSessionIsNone DEF RecordExit
  <2> HIDE DEF SetStopped
  <2> QED BY <1>2, <2>1 DEF Session
<1>4. ASSUME NEW ses \in Session, NEW c \in Clients
      PROVE  /\ Detached(ses, c) \in Session
             /\ Detached(ses, c).attached_clients = ses.attached_clients \ {c}
  BY NoSessionIsNone DEF Session, Detached
<1> QED
  BY <1>1, <1>2, <1>3, <1>4

\* No step but an attach adds a client, and that client's connection is open.
LEMMA GhostPreserved ==
    ASSUME TypeOK, Provenance, NoGhostClient, [Next]_vars
    PROVE  NoGhostClient'
<1> USE DEF store, procs, conns
<1>1. CASE UNCHANGED <<sessions, conn>>
  BY <1>1 DEF NoGhostClient
<1>2. ASSUME NEW c \in Clients, Connect(c) \/ Disconnect(c)
      PROVE  NoGhostClient'
  <2>1. /\ UNCHANGED sessions
        /\ \A d \in Clients : conn[d] \in {"open", "closing"} =>
                                  conn'[d] \in {"open", "closing"}
    BY <1>2 DEF Connect, Disconnect, TypeOK
  <2>2. \A s \in SessionIds :
           sessions[s] # NoSession => sessions[s].attached_clients \subseteq Clients
    BY DEF TypeOK, Session
  <2> QED BY <2>1, <2>2 DEF NoGhostClient
<1>3. ASSUME \A s \in SessionIds :
                sessions'[s] # NoSession =>
                    \/ sessions'[s].attached_clients = {}
                    \/ /\ sessions[s] # NoSession
                       /\ sessions'[s].attached_clients
                             \subseteq sessions[s].attached_clients,
             UNCHANGED conn
      PROVE  NoGhostClient'
  BY <1>3 DEF NoGhostClient
<1>4. ASSUME NEW c \in Clients, DetachClientFromAll(c) PROVE NoGhostClient'
  <2>1. /\ conn' = [conn EXCEPT ![c] = "closed"]
        /\ \A s \in SessionIds : sessions'[s] = Detached(sessions[s], c)
    BY <1>4 DEF DetachClientFromAll
  <2>2. ASSUME NEW s \in SessionIds, sessions'[s] # NoSession
        PROVE  /\ sessions[s] # NoSession
               /\ sessions[s].attached_clients \subseteq Clients
               /\ sessions'[s].attached_clients =
                     sessions[s].attached_clients \ {c}
    <3>1. sessions[s] \in Session
      BY <2>1, <2>2 DEF Detached, TypeOK
    <3> QED BY <2>1, <3>1, SessionClients, NoSessionIsNone DEF Session
  <2>3. \A d \in Clients : d # c => conn'[d] = conn[d]
    BY <2>1 DEF TypeOK
  <2> QED BY <2>2, <2>3 DEF NoGhostClient
<1>5. ASSUME NEW c \in Clients, NEW s \in SessionIds, AttachClient(c, s)
      PROVE  NoGhostClient'
  <2>1. /\ conn[c] = "open" /\ conn' = conn
        /\ sessions[s] \in Session
        /\ sessions' = [sessions EXCEPT ![s] =
              [sessions[s] EXCEPT
                  !.attached_clients = sessions[s].attached_clients \cup {c}]]
    BY <1>5 DEF AttachClient, Request, IsRunning, TypeOK
  <2>2. [sessions[s] EXCEPT
            !.attached_clients = sessions[s].attached_clients \cup {c}].attached_clients
          = sessions[s].attached_clients \cup {c}
    BY <2>1 DEF Session
  <2>3. sessions'[s].attached_clients = sessions[s].attached_clients \cup {c}
    BY <2>1, <2>2 DEF TypeOK
  <2>4. \A t \in SessionIds : t # s => sessions'[t] = sessions[t]
    BY <2>1 DEF TypeOK
  <2> QED BY <2>1, <2>3, <2>4, NoSessionIsNone DEF NoGhostClient
<1>6. ASSUME NEW c \in Clients, NEW s \in SessionIds,
             \/ DetachClient(c, s)
             \/ StopSession(c, s)
             \/ DestroySession(c, s)
             \/ \E p \in PtyIds : \/ CreateSession(c, s, p)
                                  \/ CreateFailsAtWriter(c, s, p)
                                  \/ CreateFailsAtReader(c, s, p)
      PROVE  NoGhostClient'
  <2>1. /\ UNCHANGED conn
        /\ \A t \in SessionIds : t # s => sessions'[t] = sessions[t]
    BY <1>6 DEF DetachClient, StopSession, DestroySession, CreateSession,
                CreateFailsAtWriter, CreateFailsAtReader, Opening, TypeOK
  <2>2. \/ sessions'[s] \in {sessions[s], NoSession}
        \/ \E p \in PtyIds : sessions'[s] = NewSession(p)
        \/ /\ sessions[s] \in Session
           /\ sessions'[s] \in {Detached(sessions[s], c), SetStopped(sessions[s])}
    BY <1>6, NoSessionIsNone
    DEF DetachClient, StopSession, DestroySession, CreateSession, IsRunning,
        CreateFailsAtWriter, CreateFailsAtReader, Opening, TypeOK, Detached
  <2> QED BY <1>3, <2>1, <2>2, SessionClients, NoSessionIsNone
<1>7. ASSUME NEW t \in SessionIds, NEW code \in {"none", "some"},
             sessions' = [sessions EXCEPT ![t] = RecordExit(@, code)],
             UNCHANGED conn
      PROVE  NoGhostClient'
  <2>1. \A s \in SessionIds :
           \/ sessions'[s] = sessions[s]
           \/ sessions[s] \in Session /\ sessions'[s] = RecordExit(sessions[s], code)
    BY <1>7 DEF TypeOK, RecordExit
  <2> QED BY <1>3, <1>7, <2>1, SessionClients, NoSessionIsNone
<1>8. ASSUME NEW code \in {"none", "some"}, WaitReturns(code)
      PROVE  NoGhostClient'
  BY <1>7, <1>8 DEF WaitReturns, TypeOK, Provenance, WaitedForHasLeft
<1>9. CASE HandlePtyAlreadyRemoved
  BY <1>7, <1>9, EventSessionType DEF HandlePtyAlreadyRemoved, NextEvent
<1>10. CASE StopAll
  <2>1. /\ UNCHANGED conn
        /\ \A s \in SessionIds :
              \/ sessions'[s] = sessions[s]
              \/ /\ sessions[s] \in Session
                 /\ sessions'[s] = SetStopped(sessions[s])
    BY <1>10 DEF StopAll, RunningIds, IsRunning, TypeOK
  <2> QED BY <1>3, <2>1, SessionClients, NoSessionIsNone
<1> QED
  BY <1>1, <1>2, <1>4, <1>5, <1>6, <1>8, <1>9, <1>10
  DEF Next, ClientStep, PtyStep, MainStep, vars, ChildExits, ReaderEnds,
      HandlePtyExit, LeaveLoop, TakeExitEvent, WriteStdin, WriteReturns, Exit,
      CancelShutdownToken, Terminated

\* The clients a session counts are connected, in every reachable state.
THEOREM NoClientIsAGhost == Spec => []NoGhostClient
<1>1. Init => NoGhostClient
  BY DEF Init, NoGhostClient
<1>2. StoreInv /\ NoGhostClient /\ [Next]_vars => NoGhostClient'
  BY GhostPreserved DEF StoreInv
<1> QED
  BY StoreInvariant, <1>1, <1>2, PTL DEF Spec

-----------------------------------------------------------------------------
(* What holds when clients do not use a session id twice. *)

\* A create takes an unopened PTY and an id no PTY was opened for.
LEMMA OwnersDistinctPreserved ==
    ASSUME ~ReuseIds, TypeOK, OwnersDistinct, [Next]_vars
    PROVE  OwnersDistinct'
<1> USE DEF TypeOK, store, procs, conns, OwnersDistinct
<1>1. CASE UNCHANGED owner
  BY <1>1
<1>2. ASSUME NEW c \in Clients, NEW s \in SessionIds, NEW p \in PtyIds,
             Opening(c, s, p)
      PROVE  OwnersDistinct'
  BY <1>2, DistinctConstants DEF Opening, IdAvailable, Fresh
<1> QED
  BY <1>1, <1>2
  DEF Next, ClientStep, PtyStep, MainStep, vars, Connect, Disconnect,
      DetachClientFromAll, CreateSession, CreateFailsAtWriter,
      CreateFailsAtReader, AttachClient, DetachClient, StopSession,
      DestroySession, ChildExits, ReaderEnds, HandlePtyExit, WaitReturns,
      HandlePtyAlreadyRemoved, LeaveLoop, TakeExitEvent, WriteStdin,
      WriteReturns, StopAll, Exit, CancelShutdownToken, Terminated

\* A reader that ends only after its child leaves no child behind alive.
LEMMA DoneIsDeadPreserved ==
    ASSUME ~ReaderMayFail, TypeOK, Provenance, SessionsMatch, DoneIsDead,
           [Next]_vars
    PROVE  DoneIsDead'
<1> USE DEF TypeOK, store, procs, conns, DoneIsDead
<1>1. CASE UNCHANGED <<child, reader>>
  BY <1>1
<1>2. ASSUME NEW c \in Clients, NEW s \in SessionIds, NEW p \in PtyIds,
             \/ CreateSession(c, s, p)
             \/ CreateFailsAtWriter(c, s, p)
             \/ CreateFailsAtReader(c, s, p)
      PROVE  DoneIsDead'
  <2>1. /\ reader[p] = "none"
        /\ reader' \in {reader, [reader EXCEPT ![p] = "reading"]}
        /\ \A q \in PtyIds : q # p => child'[q] = child[q]
    BY <1>2, FreshUnreferenced
    DEF CreateSession, CreateFailsAtWriter, CreateFailsAtReader, Opening
  <2> QED BY <2>1
<1>3. ASSUME NEW P, Kill(P), UNCHANGED reader PROVE DoneIsDead'
  BY <1>3 DEF Kill
<1>4. ASSUME NEW p \in PtyIds, PtyStep(p) PROVE DoneIsDead'
  BY <1>4 DEF PtyStep, ChildExits, ReaderEnds
<1> QED
  BY <1>1, <1>2, <1>3, <1>4
  DEF Next, ClientStep, MainStep, vars, Connect, Disconnect,
      DetachClientFromAll, AttachClient, DetachClient, StopSession,
      DestroySession, HandlePtyExit, WaitReturns, HandlePtyAlreadyRemoved,
      LeaveLoop, TakeExitEvent, WriteStdin, WriteReturns, StopAll, Exit,
      CancelShutdownToken, Terminated

\* The PTY an event's session id leads to is the one whose reader sent it.
LEMMA EventFindsItsPty ==
    ASSUME TypeOK, Provenance, OwnersDistinct, exit_rx # <<>>,
           ptys[EventSession] # NoPty
    PROVE  ptys[EventSession] = Head(exit_rx)
<1>1. Head(exit_rx) \in PtyIds /\ EventSession \in SessionIds
  BY ChannelType, EventSessionType DEF TypeOK
<1> QED
  BY <1>1, DistinctConstants
  DEF TypeOK, Provenance, StoredUnderOwner, OwnersDistinct, EventSession

\* Without reuse, the exit handler waits only for children that have exited.
LEMMA WaitPreserved ==
    ASSUME TypeOK, Provenance, SessionsMatch, OwnersDistinct, DoneIsDead,
           WaitFindsExitedChild, [Next]_vars
    PROVE  WaitFindsExitedChild'
<1> USE DEF TypeOK, store, procs, conns, WaitFindsExitedChild
<1>1. CASE UNCHANGED <<waiting, child>>
  BY <1>1
<1>2. CASE waiting' = NoPty
  BY <1>2
<1>3. ASSUME waiting = NoPty, UNCHANGED waiting PROVE WaitFindsExitedChild'
  BY <1>3
<1>4. ASSUME NEW p \in PtyIds, ChildExits(p) PROVE WaitFindsExitedChild'
  BY <1>4 DEF ChildExits
<1>5. CASE HandlePtyExit
  <2>1. waiting' = Head(exit_rx) /\ child' = child
    BY <1>5, EventFindsItsPty DEF HandlePtyExit, NextEvent
  <2>2. Head(exit_rx) \in PtyIds /\ reader[Head(exit_rx)] = "done"
    BY <1>5, ChannelType, ChannelDone
    DEF HandlePtyExit, NextEvent, Provenance, EventsFromDoneReaders
  <2> QED BY <2>1, <2>2 DEF DoneIsDead
<1> HIDE DEF WaitFindsExitedChild, TypeOK
<1>6. ASSUME NEW c \in Clients, ClientStep(c) PROVE WaitFindsExitedChild'
  <2>1. UNCHANGED waiting /\ (waiting = NoPty \/ UNCHANGED child)
    BY <1>6
    DEF ClientStep, Connect, Disconnect, DetachClientFromAll, CreateSession,
        CreateFailsAtWriter, CreateFailsAtReader, Opening, Request, LockFree,
        AttachClient, DetachClient, WriteStdin, WriteReturns, StopSession,
        DestroySession
  <2> QED BY <1>1, <1>3, <2>1
<1>7. ASSUME NEW p \in PtyIds, PtyStep(p) PROVE WaitFindsExitedChild'
  BY <1>1, <1>4, <1>7 DEF PtyStep, ReaderEnds
<1>8. CASE MainStep
  <2>1. ASSUME NEW code \in {"none", "some"}, WaitReturns(code)
        PROVE  waiting' = NoPty
    BY <2>1 DEF WaitReturns
  <2>2. CASE \/ TakeExitEvent
             \/ HandlePtyAlreadyRemoved
             \/ LeaveLoop
             \/ Exit
    BY <1>1, <2>2 DEF TakeExitEvent, HandlePtyAlreadyRemoved, LeaveLoop, Exit
  <2>3. CASE StopAll
    BY <1>3, <2>3 DEF StopAll, LockFree
  <2> QED BY <1>2, <1>5, <1>8, <2>1, <2>2, <2>3 DEF MainStep
<1>9. CASE CancelShutdownToken \/ Terminated \/ UNCHANGED vars
  BY <1>1, <1>9 DEF CancelShutdownToken, Terminated, vars
<1> QED
  BY <1>6, <1>7, <1>8, <1>9 DEF Next

\* The inductive invariant behind WaitFindsExitedChild.
FreshInv == StoreInv /\ OwnersDistinct /\ DoneIsDead /\ WaitFindsExitedChild

\* If no session id is used twice and readers end only after their children,
\* handle_pty_exit never waits for a living child with the lock held.
THEOREM WaitIsImmediate ==
    ~ReuseIds /\ ~ReaderMayFail => (Spec => []WaitFindsExitedChild)
<1> SUFFICES ASSUME ~ReuseIds, ~ReaderMayFail
             PROVE  Spec => []WaitFindsExitedChild
  OBVIOUS
<1>1. Init => FreshInv
  BY InitStoreInv DEF Init, FreshInv, OwnersDistinct, DoneIsDead,
                      WaitFindsExitedChild
<1>2. FreshInv /\ [Next]_vars => FreshInv'
  BY NextStoreInv, OwnersDistinctPreserved, DoneIsDeadPreserved, WaitPreserved
  DEF FreshInv, StoreInv
<1>3. FreshInv => WaitFindsExitedChild
  BY DEF FreshInv
<1> QED
  BY <1>1, <1>2, <1>3, PTL DEF Spec

-----------------------------------------------------------------------------
(* An exit code once recorded is never erased, when ids are not used twice. *)

\* What a queue of distinct PTYs does when one is added.
LEMMA QueueAppend ==
    ASSUME NEW q \in Seq(PtyIds), NEW p \in PtyIds,
           \A i \in 1 .. Len(q) : q[i] # p,
           \A i, j \in 1 .. Len(q) : q[i] = q[j] => i = j
    PROVE  LET r == Append(q, p) IN
           /\ \A i, j \in 1 .. Len(r) : r[i] = r[j] => i = j
           /\ \A e \in PtyIds :
                 (\E i \in 1 .. Len(r) : r[i] = e) =>
                     e = p \/ \E i \in 1 .. Len(q) : q[i] = e
  OBVIOUS

\* A session with an exit code.
Exited(ses) == ses # NoSession /\ ses.exit_code = "some"

\* What is known of events already received survives a step that receives
\* none, records no exit code and gives no session with one another PTY.
LEMMA NoNewExit ==
    ASSUME EventsDistinct, EventConsumed,
           UNCHANGED <<exit_rx, waiting>>,
           \A p \in PtyIds : reader[p] = "done" => reader'[p] = "done",
           \A s \in SessionIds : Exited(sessions'[s]) => Exited(sessions[s]),
           \A s \in SessionIds, p \in PtyIds :
              owner'[p] = s /\ owner[p] # s => ~Exited(sessions'[s]),
           waiting \in PtyIds \cup {NoPty}
    PROVE  EventsDistinct' /\ EventConsumed'
  BY DEF EventsDistinct, EventConsumed, InChannel, Exited

\* No client's step records an exit code or erases one.
LEMMA ClientKeepsExits ==
    ASSUME TypeOK, Provenance, SessionsMatch, NEW c \in Clients, ClientStep(c)
    PROVE  /\ UNCHANGED <<exit_rx, waiting>>
           /\ \A p \in PtyIds : reader[p] = "done" => reader'[p] = "done"
           /\ \A s \in SessionIds : Exited(sessions'[s]) => Exited(sessions[s])
           /\ \A s \in SessionIds :
                 Exited(sessions[s]) /\ sessions'[s] # NoSession =>
                     Exited(sessions'[s])
           /\ \A s \in SessionIds, p \in PtyIds :
                 owner'[p] = s /\ owner[p] # s => ~Exited(sessions'[s])
<1> USE DEF store, procs, conns, Exited
<1>1. CASE \/ Connect(c)
           \/ Disconnect(c)
           \/ \E s \in SessionIds : WriteStdin(c, s)
           \/ WriteReturns(c)
  BY <1>1 DEF Connect, Disconnect, WriteStdin, WriteReturns
<1>2. CASE \/ DetachClientFromAll(c)
           \/ \E s \in SessionIds : AttachClient(c, s) \/ DetachClient(c, s)
  BY <1>2, SameButClients
<1>3. ASSUME NEW s \in SessionIds, NEW p \in PtyIds,
             \/ CreateSession(c, s, p)
             \/ CreateFailsAtWriter(c, s, p)
             \/ CreateFailsAtReader(c, s, p)
      PROVE  /\ UNCHANGED <<exit_rx, waiting>>
             /\ sessions[s] = NoSession
             /\ sessions' \in {sessions, [sessions EXCEPT ![s] = NewSession(p)]}
             /\ owner' = [owner EXCEPT ![p] = s]
             /\ reader[p] = "none"
             /\ reader' \in {reader, [reader EXCEPT ![p] = "reading"]}
  BY <1>3, FreshUnreferenced
  DEF CreateSession, CreateFailsAtWriter, CreateFailsAtReader, Opening
<1>4. \A p \in PtyIds : NewSession(p).exit_code = "none"
  BY DEF NewSession
<1>5. ASSUME NEW s \in SessionIds, StopSession(c, s)
      PROVE  /\ UNCHANGED <<exit_rx, waiting, reader, owner>>
             /\ sessions[s] \in Session
             /\ sessions' = [sessions EXCEPT ![s] = SetStopped(sessions[s])]
  BY <1>5 DEF StopSession, IsRunning, TypeOK
<1>6. ASSUME NEW s \in SessionIds, DestroySession(c, s)
      PROVE  /\ UNCHANGED <<exit_rx, waiting, reader, owner>>
             /\ sessions' = [sessions EXCEPT ![s] = NoSession]
  BY <1>6 DEF DestroySession
<1> USE DEF TypeOK
<1>7. CASE \E s \in SessionIds, p \in PtyIds :
              \/ CreateSession(c, s, p)
              \/ CreateFailsAtWriter(c, s, p)
              \/ CreateFailsAtReader(c, s, p)
  <2>1. PICK s \in SessionIds, p \in PtyIds :
           /\ UNCHANGED <<exit_rx, waiting>>
           /\ sessions[s] = NoSession
           /\ sessions' \in {sessions, [sessions EXCEPT ![s] = NewSession(p)]}
           /\ owner' = [owner EXCEPT ![p] = s]
           /\ reader[p] = "none"
           /\ reader' \in {reader, [reader EXCEPT ![p] = "reading"]}
    BY <1>3, <1>7
  <2>2. /\ sessions'[s] # NoSession => sessions'[s].exit_code = "none"
        /\ \A t \in SessionIds : t # s => sessions'[t] = sessions[t]
    BY <1>4, <2>1
  <2>3. /\ owner'[p] = s
        /\ \A q \in PtyIds :
              q # p => owner'[q] = owner[q] /\ reader'[q] = reader[q]
    BY <2>1
  <2> QED BY <2>1, <2>2, <2>3
<1>8. CASE \E s \in SessionIds : StopSession(c, s)
  BY <1>5, <1>8, SessionFields
<1>9. CASE \E s \in SessionIds : DestroySession(c, s)
  BY <1>6, <1>9
<1> QED
  BY <1>1, <1>2, <1>7, <1>8, <1>9 DEF ClientStep

\* Receiving an event leaves the channel without it, and its PTY's reader done.
LEMMA HeadInChannel ==
    ASSUME TypeOK, Provenance, exit_rx # <<>>
    PROVE  /\ Head(exit_rx) \in PtyIds
           /\ InChannel(Head(exit_rx))
           /\ reader[Head(exit_rx)] = "done"
           /\ EventSession \in SessionIds
<1>1. exit_rx \in Seq(PtyIds)
  BY DEF TypeOK
<1>2. Head(exit_rx) \in PtyIds /\ EventSession \in SessionIds
  BY <1>1, ChannelType, EventSessionType
<1>3. 1 \in 1 .. Len(exit_rx) /\ exit_rx[1] = Head(exit_rx)
  BY <1>1
<1> QED
  BY <1>2, <1>3 DEF InChannel, Provenance, EventsFromDoneReaders

LEMMA TailForgets ==
    ASSUME TypeOK, EventsDistinct, exit_rx # <<>>, exit_rx' = Tail(exit_rx)
    PROVE  /\ EventsDistinct'
           /\ \A q \in PtyIds :
                 InChannel(q)' => InChannel(q) /\ q # Head(exit_rx)
<1>1. exit_rx \in Seq(PtyIds)
  BY DEF TypeOK
<1>2. /\ Len(exit_rx) \in Nat \ {0}
      /\ Head(exit_rx) = exit_rx[1]
      /\ Len(exit_rx') = Len(exit_rx) - 1
      /\ \A i \in 1 .. Len(exit_rx') : exit_rx'[i] = exit_rx[i + 1]
  BY <1>1
<1>3. EventsDistinct'
  BY <1>2 DEF EventsDistinct
<1>4. ASSUME NEW q \in PtyIds, NEW i \in 1 .. Len(exit_rx'), exit_rx'[i] = q
      PROVE  InChannel(q) /\ q # Head(exit_rx)
  <2>1. /\ i + 1 \in 1 .. Len(exit_rx) /\ 1 \in 1 .. Len(exit_rx)
        /\ i + 1 # 1
        /\ exit_rx[i + 1] = q
    BY <1>2, <1>4
  <2>2. exit_rx[i + 1] # exit_rx[1]
    BY <2>1 DEF EventsDistinct
  <2> QED BY <1>2, <2>1, <2>2 DEF InChannel
<1>5. \A q \in PtyIds :
         InChannel(q)' => InChannel(q) /\ q # Head(exit_rx)
  BY <1>4 DEF InChannel
<1> QED
  BY <1>3, <1>5

\* An event is received once: its PTY leaves the channel for good, and an
\* exit code is recorded for the PTY that sent it.
LEMMA ExitsPreserved ==
    ASSUME TypeOK, Provenance, SessionsMatch, OwnersDistinct, EventsDistinct,
           EventConsumed, [Next]_vars
    PROVE  EventsDistinct' /\ EventConsumed'
<1> USE DEF TypeOK, store, procs, conns
<1>1. ASSUME NEW c \in Clients, ClientStep(c)
      PROVE  EventsDistinct' /\ EventConsumed'
  BY <1>1, ClientKeepsExits, NoNewExit
<1>2. CASE UNCHANGED <<exit_rx, waiting, reader, owner, sessions>>
  BY <1>2, NoNewExit
<1>3. ASSUME NEW p \in PtyIds, ReaderEnds(p)
      PROVE  EventsDistinct' /\ EventConsumed'
  <2>1. /\ reader[p] = "reading" /\ reader' = [reader EXCEPT ![p] = "done"]
        /\ exit_rx' = Append(exit_rx, p)
        /\ UNCHANGED <<sessions, owner, waiting>>
    BY <1>3 DEF ReaderEnds
  <2>2. \A i \in 1 .. Len(exit_rx) : exit_rx[i] # p
    BY <2>1 DEF Provenance, EventsFromDoneReaders
  <2>3. /\ EventsDistinct'
        /\ \A q \in PtyIds : InChannel(q)' => q = p \/ InChannel(q)
    BY <2>1, <2>2, QueueAppend DEF EventsDistinct, InChannel
  <2> QED BY <2>1, <2>3 DEF EventConsumed
<1>4. CASE HandlePtyExit
  <2>1. /\ exit_rx # <<>> /\ exit_rx' = Tail(exit_rx)
        /\ waiting' = Head(exit_rx)
        /\ UNCHANGED <<sessions, owner, reader>>
    BY <1>4, EventFindsItsPty DEF HandlePtyExit, NextEvent
  <2>2. /\ EventsDistinct'
        /\ \A q \in PtyIds :
              InChannel(q)' => InChannel(q) /\ q # Head(exit_rx)
    BY <2>1, TailForgets
  <2>3. /\ Head(exit_rx) \in PtyIds
        /\ InChannel(Head(exit_rx))
        /\ reader[Head(exit_rx)] = "done"
    BY <2>1, HeadInChannel
  <2> QED BY <2>1, <2>2, <2>3 DEF EventConsumed
<1>5. ASSUME NEW code \in {"none", "some"}, WaitReturns(code)
      PROVE  EventsDistinct' /\ EventConsumed'
  <2>1. /\ waiting # NoPty /\ waiting' = NoPty
        /\ UNCHANGED <<exit_rx, owner, reader>>
        /\ \A s \in SessionIds : s # owner[waiting] => sessions'[s] = sessions[s]
    BY <1>5 DEF WaitReturns
  <2>2. \A p \in PtyIds : owner[p] = owner[waiting] => p = waiting
    BY <2>1 DEF OwnersDistinct, Provenance, WaitedForHasLeft
  <2>3. EventsDistinct' /\ \A p \in PtyIds : InChannel(p)' = InChannel(p)
    BY <2>1 DEF EventsDistinct, InChannel
  <2> QED BY <2>1, <2>2, <2>3, DistinctConstants DEF EventConsumed
<1>6. CASE HandlePtyAlreadyRemoved
  <2>1. /\ exit_rx # <<>> /\ exit_rx' = Tail(exit_rx)
        /\ UNCHANGED <<owner, reader, waiting>>
        /\ \A s \in SessionIds : sessions'[s] =
              IF s = EventSession THEN RecordExit(sessions[s], "none")
                                  ELSE sessions[s]
    BY <1>6 DEF HandlePtyAlreadyRemoved, NextEvent
  <2>2. /\ EventsDistinct'
        /\ \A q \in PtyIds : InChannel(q)' => InChannel(q)
    BY <2>1, TailForgets
  <2>3. ~Exited(sessions'[EventSession])
    BY <2>1, HeadInChannel, SessionFields DEF Exited
  <2> QED BY <2>1, <2>2, <2>3 DEF EventConsumed, Exited
<1>7. CASE StopAll
  <2>1. UNCHANGED <<exit_rx, waiting, reader, owner>>
    BY <1>7 DEF StopAll
  <2>2. \A s \in SessionIds : Exited(sessions'[s]) => Exited(sessions[s])
    BY <1>7, SessionFields DEF StopAll, RunningIds, IsRunning, Exited
  <2> QED BY <2>1, <2>2, NoNewExit
<1> QED
  BY <1>1, <1>2, <1>3, <1>4, <1>5, <1>6, <1>7
  DEF Next, PtyStep, MainStep, vars, ChildExits, LeaveLoop, TakeExitEvent,
      WriteStdin, WriteReturns, Exit, CancelShutdownToken, Terminated

\* The only steps that write an exit code write it where there is none.
LEMMA ExitCodeStep ==
    ASSUME TypeOK, Provenance, SessionsMatch, OwnersDistinct, EventConsumed,
           [Next]_vars, NEW s \in SessionIds,
           Exited(sessions[s]), sessions'[s] # NoSession
    PROVE  Exited(sessions'[s])
<1> USE DEF TypeOK, store, procs, conns
<1>1. ASSUME NEW c \in Clients, ClientStep(c) PROVE Exited(sessions'[s])
  BY <1>1, ClientKeepsExits
<1>2. CASE sessions' = sessions
  BY <1>2
<1>3. ASSUME NEW code \in {"none", "some"}, WaitReturns(code)
      PROVE  Exited(sessions'[s])
  <2>1. waiting \in PtyIds /\ owner[waiting] # s
    BY <1>3 DEF WaitReturns, EventConsumed, Exited
  <2> QED BY <1>3, <2>1 DEF WaitReturns
<1>4. CASE HandlePtyAlreadyRemoved
  <2>1. /\ Head(exit_rx) \in PtyIds
        /\ InChannel(Head(exit_rx))
    BY <1>4, HeadInChannel DEF HandlePtyAlreadyRemoved, NextEvent
  <2>2. EventSession # s
    BY <2>1 DEF EventConsumed, EventSession, Exited
  <2> QED BY <1>4, <2>2 DEF HandlePtyAlreadyRemoved
<1>5. CASE StopAll
  BY <1>5, SessionFields DEF StopAll, RunningIds, IsRunning, Exited
<1> QED
  BY <1>1, <1>2, <1>3, <1>4, <1>5
  DEF Next, PtyStep, MainStep, vars, ChildExits, ReaderEnds, HandlePtyExit,
      LeaveLoop, TakeExitEvent, WriteStdin, WriteReturns, Exit,
      CancelShutdownToken, Terminated

\* The inductive invariant behind ExitCodeKept.
KeptInv == StoreInv /\ OwnersDistinct /\ EventsDistinct /\ EventConsumed

\* If no session id is used twice, a recorded exit code is not erased while
\* the session exists, even by a reader that ends before its child.
THEOREM ExitCodesAreKept == ~ReuseIds => (Spec => ExitCodeKept)
<1> SUFFICES ASSUME ~ReuseIds PROVE Spec => ExitCodeKept
  OBVIOUS
<1>1. Init => KeptInv
  BY InitStoreInv
  DEF Init, KeptInv, OwnersDistinct, EventsDistinct, EventConsumed
<1>2. KeptInv /\ [Next]_vars => KeptInv'
  BY NextStoreInv, OwnersDistinctPreserved, ExitsPreserved
  DEF KeptInv, StoreInv
<1>3. KeptInv /\ [Next]_vars =>
         [\A s \in SessionIds :
             /\ sessions[s] # NoSession /\ sessions'[s] # NoSession
             /\ sessions[s].exit_code = "some"
             => sessions'[s].exit_code = "some"]_vars
  BY ExitCodeStep DEF KeptInv, StoreInv, Exited
<1> QED
  BY <1>1, <1>2, <1>3, PTL DEF Spec, ExitCodeKept
=============================================================================
