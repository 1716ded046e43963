----------------------------- MODULE DaemonStore -----------------------------
(***************************************************************************)
(* The session registry of kild-daemon: DaemonSessionStore (the map of     *)
(* sessions), PtyStore (the map of live PTYs), the blocking reader task of *)
(* each PTY, the channel of PTY exit events, the connection handlers and   *)
(* the main loop of run_server with its shutdown sequence.                 *)
(*                                                                         *)
(* Every request is handled under the store's RwLock, so one request is    *)
(* one step.  Two of its holders may block meanwhile: handle_pty_exit      *)
(* calls wait() on the child with the write lock (waiting names the PTY),  *)
(* and WriteStdin writes into the tty with the read lock (writing).        *)
(*                                                                         *)
(* A PTY id stands for one openpty + spawn: the master, its child process  *)
(* and its reader task.  The code has no such id: the maps, the reader     *)
(* and the exit event know only the session id.                            *)
(***************************************************************************)
EXTENDS Naturals, Sequences, FiniteSets

CONSTANTS
    SessionIds,     \* ids clients name sessions by
    Clients,        \* client connections; each connects once
    PtyIds,         \* PTYs ever opened: bounds the number of creations
    NoPty,          \* "no PTY" in a map or an Option
    NoSession,      \* "no such session" in the sessions map
    ReuseIds,       \* do clients create again under an id used before?
    ReaderMayFail   \* can a reader end while its child is still alive?

ASSUME DistinctConstants == NoPty \notin PtyIds /\ NoSession \notin SessionIds
ASSUME Switches == ReuseIds \in BOOLEAN /\ ReaderMayFail \in BOOLEAN

VARIABLES
    sessions,    \* DaemonSessionStore.sessions
    ptys,        \* PtyStore.ptys
    owner,       \* the session id a PTY was opened for (its reader's capture)
    child,       \* the child process of each PTY
    reader,      \* the blocking reader task of each PTY
    exit_rx,     \* pty_exit_rx: exit events sent and not yet received
    waiting,     \* the PTY handle_pty_exit is waiting for, with the lock held
    conn,        \* each connection's handler
    writing,     \* the PTY each handler is writing into, with the read lock
    shutdown,    \* has the CancellationToken been cancelled?
    main,        \* where run_server is
    killFailed   \* history: PTYs whose kill() returned an error

store == <<sessions, ptys>>
procs == <<owner, child, reader, killFailed>>
conns == <<conn, writing>>
vars  == <<sessions, ptys, owner, child, reader, exit_rx, waiting, conn,
           writing, shutdown, main, killFailed>>

-----------------------------------------------------------------------------
(* Sessions.  Creating is never seen: create_session inserts the session    *)
(* after set_running.  output_tx stands for output_tx and pty_pid, which    *)
(* set_running and set_stopped set and clear together.                      *)

Session == [state            : {"running", "stopped"},
            output_tx        : PtyIds \cup {NoPty},
            attached_clients : SUBSET Clients,
            exit_code        : {"none", "some"}]

ASSUME NoSessionIsNone == NoSession \notin Session

NewSession(p) == [state |-> "running", output_tx |-> p,
                  attached_clients |-> {}, exit_code |-> "none"]

IsRunning(s) == sessions[s] # NoSession /\ sessions[s].state = "running"

\* Mutant: set_stopped leaves the output channel in place.
SetStoppedKeepsTx(ses) == [ses EXCEPT !.state = "stopped"]

\* set_stopped: idempotent, keeps the exit code and the attached clients.
SetStopped(ses) == [ses EXCEPT !.state = "stopped", !.output_tx = NoPty]

\* The end of handle_pty_exit, for a session that may be gone by now.
RecordExit(ses, code) ==
    IF ses = NoSession THEN NoSession
    ELSE [SetStopped(ses) EXCEPT !.exit_code = code]

\* Mutant: only running sessions are detached from.
DetachedIfRunning(ses, c) ==
    IF ses = NoSession THEN NoSession
    ELSE IF ses.state = "stopped" THEN ses
    ELSE [ses EXCEPT !.attached_clients = @ \ {c}]

Detached(ses, c) ==
    IF ses = NoSession THEN NoSession
    ELSE [ses EXCEPT !.attached_clients = @ \ {c}]

Idle(c) == conn[c] = "open" /\ writing[c] = NoPty

\* The store's write lock can be taken.
LockFree ==
    /\ waiting = NoPty
    /\ \A c \in Clients : writing[c] = NoPty
    /\ main # "exited"

\* The store's read lock can be taken.  tokio's RwLock is fair: once the main
\* loop waits for the write lock no reader gets in any more.
ReadLockFree == waiting = NoPty /\ main \in {"serving", "cleanup"}

\* The handler of connection c dispatches a request that takes the lock.
Request(c) == LockFree /\ conn[c] = "open"

\* Mutant: the PTY is dropped without killing its child.
KillNothing(P) == P \subseteq PtyIds /\ UNCHANGED <<child, killFailed>>

\* kill() on each PTY of P.  It may fail for a child that is alive.
Kill(P) ==
    \E failed \in SUBSET {p \in P : child[p] = "alive"} :
        /\ child' = [p \in PtyIds |-> IF p \in P \ failed THEN "dead"
                                                          ELSE child[p]]
        /\ killFailed' = killFailed \cup failed

Fresh(p) == owner[p] = NoSession

IdAvailable(s) == ReuseIds \/ \A p \in PtyIds : owner[p] # s

-----------------------------------------------------------------------------
Init ==
    /\ sessions = [s \in SessionIds |-> NoSession]
    /\ ptys = [s \in SessionIds |-> NoPty]
    /\ owner = [p \in PtyIds |-> NoSession]
    /\ child = [p \in PtyIds |-> "unborn"]
    /\ reader = [p \in PtyIds |-> "none"]
    /\ exit_rx = <<>>
    /\ waiting = NoPty
    /\ conn = [c \in Clients |-> "new"]
    /\ writing = [c \in Clients |-> NoPty]
    /\ shutdown = FALSE
    /\ main = "serving"
    /\ killFailed = {}

-----------------------------------------------------------------------------
(* Connections. *)

\* handle_connection starts: it takes the write lock to allocate a client id.
Connect(c) ==
    /\ LockFree
    /\ conn[c] = "new"
    /\ conn' = [conn EXCEPT ![c] = "open"]
    /\ UNCHANGED <<store, procs, exit_rx, waiting, writing, shutdown, main>>

\* The request loop ends: end of stream, a read or write error, or shutdown.
Disconnect(c) ==
    /\ main # "exited"
    /\ Idle(c)
    /\ conn' = [conn EXCEPT ![c] = "closing"]
    /\ UNCHANGED <<store, procs, exit_rx, waiting, writing, shutdown, main>>

\* Then, under the lock again, the client is detached from every session.
DetachClientFromAll(c) ==
    /\ LockFree
    /\ conn[c] = "closing"
    /\ conn' = [conn EXCEPT ![c] = "closed"]
    /\ sessions' = [s \in SessionIds |-> Detached(sessions[s], c)]
    /\ UNCHANGED <<ptys, procs, exit_rx, waiting, writing, shutdown, main>>

-----------------------------------------------------------------------------
(* Requests.  A request that is refused changes nothing. *)

\* What create_session checks before it opens a PTY for session s.
Opening(c, s, p) ==
    /\ Request(c)
    /\ sessions[s] = NoSession
    /\ ptys[s] = NoPty
    /\ IdAvailable(s)
    /\ Fresh(p)
    /\ owner' = [owner EXCEPT ![p] = s]

CreateSession(c, s, p) ==
    /\ Opening(c, s, p)
    /\ child' = [child EXCEPT ![p] = "alive"]
    /\ ptys' = [ptys EXCEPT ![s] = p]
    /\ reader' = [reader EXCEPT ![p] = "reading"]
    /\ sessions' = [sessions EXCEPT ![s] = NewSession(p)]
    /\ UNCHANGED <<exit_rx, waiting, conns, shutdown, main, killFailed>>

\* take_writer fails: the child is killed before the PTY enters the store.
CreateFailsAtWriter(c, s, p) ==
    /\ Opening(c, s, p)
    /\ \E dead \in BOOLEAN :
          /\ child' = [child EXCEPT ![p] = IF dead THEN "dead" ELSE "alive"]
          /\ killFailed' = IF dead THEN killFailed ELSE killFailed \cup {p}
    /\ UNCHANGED <<store, reader, exit_rx, waiting, conns, shutdown, main>>

\* try_clone_reader fails: the PTY is in the store, its session is not, and
\* no reader will ever report that the child has exited.
CreateFailsAtReader(c, s, p) ==
    /\ Opening(c, s, p)
    /\ child' = [child EXCEPT ![p] = "alive"]
    /\ ptys' = [ptys EXCEPT ![s] = p]
    /\ UNCHANGED <<sessions, reader, exit_rx, waiting, conns, shutdown, main,
                   killFailed>>

AttachClient(c, s) ==
    /\ Request(c)
    /\ IsRunning(s)
    /\ sessions' = [sessions EXCEPT ![s].attached_clients = @ \cup {c}]
    /\ UNCHANGED <<ptys, procs, exit_rx, waiting, conns, shutdown, main>>

DetachClient(c, s) ==
    /\ Request(c)
    /\ sessions' = [sessions EXCEPT ![s] = Detached(@, c)]
    /\ UNCHANGED <<ptys, procs, exit_rx, waiting, conns, shutdown, main>>

\* write_stdin: a PTY in the store is enough, its session is not looked at.
\* write_all blocks the handler while the tty is full.
WriteStdin(c, s) ==
    /\ ReadLockFree
    /\ Idle(c)
    /\ ptys[s] # NoPty
    /\ writing' = [writing EXCEPT ![c] = ptys[s]]
    /\ UNCHANGED <<store, procs, exit_rx, waiting, conn, shutdown, main>>

\* The child has read enough for the rest to fit, or is gone.
WriteReturns(c) ==
    /\ main # "exited"
    /\ writing[c] # NoPty
    /\ writing' = [writing EXCEPT ![c] = NoPty]
    /\ UNCHANGED <<store, procs, exit_rx, waiting, conn, shutdown, main>>

\* A failed kill is only logged: the PTY leaves the store either way.
StopSession(c, s) ==
    /\ Request(c)
    /\ IsRunning(s)
    /\ Kill({ptys[s]} \ {NoPty})
    /\ ptys' = [ptys EXCEPT ![s] = NoPty]
    /\ sessions' = [sessions EXCEPT ![s] = SetStopped(@)]
    /\ UNCHANGED <<owner, reader, exit_rx, waiting, conns, shutdown, main>>

\* Mutant: destroy removes the session and leaves the PTY to its exit event.
DestroySessionOnly(c, s) ==
    /\ Request(c)
    /\ sessions' = [sessions EXCEPT ![s] = NoSession]
    /\ UNCHANGED <<ptys, procs, exit_rx, waiting, conns, shutdown, main>>

\* The session is removed whatever the kill returns; force only decides
\* whether the client hears of the failure.
DestroySession(c, s) ==
    /\ Request(c)
    /\ Kill({ptys[s]} \ {NoPty})
    /\ ptys' = [ptys EXCEPT ![s] = NoPty]
    /\ sessions' = [sessions EXCEPT ![s] = NoSession]
    /\ UNCHANGED <<owner, reader, exit_rx, waiting, conns, shutdown, main>>

-----------------------------------------------------------------------------
(* Child processes and their readers. *)

\* The child ends on its own.
ChildExits(p) ==
    /\ main # "exited"
    /\ child[p] = "alive"
    /\ child' = [child EXCEPT ![p] = "dead"]
    /\ UNCHANGED <<store, owner, reader, exit_rx, waiting, conns, shutdown,
                   main, killFailed>>

\* Mutants: the event is sent before the end of file, twice, or not at all.
ReaderSendsEarly(p) ==
    /\ main # "exited"
    /\ reader[p] = "reading"
    /\ reader' = [reader EXCEPT ![p] = "done"]
    /\ exit_rx' = Append(exit_rx, p)
    /\ UNCHANGED <<store, owner, child, killFailed, waiting, conns, shutdown,
                   main>>
ReaderSendsTwice(p) ==
    /\ main # "exited"
    /\ reader[p] = "reading" /\ child[p] = "dead"
    /\ reader' = [reader EXCEPT ![p] = "done"]
    /\ exit_rx' = exit_rx \o <<p, p>>
    /\ UNCHANGED <<store, owner, child, killFailed, waiting, conns, shutdown,
                   main>>
ReaderSendsNothing(p) ==
    /\ main # "exited"
    /\ reader[p] = "reading" /\ child[p] = "dead"
    /\ reader' = [reader EXCEPT ![p] = "done"]
    /\ UNCHANGED <<store, owner, child, killFailed, exit_rx, waiting, conns,
                   shutdown, main>>

\* The read loop ends (end of file once the child is gone, or an error) and
\* the task sends its exit event.
ReaderEnds(p) ==
    /\ main # "exited"
    /\ reader[p] = "reading"
    /\ child[p] = "dead" \/ ReaderMayFail
    /\ reader' = [reader EXCEPT ![p] = "done"]
    /\ exit_rx' = Append(exit_rx, p)
    /\ UNCHANGED <<store, owner, child, killFailed, waiting, conns, shutdown,
                   main>>

-----------------------------------------------------------------------------
(* The main loop of run_server. *)

\* select! takes the exit arm, whose handler then waits for the write lock;
\* its event stays at the head of the channel until the lock is there.
TakeExitEvent ==
    /\ main = "serving"
    /\ exit_rx # <<>>
    /\ main' = "handling"
    /\ UNCHANGED <<store, procs, exit_rx, waiting, conns, shutdown>>

\* The event at the head of the channel: the handler sees its session id only.
EventSession == owner[Head(exit_rx)]

NextEvent ==
    /\ LockFree
    /\ main = "handling"
    /\ exit_rx # <<>>
    /\ exit_rx' = Tail(exit_rx)

\* handle_pty_exit takes the PTY out of the store and calls wait() on it.
HandlePtyExit ==
    /\ NextEvent
    /\ ptys[EventSession] # NoPty
    /\ waiting' = ptys[EventSession]
    /\ ptys' = [ptys EXCEPT ![EventSession] = NoPty]
    /\ UNCHANGED <<sessions, procs, conns, shutdown, main>>

\* wait() returns, with the exit status or an error; the session stops.
WaitReturns(code) ==
    /\ waiting # NoPty
    /\ child[waiting] = "dead"
    /\ sessions' = [sessions EXCEPT ![owner[waiting]] = RecordExit(@, code)]
    /\ waiting' = NoPty
    /\ main' = "serving"
    /\ UNCHANGED <<ptys, procs, exit_rx, conns, shutdown>>

\* handle_pty_exit finds no PTY: stop or destroy has taken it already.
HandlePtyAlreadyRemoved ==
    /\ NextEvent
    /\ ptys[EventSession] = NoPty
    /\ sessions' = [sessions EXCEPT ![EventSession] = RecordExit(@, "none")]
    /\ main' = "serving"
    /\ UNCHANGED <<ptys, procs, waiting, conns, shutdown>>

\* A DaemonStop request, SIGTERM or SIGINT.
CancelShutdownToken ==
    /\ main # "exited"
    /\ ~shutdown
    /\ shutdown' = TRUE
    /\ UNCHANGED <<store, procs, exit_rx, waiting, conns, main>>

\* select! sees the cancelled token; until it does it may pick other branches.
LeaveLoop ==
    /\ shutdown
    /\ main = "serving"
    /\ main' = "stopping"
    /\ UNCHANGED <<store, procs, exit_rx, waiting, conns, shutdown>>

RunningIds == {s \in SessionIds : IsRunning(s)}

\* Mutant: shutdown waits for the clients to hang up first.
StopAllAfterClients ==
    /\ LockFree
    /\ main = "stopping"
    /\ \A c \in Clients : conn[c] # "open"
    /\ Kill({ptys[s] : s \in RunningIds} \ {NoPty})
    /\ ptys' = [s \in SessionIds |-> IF s \in RunningIds THEN NoPty
                                                         ELSE ptys[s]]
    /\ sessions' = [s \in SessionIds |->
                      IF s \in RunningIds THEN SetStopped(sessions[s])
                                          ELSE sessions[s]]
    /\ main' = "cleanup"
    /\ UNCHANGED <<owner, reader, exit_rx, waiting, conns, shutdown>>

\* stop_session for every running session, under one write lock.
StopAll ==
    /\ LockFree
    /\ main = "stopping"
    /\ Kill({ptys[s] : s \in RunningIds} \ {NoPty})
    /\ ptys' = [s \in SessionIds |-> IF s \in RunningIds THEN NoPty
                                                         ELSE ptys[s]]
    /\ sessions' = [s \in SessionIds |->
                      IF s \in RunningIds THEN SetStopped(sessions[s])
                                          ELSE sessions[s]]
    /\ main' = "cleanup"
    /\ UNCHANGED <<owner, reader, exit_rx, waiting, conns, shutdown>>

\* run_server returns; until then connection handlers still get the lock.
\* (The process goes on until its blocking reads and writes have returned.)
Exit ==
    /\ main = "cleanup"
    /\ main' = "exited"
    /\ UNCHANGED <<store, procs, exit_rx, waiting, conns, shutdown>>

Terminated == main = "exited" /\ UNCHANGED vars

-----------------------------------------------------------------------------
ClientStep(c) ==
    \/ Connect(c)
    \/ Disconnect(c)
    \/ DetachClientFromAll(c)
    \/ \E s \in SessionIds, p \in PtyIds :
          \/ CreateSession(c, s, p)
          \/ CreateFailsAtWriter(c, s, p)
          \/ CreateFailsAtReader(c, s, p)
    \/ \E s \in SessionIds :
          \/ AttachClient(c, s)
          \/ DetachClient(c, s)
          \/ WriteStdin(c, s)
          \/ StopSession(c, s)
          \/ DestroySession(c, s)
    \/ WriteReturns(c)

PtyStep(p) == ChildExits(p) \/ ReaderEnds(p)

MainStep ==
    \/ TakeExitEvent
    \/ HandlePtyExit
    \/ \E code \in {"none", "some"} : WaitReturns(code)
    \/ HandlePtyAlreadyRemoved
    \/ LeaveLoop
    \/ StopAll
    \/ Exit

Next ==
    \/ \E c \in Clients : ClientStep(c)
    \/ \E p \in PtyIds : PtyStep(p)
    \/ MainStep
    \/ CancelShutdownToken
    \/ Terminated

Spec == Init /\ [][Next]_vars

\* tokio keeps polling the main loop, the readers and the handlers, and a write
\* to a tty whose child is gone fails; nothing obliges a client to send a
\* request, or a child to exit or to read what is written.
Fairness ==
    /\ WF_vars(TakeExitEvent)
    /\ WF_vars(HandlePtyExit)
    /\ WF_vars(HandlePtyAlreadyRemoved)
    /\ WF_vars(\E code \in {"none", "some"} : WaitReturns(code))
    /\ WF_vars(LeaveLoop)
    /\ WF_vars(StopAll)
    /\ WF_vars(Exit)
    /\ \A p \in PtyIds : WF_vars(child[p] = "dead" /\ ReaderEnds(p))
    /\ \A c \in Clients :
          /\ WF_vars(DetachClientFromAll(c))
          /\ WF_vars(writing[c] # NoPty /\ child[writing[c]] = "dead"
                      /\ WriteReturns(c))

FairSpec == Spec /\ Fairness

-----------------------------------------------------------------------------
(* Properties. *)

\* The types of the variables.
TypeOK ==
    /\ sessions \in [SessionIds -> Session \cup {NoSession}]
    /\ ptys \in [SessionIds -> PtyIds \cup {NoPty}]
    /\ owner \in [PtyIds -> SessionIds \cup {NoSession}]
    /\ child \in [PtyIds -> {"unborn", "alive", "dead"}]
    /\ reader \in [PtyIds -> {"none", "reading", "done"}]
    /\ exit_rx \in Seq(PtyIds)
    /\ waiting \in PtyIds \cup {NoPty}
    /\ conn \in [Clients -> {"new", "open", "closing", "closed"}]
    /\ writing \in [Clients -> PtyIds \cup {NoPty}]
    /\ shutdown \in BOOLEAN
    /\ main \in {"serving", "handling", "stopping", "cleanup", "exited"}
    /\ killFailed \subseteq PtyIds

\* The two maps of the store agree whenever the lock is free: a running
\* session's PTY is the one its output channel belongs to (state.rs:
\* output_tx and pty_pid are "only present when Running"), a stopped session
\* has none.  Stop, destroy, shutdown and the exit handler each change both
\* maps, in different orders, and an exit event may name a PTY long gone.
MapsAgree ==
    waiting = NoPty =>
        \A s \in SessionIds :
            sessions[s] # NoSession =>
                /\ sessions[s].output_tx = ptys[s]
                /\ (ptys[s] # NoPty) <=> (sessions[s].state = "running")

\* A PTY is in the store without a session only if its reader could not be
\* cloned (create_session returns early with `?`): no other sequence of
\* requests, exits and failures strands a PTY.
StrandedOnlyByReaderClone ==
    \A s \in SessionIds :
        ptys[s] # NoPty /\ reader[ptys[s]] # "none" => IsRunning(s)

\* No child is forgotten: one that is alive is in the store, or is being
\* waited for, or is one whose kill failed.  Every path that takes a PTY out
\* of the store has killed its child or sees it exit first.
NoForgottenChild ==
    \A p \in PtyIds :
        child[p] = "alive" =>
            ptys[owner[p]] = p \/ waiting = p \/ p \in killFailed

\* Where PTYs come from and what may still refer to them.  A PTY that was
\* never opened has neither child nor reader; events come from readers that
\* are done; the store files a PTY under the id it was opened for; the PTY
\* being waited for has left the store.
UnopenedIsIdle ==
    \A p \in PtyIds :
        owner[p] = NoSession => child[p] = "unborn" /\ reader[p] = "none"

EventsFromDoneReaders ==
    \A i \in 1 .. Len(exit_rx) : reader[exit_rx[i]] = "done"

StoredUnderOwner ==
    \A s \in SessionIds : ptys[s] # NoPty => owner[ptys[s]] = s

WaitedForHasLeft ==
    waiting # NoPty => owner[waiting] # NoSession /\ ptys[owner[waiting]] = NoPty

Provenance == /\ UnopenedIsIdle
              /\ EventsFromDoneReaders
              /\ StoredUnderOwner
              /\ WaitedForHasLeft

\* A running session's PTY is in the store or being waited for.
SessionsMatch ==
    \A s \in SessionIds :
        sessions[s] # NoSession =>
            IF sessions[s].state = "running"
            THEN /\ sessions[s].output_tx \in {ptys[s], waiting} \ {NoPty}
                 /\ owner[sessions[s].output_tx] = s
            ELSE sessions[s].output_tx = NoPty /\ ptys[s] = NoPty

\* The inductive invariant behind MapsAgree and its companions.
StoreInv == /\ TypeOK
            /\ Provenance
            /\ SessionsMatch
            /\ StrandedOnlyByReaderClone
            /\ NoForgottenChild

\* The clients a session counts are connected: no request order leaves the
\* id of a connection that is gone in attached_clients (client_count).
NoGhostClient ==
    \A s \in SessionIds :
        sessions[s] # NoSession =>
            \A c \in sessions[s].attached_clients : conn[c] \in {"open", "closing"}

\* handle_pty_exit's wait() finds a child that has already exited (the
\* comment at manager.rs:377), so the write lock is not held for long.
WaitFindsExitedChild == waiting # NoPty => child[waiting] = "dead"

\* Behind the two properties above and below, when ids are not reused: a PTY
\* is known by its session id, and its reader reports its end once.
OwnersDistinct ==
    \A p, q \in PtyIds : owner[p] = owner[q] /\ owner[p] # NoSession => p = q

DoneIsDead == \A p \in PtyIds : reader[p] = "done" => child[p] = "dead"

InChannel(p) == \E i \in 1 .. Len(exit_rx) : exit_rx[i] = p

EventsDistinct ==
    \A i, j \in 1 .. Len(exit_rx) : exit_rx[i] = exit_rx[j] => i = j

\* The event of the PTY being waited for, or of a session with an exit code,
\* has been received.
EventConsumed ==
    /\ waiting # NoPty => reader[waiting] = "done" /\ ~InChannel(waiting)
    /\ \A s \in SessionIds, p \in PtyIds :
          /\ sessions[s] # NoSession /\ sessions[s].exit_code = "some"
          /\ owner[p] = s
          => reader[p] = "done" /\ ~InChannel(p) /\ waiting # p

\* The exit code of a session, once recorded, is never erased while the
\* session exists: no second exit event reaches it.
ExitCodeKept ==
    [][\A s \in SessionIds :
          /\ sessions[s] # NoSession /\ sessions'[s] # NoSession
          /\ sessions[s].exit_code = "some"
          => sessions'[s].exit_code = "some"]_vars

\* The one thing that may keep the write lock away for good: a write_all into
\* the full tty of a living child that does not read its input.
StuckWriting(c) == writing[c] # NoPty /\ child[writing[c]] = "alive"

\* A session whose child has exited does not stay running: the reader's event
\* stops it, or a request or the shutdown does.  Only a WriteStdin that is
\* stuck for ever in another PTY's tty prevents that, by no fault of this
\* session: it has the read lock, and the exit arm waits for the write lock.
ExitIsNoticed ==
    \A s \in SessionIds, p \in PtyIds :
        (ptys[s] = p /\ IsRunning(s) /\ child[p] = "dead")
            ~> \/ ptys[s] # p /\ waiting # p
               \/ main = "exited"
               \/ \E c \in Clients : []StuckWriting(c)

\* A shutdown gets as far as the return of run_server, unless a WriteStdin is
\* stuck for ever (stop_all waits for the write lock): no other request, exit
\* event or end of a connection, in any order, keeps the main loop from it.
ShutdownCompletes ==
    shutdown ~> main = "exited" \/ \E c \in Clients : []StuckWriting(c)
=============================================================================
