---------------------------- MODULE PtyStreaming ----------------------------
(***************************************************************************)
(* The output of one daemon session on its way to the attached clients:    *)
(* the PTY reader task, the scrollback ring, the broadcast channel, Attach *)
(* with its replay, one streaming task per Attach, the connection handlers *)
(* with their shared writer, the sockets, and clients that read them.      *)
(*                                                                         *)
(* The session is running from the start and stops at most once; that its  *)
(* PTY is in the store exactly while it runs is MapsAgree of DaemonStore.  *)
(* Every request takes the store's lock for one step; what follows (the    *)
(* answer under the writer lock, the streaming) is done step by step.      *)
(***************************************************************************)
EXTENDS Naturals, Sequences, FiniteSets

CONSTANTS
    Clients,        \* connections
    Streams,        \* streaming tasks ever spawned: bounds the Attach requests
    NoClient,       \* the client of a task not spawned yet
    NoStream,       \* "the answer being written is not that of an Attach"
    Sizes,          \* terminal dimensions (rows, cols)
    MaxChunks,      \* chunks the child's output is read in: bounds the output
    ChunkBytes,     \* sizes a chunk may have (read() into a 4096-byte buffer)
    ScrollCap,      \* scrollback_buffer_size
    ChanCap,        \* slots of the broadcast channel
    SockCap,        \* messages a socket holds before a write waits
    ResizeMayFail   \* can the resize of a live PTY fail?

ASSUME Bounds ==
    /\ MaxChunks \in Nat /\ ScrollCap \in Nat \ {0}
    /\ ChanCap \in Nat \ {0} /\ SockCap \in Nat \ {0}
    /\ ChunkBytes \subseteq Nat \ {0}
    /\ ResizeMayFail \in BOOLEAN
ASSUME NoneDistinct == NoClient \notin Clients /\ NoStream \notin Streams

VARIABLES
    out,        \* history: each chunk read, and where it ends
    scrollback, \* the bytes in the ring, (from, to] of the whole output
    reader,     \* the reader task: between push and send it is "sending"
    child,      \* the process in the PTY, and whoever else has its terminal open
    session,    \* the session's state
    size,       \* the PTY's cached dimensions
    attached,   \* the session's attached_clients
    task,       \* the streaming tasks
    resp,       \* what each handler has still to write for its last request
    opening,    \* the task an Attach being answered will spawn
    lock,       \* does the handler hold its connection's writer?
    handler,    \* the handler of each connection
    sock,       \* messages in each socket, daemon to client
    conn,       \* the client's end
    shutdown    \* the CancellationToken

pty   == <<out, scrollback, reader>>
sess  == <<child, session, size, attached>>
serve == <<resp, opening, lock, handler>>
vars  == <<out, scrollback, reader, child, session, size, attached, task,
           resp, opening, lock, handler, sock, conn, shutdown>>

-----------------------------------------------------------------------------
(* The output, by byte position. *)

EndOf(i) == IF i = 0 THEN 0 ELSE out[i].end
StartOf(i) == EndOf(i - 1)
Total == EndOf(Len(out))

\* Mutant: eviction makes room for one byte too few.
PushKeepsOneMore(sb, n) ==
    IF n >= ScrollCap THEN [from |-> sb.to + n - ScrollCap, to |-> sb.to + n]
    ELSE LET size0 == (sb.to - sb.from) + n
         IN  [from |-> IF size0 > ScrollCap + 1 THEN sb.from + (size0 - ScrollCap)
                                                ELSE sb.from,
              to |-> sb.to + n]

\* ScrollbackBuffer::push of n bytes.
Push(sb, n) ==
    IF n >= ScrollCap THEN [from |-> sb.to + n - ScrollCap, to |-> sb.to + n]
    ELSE LET size0 == (sb.to - sb.from) + n
         IN  [from |-> IF size0 > ScrollCap THEN sb.from + (size0 - ScrollCap)
                                            ELSE sb.from,
              to |-> sb.to + n]

\* Chunks sent so far; a receiver's position is the number of a chunk.
Sent == IF reader = "sending" THEN Len(out) - 1 ELSE Len(out)

\* Where a receiver subscribed now starts.
Subscribed == Sent + 1

\* The oldest chunk the broadcast channel still holds.
Oldest == IF Sent > ChanCap THEN Sent - ChanCap + 1 ELSE 1

\* All senders are gone: the session's (set_stopped) and the reader's.
ChannelClosed == session = "stopped" /\ reader = "ended"

-----------------------------------------------------------------------------
(* Streaming tasks and messages. *)

NotPending == [kind |-> "none", lo |-> 0, hi |-> 0]

NoTask == [state |-> "none", client |-> NoClient, next |-> 1,
           pending |-> NotPending, upto |-> 0]

\* The receiver exists from the Attach on, before its task is spawned.
Live(a) == task[a].state \in {"answering", "streaming"}

Msg(kind, a) == [kind |-> kind, stream |-> a]

Idle(c) == handler[c] = "serving" /\ resp[c] = <<>>

Request(c) == Idle(c) /\ conn[c] = "open"

Room(c) == Len(sock[c]) < SockCap

Init ==
    /\ out = <<>>
    /\ scrollback = [from |-> 0, to |-> 0]
    /\ reader = "reading"
    /\ child = "alive"
    /\ session = "running"
    /\ size \in Sizes
    /\ attached = {}
    /\ task = [a \in Streams |-> NoTask]
    /\ resp = [c \in Clients |-> <<>>]
    /\ opening = [c \in Clients |-> NoStream]
    /\ lock = [c \in Clients |-> FALSE]
    /\ handler = [c \in Clients |-> "serving"]
    /\ sock = [c \in Clients |-> <<>>]
    /\ conn = [c \in Clients |-> "open"]
    /\ shutdown = FALSE

-----------------------------------------------------------------------------
(* The reader task, the child and the end of the session. *)

\* read() returns n bytes: they enter the scrollback first ...
ReaderPush(n) ==
    /\ reader = "reading"
    /\ Len(out) < MaxChunks
    /\ out' = Append(out, [end |-> Total + n])
    /\ scrollback' = Push(scrollback, n)
    /\ reader' = "sending"
    /\ UNCHANGED <<sess, task, serve, sock, conn, shutdown>>

\* ... and are broadcast after; with no receiver the send does nothing.
ReaderSend ==
    /\ reader = "sending"
    /\ reader' = "reading"
    /\ UNCHANGED <<out, scrollback, sess, task, serve, sock, conn, shutdown>>

ReaderEnds ==
    /\ reader = "reading"
    /\ child = "dead"
    /\ reader' = "ended"
    /\ UNCHANGED <<out, scrollback, sess, task, serve, sock, conn, shutdown>>

ChildExits ==
    /\ child = "alive"
    /\ child' = "dead"
    /\ UNCHANGED <<pty, session, size, attached, task, serve, sock, conn,
                   shutdown>>

\* The exit event is handled.  The sender handle_pty_exit returns for a
\* "session_event notification" is dropped by its caller.
HandlePtyExit ==
    /\ reader = "ended"
    /\ session = "running"
    /\ session' = "stopped"
    /\ UNCHANGED <<pty, child, size, attached, task, serve, sock, conn,
                   shutdown>>

\* A stop request of some other connection.  The kill may fail, or leave
\* behind a process the child has started: the session is stopped either way,
\* and the reader goes on with its sender.
StopSession ==
    /\ session = "running"
    /\ session' = "stopped"
    /\ child' \in {child, "dead"}
    /\ UNCHANGED <<pty, size, attached, task, serve, sock, conn, shutdown>>

CancelShutdownToken ==
    /\ ~shutdown
    /\ shutdown' = TRUE
    /\ UNCHANGED <<pty, sess, task, serve, sock, conn>>

-----------------------------------------------------------------------------
(* Requests. *)

\* Under the write lock: resize, subscribe, then capture the scrollback if
\* the size did not change.  upto records what the receiver has been given:
\* the replay, or else all that was broadcast before it subscribed.
Attach(c, a, dims, resized) ==
    /\ Request(c)
    /\ session = "running"
    /\ task[a] = NoTask
    /\ resized \/ ResizeMayFail
    /\ size' = IF resized THEN dims ELSE size
    /\ attached' = attached \cup {c}
    /\ LET changed == size # dims
           replay  == ~changed /\ scrollback.to > scrollback.from
       IN  /\ task' = [task EXCEPT ![a] =
                         [state |-> "answering", client |-> c,
                          next |-> Subscribed, pending |-> NotPending,
                          upto |-> IF replay THEN scrollback.to ELSE EndOf(Sent)]]
           /\ resp' = [resp EXCEPT ![c] =
                         <<Msg("ack", a)>>
                         \o (IF ~resized \/ changed THEN <<Msg("event", a)>>
                                                    ELSE <<>>)
                         \o (IF replay THEN <<Msg("replay", a)>> ELSE <<>>)]
    /\ opening' = [opening EXCEPT ![c] = a]
    /\ UNCHANGED <<pty, child, session, lock, handler, sock, conn, shutdown>>

\* An ack or an error for a request that is not an Attach.
Answer(c) ==
    /\ resp' = [resp EXCEPT ![c] = <<Msg("answer", NoStream)>>]
    /\ UNCHANGED <<pty, child, session, task, opening, lock, handler, sock,
                   conn, shutdown>>

AttachRefused(c) ==
    /\ Request(c)
    /\ session = "stopped"
    /\ Answer(c)
    /\ UNCHANGED <<size, attached>>

\* The client leaves attached_clients; its streaming tasks are not told.
Detach(c) ==
    /\ Request(c)
    /\ attached' = attached \ {c}
    /\ Answer(c)
    /\ UNCHANGED size

ResizePty(c, dims) ==
    /\ Request(c)
    /\ session = "running"
    /\ size' = dims
    /\ Answer(c)
    /\ UNCHANGED attached

ResizeRefused(c) ==
    /\ Request(c)
    /\ session = "stopped" \/ ResizeMayFail
    /\ Answer(c)
    /\ UNCHANGED <<size, attached>>

\* Mutant: the writer is released between the messages of an answer.
WriteResponseUnlocked(c) ==
    /\ resp[c] # <<>>
    /\ conn[c] = "open" /\ Room(c)
    /\ sock' = [sock EXCEPT ![c] = Append(@, Head(resp[c]))]
    /\ resp' = [resp EXCEPT ![c] = Tail(@)]
    /\ IF Len(resp[c]) = 1 /\ opening[c] # NoStream
       THEN /\ task' = [task EXCEPT ![opening[c]].state = "streaming"]
            /\ opening' = [opening EXCEPT ![c] = NoStream]
       ELSE UNCHANGED <<task, opening>>
    /\ UNCHANGED <<pty, sess, lock, handler, conn, shutdown>>

\* Mutant: an answer that is no more than the ack spawns no task.
WriteResponseSpawnsLate(c) ==
    /\ resp[c] # <<>>
    /\ conn[c] = "open" /\ Room(c)
    /\ sock' = [sock EXCEPT ![c] = Append(@, Head(resp[c]))]
    /\ resp' = [resp EXCEPT ![c] = Tail(@)]
    /\ lock' = [lock EXCEPT ![c] = Len(resp[c]) > 1]
    /\ IF Len(resp[c]) = 1 /\ opening[c] # NoStream
       THEN /\ task' = IF Head(resp[c]).kind = "ack" THEN task
                       ELSE [task EXCEPT ![opening[c]].state = "streaming"]
            /\ opening' = [opening EXCEPT ![c] = NoStream]
       ELSE UNCHANGED <<task, opening>>
    /\ UNCHANGED <<pty, sess, handler, conn, shutdown>>

\* Mutant: the task subscribes when it is spawned.
WriteResponseThenSubscribe(c) ==
    /\ resp[c] # <<>>
    /\ conn[c] = "open" /\ Room(c)
    /\ sock' = [sock EXCEPT ![c] = Append(@, Head(resp[c]))]
    /\ resp' = [resp EXCEPT ![c] = Tail(@)]
    /\ lock' = [lock EXCEPT ![c] = Len(resp[c]) > 1]
    /\ IF Len(resp[c]) = 1 /\ opening[c] # NoStream
       THEN /\ task' = [task EXCEPT ![opening[c]].state = "streaming",
                                    ![opening[c]].next = Subscribed]
            /\ opening' = [opening EXCEPT ![c] = NoStream]
       ELSE UNCHANGED <<task, opening>>
    /\ UNCHANGED <<pty, sess, handler, conn, shutdown>>

\* The handler writes the next message of its answer, waiting for room in
\* the socket.  It holds the writer from the first message to the last, then
\* spawns the streaming task of an Attach.
WriteResponse(c) ==
    /\ resp[c] # <<>>
    /\ conn[c] = "open" /\ Room(c)
    /\ sock' = [sock EXCEPT ![c] = Append(@, Head(resp[c]))]
    /\ resp' = [resp EXCEPT ![c] = Tail(@)]
    /\ lock' = [lock EXCEPT ![c] = Len(resp[c]) > 1]
    /\ IF Len(resp[c]) = 1 /\ opening[c] # NoStream
       THEN /\ task' = [task EXCEPT ![opening[c]].state = "streaming"]
            /\ opening' = [opening EXCEPT ![c] = NoStream]
       ELSE UNCHANGED <<task, opening>>
    /\ UNCHANGED <<pty, sess, handler, conn, shutdown>>

\* The client is gone.  Without its ack an Attach spawns no task; with it
\* the task is spawned all the same.
WriteResponseFails(c) ==
    /\ resp[c] # <<>>
    /\ conn[c] = "left"
    /\ resp' = [resp EXCEPT ![c] = <<>>]
    /\ lock' = [lock EXCEPT ![c] = FALSE]
    /\ opening' = [opening EXCEPT ![c] = NoStream]
    /\ task' = IF opening[c] = NoStream THEN task
               ELSE [task EXCEPT ![opening[c]].state =
                       IF Head(resp[c]).kind = "ack" THEN "ended"
                                                     ELSE "streaming"]
    /\ UNCHANGED <<pty, sess, handler, sock, conn, shutdown>>

\* End of stream or shutdown: the handler detaches its client and returns.
HandlerEnds(c) ==
    /\ Idle(c)
    /\ conn[c] = "left" \/ shutdown
    /\ handler' = [handler EXCEPT ![c] = "ended"]
    /\ attached' = attached \ {c}
    /\ UNCHANGED <<pty, child, session, size, task, resp, opening, lock, sock,
                   conn, shutdown>>

-----------------------------------------------------------------------------
(* stream_pty_output: receive, then write under the connection's writer. *)

Waiting(a) == task[a].state = "streaming" /\ task[a].pending = NotPending

\* A receiver that is more than ChanCap behind skips to the oldest chunk held
\* and learns how many it has missed.
Recv(a) ==
    /\ Waiting(a)
    /\ task[a].next <= Sent
    /\ LET n == task[a].next
       IN  task' = [task EXCEPT
                      ![a].pending = IF n < Oldest
                                     THEN [kind |-> "lag", lo |-> n, hi |-> Oldest - 1]
                                     ELSE [kind |-> "chunk", lo |-> n, hi |-> n],
                      ![a].next = IF n < Oldest THEN Oldest ELSE n + 1]
    /\ UNCHANGED <<pty, sess, serve, sock, conn, shutdown>>

WriteOutput(a) ==
    LET c == task[a].client
        p == task[a].pending
    IN  /\ task[a].state = "streaming" /\ p # NotPending
        /\ ~lock[c]
        /\ conn[c] = "open" /\ Room(c)
        /\ sock' = [sock EXCEPT ![c] = Append(@, Msg(p.kind, a))]
        /\ task' = [task EXCEPT ![a].pending = NotPending,
                                ![a].upto = EndOf(p.hi)]
        /\ UNCHANGED <<pty, sess, serve, conn, shutdown>>

EndTask(a) ==
    /\ task' = [task EXCEPT ![a].state = "ended", ![a].pending = NotPending]
    /\ UNCHANGED <<pty, sess, serve, sock, conn, shutdown>>

WriteOutputFails(a) ==
    /\ task[a].state = "streaming" /\ task[a].pending # NotPending
    /\ conn[task[a].client] = "left"
    /\ EndTask(a)

\* Mutant: the task looks at the token only when output arrives.
StreamEndsOnOutput(a) ==
    /\ Waiting(a)
    /\ task[a].next <= Sent /\ shutdown
    /\ EndTask(a)

\* The channel is closed and drained, or the daemon shuts down.
StreamEnds(a) ==
    /\ Waiting(a)
    /\ (ChannelClosed /\ task[a].next > Sent) \/ shutdown
    /\ EndTask(a)

-----------------------------------------------------------------------------
(* Clients (kild attach, the terminal of the UI). *)

\* The client takes a message and shows it; "stopped" ends its loop.
ClientReads(c) ==
    /\ conn[c] = "open"
    /\ sock[c] # <<>>
    /\ sock' = [sock EXCEPT ![c] = Tail(@)]
    /\ conn' = [conn EXCEPT ![c] = IF Head(sock[c]).kind = "stopped"
                                   THEN "left" ELSE "open"]
    /\ UNCHANGED <<pty, sess, task, serve, shutdown>>

Leave(c) ==
    /\ conn' = [conn EXCEPT ![c] = "left"]
    /\ sock' = [sock EXCEPT ![c] = <<>>]
    /\ UNCHANGED <<pty, sess, task, serve, shutdown>>

\* The daemon's end is closed once the handler and every task have dropped it.
ClientSeesEof(c) ==
    /\ conn[c] = "open"
    /\ sock[c] = <<>>
    /\ handler[c] = "ended"
    /\ \A a \in Streams : task[a].client = c => ~Live(a)
    /\ Leave(c)

\* Ctrl+C, or the terminal is closed.
ClientCloses(c) ==
    /\ conn[c] = "open"
    /\ Leave(c)

-----------------------------------------------------------------------------
PtyStep ==
    \/ \E n \in ChunkBytes : ReaderPush(n)
    \/ ReaderSend
    \/ ReaderEnds
    \/ ChildExits
    \/ HandlePtyExit
    \/ StopSession
    \/ CancelShutdownToken

HandlerStep(c) ==
    \/ \E a \in Streams, dims \in Sizes, resized \in BOOLEAN :
          Attach(c, a, dims, resized)
    \/ AttachRefused(c)
    \/ Detach(c)
    \/ \E dims \in Sizes : ResizePty(c, dims)
    \/ ResizeRefused(c)
    \/ WriteResponse(c)
    \/ WriteResponseFails(c)
    \/ HandlerEnds(c)

TaskStep(a) ==
    \/ Recv(a)
    \/ WriteOutput(a)
    \/ WriteOutputFails(a)
    \/ StreamEnds(a)

ClientStep(c) == ClientReads(c) \/ ClientSeesEof(c) \/ ClientCloses(c)

\* Everyone has left and everything has ended.
Terminated ==
    /\ \A c \in Clients : handler[c] = "ended" /\ conn[c] = "left"
    /\ UNCHANGED vars

Next ==
    \/ PtyStep
    \/ \E c \in Clients : HandlerStep(c) \/ ClientStep(c)
    \/ \E a \in Streams : TaskStep(a)
    \/ Terminated

Spec == Init /\ [][Next]_vars

\* tokio polls every task and wakes the waiters of a Mutex in order, and the
\* clients keep reading.  Nothing obliges a child to exit or a user to leave,
\* and what needs the store's write lock may wait for ever (DaemonStore): no
\* fairness for HandlePtyExit and HandlerEnds.
Fairness ==
    /\ WF_vars(ReaderSend) /\ WF_vars(ReaderEnds)
    /\ \A c \in Clients :
          /\ SF_vars(WriteResponse(c)) /\ WF_vars(WriteResponseFails(c))
          /\ WF_vars(ClientReads(c)) /\ WF_vars(ClientSeesEof(c))
    /\ \A a \in Streams :
          /\ WF_vars(Recv(a)) /\ SF_vars(WriteOutput(a))
          /\ WF_vars(WriteOutputFails(a)) /\ WF_vars(StreamEnds(a))

FairSpec == Spec /\ Fairness

-----------------------------------------------------------------------------
(* Properties. *)

\* The types of the variables.
Chunk == [end : Nat]

Pending == [kind : {"chunk", "lag"}, lo : Nat, hi : Nat]

Task == [state   : {"none", "answering", "streaming", "ended"},
         client  : Clients \cup {NoClient},
         next    : Nat \ {0},
         pending : Pending \cup {NotPending},
         upto    : Nat]

Message == [kind : {"answer", "ack", "event", "replay", "chunk", "lag"},
            stream : Streams \cup {NoStream}]

TypeOK ==
    /\ out \in Seq(Chunk)
    /\ scrollback \in [from : Nat, to : Nat]
    /\ reader \in {"reading", "sending", "ended"}
    /\ child \in {"alive", "dead"}
    /\ session \in {"running", "stopped"}
    /\ size \in Sizes
    /\ attached \subseteq Clients
    /\ task \in [Streams -> Task]
    /\ resp \in [Clients -> Seq(Message)]
    /\ opening \in [Clients -> Streams \cup {NoStream}]
    /\ lock \in [Clients -> BOOLEAN]
    /\ handler \in [Clients -> {"serving", "ended"}]
    /\ sock \in [Clients -> Seq(Message)]
    /\ conn \in [Clients -> {"open", "left"}]
    /\ shutdown \in BOOLEAN

\* The scrollback is the tail of the output, never more than its capacity,
\* whatever mix of small and oversized chunks was pushed.
ScrollbackIsTail ==
    /\ scrollback.to = Total
    /\ scrollback.from = IF Total > ScrollCap THEN Total - ScrollCap ELSE 0

\* The first chunk a task has received, or will receive next, and has not
\* yet passed on.
FirstDue(a) == IF task[a].pending = NotPending THEN task[a].next
               ELSE task[a].pending.lo

\* "Subscribe to broadcast BEFORE capturing scrollback to avoid losing output":
\* what a client is given next continues what it has been given, with no gap;
\* at most the one chunk between push and send at the Attach is given twice.
StreamIsGapless ==
    \A a \in Streams :
        Live(a) =>
            IF FirstDue(a) > Len(out) THEN task[a].upto = Total
            ELSE /\ StartOf(FirstDue(a)) <= task[a].upto
                 /\ task[a].upto <= EndOf(FirstDue(a))

\* What StreamIsGapless rests on: every chunk has an end past the previous
\* one's; a receiver is never ahead of the sender, and what it has received
\* and not passed on ends where it will receive next; the task an Attach
\* is about to spawn belongs to its connection and is not streaming yet.
OutputGrows ==
    /\ \A i \in 1 .. Len(out) : StartOf(i) < EndOf(i)
    /\ reader = "sending" => Len(out) > 0

Receivers ==
    \A a \in Streams :
        Live(a) =>
            IF task[a].pending = NotPending THEN task[a].next <= Sent + 1
            ELSE /\ task[a].pending.lo \in 1 .. task[a].pending.hi
                 /\ task[a].next = task[a].pending.hi + 1
                 /\ task[a].pending.hi <= Sent

OpeningTask ==
    \A c \in Clients :
        opening[c] # NoStream =>
            task[opening[c]].state = "answering" /\ task[opening[c]].client = c

\* The inductive invariant behind ScrollbackIsTail and StreamIsGapless.
StreamInv == /\ TypeOK
             /\ OutputGrows
             /\ ScrollbackIsTail
             /\ Receivers
             /\ OpeningTask
             /\ StreamIsGapless

\* "the streaming task cannot interleave before replay is complete": nothing
\* comes between the ack of an Attach and the end of its replay, not even the
\* output of an earlier Attach of the same connection.
ReplayUnbroken ==
    [][\A c \in Clients :
          /\ opening[c] # NoStream /\ Head(resp[c]).kind # "ack"
          /\ Len(sock'[c]) > Len(sock[c])
          => sock'[c] = Append(sock[c], Head(resp[c]))]_vars

\* Once the session has stopped and its child is gone, or the daemon shuts
\* down, no streaming task lives on: each drains its channel and ends, whoever
\* stopped the session and in whatever order it and the child ended.  A child
\* that survives a failed kill keeps the reader, its sender and so the tasks of
\* the stopped session alive until it ends.
StreamsEnd ==
    \A a \in Streams :
        ((session = "stopped" /\ child = "dead") \/ shutdown) /\ Live(a)
            ~> task[a].state = "ended"

\* Output is delivered or reported as dropped: a chunk of the output reaches,
\* as output or as part of a drop notice, every client that was attached.
DeliveredOrReported ==
    \A a \in Streams, i \in 1 .. MaxChunks :
        (Live(a) /\ i <= Len(out))
            ~> \/ i <= Len(out) /\ task[a].upto >= EndOf(i)
               \/ task[a].state = "ended"
=============================================================================
