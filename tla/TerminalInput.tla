---------------------------- MODULE TerminalInput ----------------------------
(***************************************************************************)
(* Keyboard input on its way to a PTY: the command queue and writer task   *)
(* of a terminal, the request socket, the connection handler that takes    *)
(* the store's read lock and the PTY's writer mutex, the blocking          *)
(* write_all into the tty, the ack that goes back, and the stop request    *)
(* that needs the write lock.  A message is MsgLen units; write_all puts   *)
(* them into the tty one by one, waiting while the tty is full.            *)
(*                                                                         *)
(* A terminal that does not read its acks is the UI's: it writes on a      *)
(* connection of which it has dropped the reading half.  kild attach reads *)
(* everything on its one connection.                                       *)
(***************************************************************************)
EXTENDS Naturals, Sequences, FiniteSets, SequencesExt

CONSTANTS
    Terminals,    \* terminals typed into, each with a connection
    Sessions,     \* daemon sessions
    SessionOf,    \* the session each terminal shows
    AckReaders,   \* terminals that read the daemon's answers
    NoTerminal,   \* the holder of a free mutex
    MaxMsgs,      \* messages typed into each terminal: bounds the input
    MsgLen,       \* units of a message
    ReqCap,       \* requests a socket holds, client to daemon
    AckCap,       \* answers a socket holds, daemon to client
    TtyCap        \* units a tty holds that its child has not read

ASSUME Shape ==
    /\ SessionOf \in [Terminals -> Sessions]
    /\ AckReaders \subseteq Terminals
    /\ NoTerminal \notin Terminals
    /\ {MaxMsgs, MsgLen, ReqCap, AckCap, TtyCap} \subseteq Nat \ {0}

VARIABLES
    typed,      \* how many messages were typed into each terminal
    cmds,       \* the unbounded channel to the writer task
    req,        \* WriteStdin requests in the socket
    cur,        \* the request each handler is serving; 0 is none
    phase,      \* where the handler is with it
    written,    \* units of it already written
    acks,       \* answers in the socket, not yet read
    mutex,      \* the holder of each PTY's writer
    fed,        \* history: the units put into each tty
    read,       \* how many of them the child has read
    child,      \* the child of each session; a deaf one lives and reads no more
    running,    \* is the session's PTY in the store?
    stop        \* a stop request for each session

vars == <<typed, cmds, req, cur, phase, written, acks, mutex, fed, read, child,
          running, stop>>

term    == <<typed, cmds>>
wire    == <<req, acks>>
handler == <<cur, phase, written>>
tty     == <<mutex, fed, read>>
sess    == <<child, running, stop>>

-----------------------------------------------------------------------------
\* tokio's RwLock is fair: once a writer waits no reader gets in any more,
\* and the writer waits for every reader there is.
WriterWaiting == \E s \in Sessions : stop[s] = "waiting"
Reading(t) == phase[t] \in {"holding", "writing"}

Unit(t, i) == [from |-> t, msg |-> cur[t], part |-> i]

Room(s) == Len(fed[s]) - read[s] < TtyCap

Init ==
    /\ typed = [t \in Terminals |-> 0]
    /\ cmds = [t \in Terminals |-> <<>>]
    /\ req = [t \in Terminals |-> <<>>]
    /\ cur = [t \in Terminals |-> 0]
    /\ phase = [t \in Terminals |-> "idle"]
    /\ written = [t \in Terminals |-> 0]
    /\ acks = [t \in Terminals |-> 0]
    /\ mutex = [s \in Sessions |-> NoTerminal]
    /\ fed = [s \in Sessions |-> <<>>]
    /\ read = [s \in Sessions |-> 0]
    /\ child = [s \in Sessions |-> "alive"]
    /\ running = [s \in Sessions |-> TRUE]
    /\ stop = [s \in Sessions |-> "none"]

-----------------------------------------------------------------------------
(* The terminal. *)

Type(t) ==
    /\ typed[t] < MaxMsgs
    /\ typed' = [typed EXCEPT ![t] = @ + 1]
    /\ cmds' = [cmds EXCEPT ![t] = Append(@, typed[t] + 1)]
    /\ UNCHANGED <<wire, handler, tty, sess>>

\* The writer task sends the next command, waiting for room in the socket.
SendWriteStdin(t) ==
    /\ cmds[t] # <<>>
    /\ Len(req[t]) < ReqCap
    /\ req' = [req EXCEPT ![t] = Append(@, Head(cmds[t]))]
    /\ cmds' = [cmds EXCEPT ![t] = Tail(@)]
    /\ UNCHANGED <<typed, acks, handler, tty, sess>>

ReadAck(t) ==
    /\ t \in AckReaders
    /\ acks[t] > 0
    /\ acks' = [acks EXCEPT ![t] = @ - 1]
    /\ UNCHANGED <<term, req, handler, tty, sess>>

-----------------------------------------------------------------------------
(* The connection handler. *)

\* Mutant: each request is dispatched to a task of its own, which may be
\* served before an earlier one.
ReadAnyRequest(t) ==
    /\ phase[t] = "idle"
    /\ \E i \in 1 .. Len(req[t]) :
          /\ cur' = [cur EXCEPT ![t] = req[t][i]]
          /\ req' = [req EXCEPT ![t] = RemoveAt(@, i)]
    /\ phase' = [phase EXCEPT ![t] = "locking"]
    /\ UNCHANGED <<term, acks, written, tty, sess>>

ReadRequest(t) ==
    /\ phase[t] = "idle"
    /\ req[t] # <<>>
    /\ cur' = [cur EXCEPT ![t] = Head(req[t])]
    /\ req' = [req EXCEPT ![t] = Tail(@)]
    /\ phase' = [phase EXCEPT ![t] = "locking"]
    /\ UNCHANGED <<term, acks, written, tty, sess>>

\* The store's read lock; without a PTY the answer is an error.
LockStore(t) ==
    /\ phase[t] = "locking"
    /\ ~WriterWaiting
    /\ phase' = [phase EXCEPT ![t] = IF running[SessionOf[t]] THEN "holding"
                                                              ELSE "answering"]
    /\ UNCHANGED <<term, wire, cur, written, tty, sess>>

\* Mutant: the PTY's writer is not exclusive.
ShareWriter(t) ==
    LET s == SessionOf[t]
    IN  /\ phase[t] = "holding"
        /\ mutex' = [mutex EXCEPT ![s] = t]
        /\ phase' = [phase EXCEPT ![t] = "writing"]
        /\ UNCHANGED <<term, wire, cur, written, fed, read, sess>>

\* ManagedPty::write_stdin locks the writer for the whole write.
LockWriter(t) ==
    LET s == SessionOf[t]
    IN  /\ phase[t] = "holding"
        /\ mutex[s] = NoTerminal
        /\ mutex' = [mutex EXCEPT ![s] = t]
        /\ phase' = [phase EXCEPT ![t] = "writing"]
        /\ UNCHANGED <<term, wire, cur, written, fed, read, sess>>

\* write_all goes on while the tty has room; the locks stay held meanwhile.
WriteUnit(t) ==
    LET s == SessionOf[t]
    IN  /\ phase[t] = "writing"
        /\ written[t] < MsgLen
        /\ child[s] # "dead"
        /\ Room(s)
        /\ fed' = [fed EXCEPT ![s] = Append(@, Unit(t, written[t] + 1))]
        /\ written' = [written EXCEPT ![t] = @ + 1]
        /\ UNCHANGED <<term, wire, cur, phase, mutex, read, sess>>

Unlock(t) ==
    /\ mutex' = [mutex EXCEPT ![SessionOf[t]] = NoTerminal]
    /\ written' = [written EXCEPT ![t] = 0]
    /\ phase' = [phase EXCEPT ![t] = "answering"]
    /\ UNCHANGED <<term, wire, cur, fed, read, sess>>

WriteDone(t) ==
    /\ phase[t] = "writing"
    /\ written[t] = MsgLen
    /\ Unlock(t)

\* Mutant: a write that fails is tried again under the lock.
RetryWrite(t) ==
    /\ phase[t] = "writing"
    /\ written[t] < MsgLen
    /\ child[SessionOf[t]] = "dead"
    /\ mutex' = [mutex EXCEPT ![SessionOf[t]] = NoTerminal]
    /\ phase' = [phase EXCEPT ![t] = "holding"]
    /\ UNCHANGED <<term, wire, cur, written, fed, read, sess>>

\* The child has died: the write fails, whatever part of it was done.
WriteFails(t) ==
    /\ phase[t] = "writing"
    /\ written[t] < MsgLen
    /\ child[SessionOf[t]] = "dead"
    /\ Unlock(t)

\* The answer is written to the socket, waiting for room in it; only then is
\* the next request read.
SendAck(t) ==
    /\ phase[t] = "answering"
    /\ acks[t] < AckCap
    /\ acks' = [acks EXCEPT ![t] = @ + 1]
    /\ cur' = [cur EXCEPT ![t] = 0]
    /\ phase' = [phase EXCEPT ![t] = "idle"]
    /\ UNCHANGED <<term, req, written, tty, sess>>

-----------------------------------------------------------------------------
(* The child, and stop requests from elsewhere. *)

ChildReads(s) ==
    /\ child[s] = "alive"
    /\ read[s] < Len(fed[s])
    /\ read' = [read EXCEPT ![s] = @ + 1]
    /\ UNCHANGED <<term, wire, handler, mutex, fed, sess>>

\* It stops reading its input for good (it hangs, or has no use for more).
ChildStopsReading(s) ==
    /\ child[s] = "alive"
    /\ child' = [child EXCEPT ![s] = "deaf"]
    /\ UNCHANGED <<term, wire, handler, tty, running, stop>>

ChildExits(s) ==
    /\ child[s] # "dead"
    /\ child' = [child EXCEPT ![s] = "dead"]
    /\ UNCHANGED <<term, wire, handler, tty, running, stop>>

RequestStop(s) ==
    /\ stop[s] = "none"
    /\ stop' = [stop EXCEPT ![s] = "waiting"]
    /\ UNCHANGED <<term, wire, handler, tty, child, running>>

\* The write lock is granted once no reader of the store is left.
Stop(s) ==
    /\ stop[s] = "waiting"
    /\ \A t \in Terminals : ~Reading(t)
    /\ child' = [child EXCEPT ![s] = "dead"]
    /\ running' = [running EXCEPT ![s] = FALSE]
    /\ stop' = [stop EXCEPT ![s] = "done"]
    /\ UNCHANGED <<term, wire, handler, tty>>

-----------------------------------------------------------------------------
TerminalStep(t) == Type(t) \/ SendWriteStdin(t) \/ ReadAck(t)

HandlerStep(t) ==
    \/ ReadRequest(t)
    \/ LockStore(t)
    \/ LockWriter(t)
    \/ WriteUnit(t)
    \/ WriteDone(t)
    \/ WriteFails(t)
    \/ SendAck(t)

SessionStep(s) ==
    \/ ChildReads(s)
    \/ ChildStopsReading(s)
    \/ ChildExits(s)
    \/ RequestStop(s)
    \/ Stop(s)

\* Every message typed has been served.
Terminated ==
    /\ \A t \in Terminals : typed[t] = MaxMsgs /\ cmds[t] = <<>> /\ phase[t] = "idle"
    /\ UNCHANGED vars

Next ==
    \/ \E t \in Terminals : TerminalStep(t) \/ HandlerStep(t)
    \/ \E s \in Sessions : SessionStep(s)
    \/ Terminated

Spec == Init /\ [][Next]_vars

\* Tasks are polled and sockets drained; a child reads its input until it goes
\* deaf, which it may do at any time, and nobody has to type, exit or stop a
\* session.
Fairness ==
    /\ \A t \in Terminals :
          /\ WF_vars(SendWriteStdin(t)) /\ WF_vars(ReadAck(t))
          /\ WF_vars(HandlerStep(t))
    /\ \A s \in Sessions : WF_vars(Stop(s)) /\ WF_vars(ChildReads(s))

FairSpec == Spec /\ Fairness

-----------------------------------------------------------------------------
(* Properties. *)

Units == [from : Terminals, msg : 1 .. MaxMsgs, part : 1 .. MsgLen]

\* The types of the variables.
TypeOK ==
    /\ typed \in [Terminals -> 0 .. MaxMsgs]
    /\ cmds \in [Terminals -> Seq(1 .. MaxMsgs)]
    /\ req \in [Terminals -> Seq(1 .. MaxMsgs)]
    /\ cur \in [Terminals -> 0 .. MaxMsgs]
    /\ phase \in [Terminals -> {"idle", "locking", "holding", "writing", "answering"}]
    /\ written \in [Terminals -> 0 .. MsgLen]
    /\ acks \in [Terminals -> 0 .. AckCap]
    /\ mutex \in [Sessions -> Terminals \cup {NoTerminal}]
    /\ fed \in [Sessions -> Seq(Units)]
    /\ read \in [Sessions -> Nat]
    /\ child \in [Sessions -> {"alive", "deaf", "dead"}]
    /\ running \in [Sessions -> BOOLEAN]
    /\ stop \in [Sessions -> {"none", "waiting", "done"}]

\* connection.rs: "Actual write exclusion is handled by Arc<Mutex<Writer>>
\* inside ManagedPty": two terminals typing into one session under read locks
\* never mix their messages, even when a write waits half way for the tty.
MessagesWhole ==
    \A s \in Sessions :
        \A i \in 1 .. Len(fed[s]) - 1 :
            LET u == fed[s][i]
            IN  fed[s][i + 1] =
                    IF u.part < MsgLen THEN [u EXCEPT !.part = @ + 1]
                    ELSE [fed[s][i + 1] EXCEPT !.part = 1]

\* Why messages are whole: exactly the writing handler of a session holds its
\* writer, on a request of its own ...
WriterIsExclusive ==
    /\ \A t \in Terminals : phase[t] = "writing" <=> mutex[SessionOf[t]] = t
    /\ \A s \in Sessions : mutex[s] # NoTerminal => SessionOf[mutex[s]] = s
    /\ \A t \in Terminals : phase[t] # "idle" => cur[t] # 0

\* ... the tty ends in the units written so far, and an unfinished message at
\* the end of a living child's tty is the one being written.
HalfWritten ==
    /\ \A t \in Terminals :
          written[t] > 0 =>
              LET f == fed[SessionOf[t]]
              IN  /\ phase[t] = "writing"
                  /\ f # <<>>
                  /\ f[Len(f)] = Unit(t, written[t])
    /\ \A s \in Sessions :
          (child[s] # "dead" /\ fed[s] # <<>> /\ fed[s][Len(fed[s])].part < MsgLen) =>
              mutex[s] \in Terminals /\ written[mutex[s]] > 0

InputInv == TypeOK /\ WriterIsExclusive /\ HalfWritten /\ MessagesWhole

\* Requests, commands and the message being written, oldest first.
PendingOf(t) ==
    (IF phase[t] \in {"locking", "holding"}
        \/ (phase[t] = "writing" /\ written[t] < MsgLen)
     THEN <<cur[t]>> ELSE <<>>) \o req[t] \o cmds[t]

\* The messages of which f has the last unit, in its order.
Whole(f) ==
    LET whole[n \in 0 .. Len(f)] ==
            IF n = 0 THEN <<>>
            ELSE IF f[n].part < MsgLen THEN whole[n - 1]
            ELSE Append(whole[n - 1], <<f[n].from, f[n].msg>>)
    IN  whole[Len(f)]

\* The messages that are in the tty to their last unit.
InputOf(s) == Whole(fed[s])

Pipe == INSTANCE InputPipe
            WITH pending <- [t \in Terminals |-> PendingOf(t)],
                 input <- [s \in Sessions |-> InputOf(s)],
                 deaf <- {s \in Sessions : child[s] = "deaf"}

\* Typing is a pipe: whole messages, in order, none left behind as long as no
\* living child is deaf to its input and terminals read their acks.
IsFairInputPipe == Pipe!FairSpec

\* manager.rs: stop_session, "Stop a session's agent process": a stop request
\* is served, however many terminals type, wait for the tty and the mutex, or
\* fail with a dying child.  The only thing that keeps it waiting is a message
\* that for ever waits to be read by a deaf child, of this or another session:
\* its handler has the read lock (README, section 7).
StopIsServed ==
    \A s \in Sessions :
        stop[s] = "waiting"
            ~> \/ stop[s] = "done"
               \/ \E t \in Terminals :
                     [](phase[t] = "writing" /\ child[SessionOf[t]] = "deaf")
=============================================================================
