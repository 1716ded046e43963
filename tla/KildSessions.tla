---------------------------- MODULE KildSessions ----------------------------
(***************************************************************************)
(* The life of one kild (one branch of one project) as the `kild` command  *)
(* line runs it in daemon mode: create, open, stop, destroy, complete, and *)
(* the status sync of list, status and inject (kild-core/src/sessions).    *)
(*                                                                         *)
(* A command is a sequence of separate effects on things it does not own   *)
(* and does not lock: the session file, the git worktree, and the PTYs in  *)
(* the daemon.  Each effect is an action of its own, so that commands of   *)
(* several processes, agents that exit, a daemon that goes away and edits  *)
(* in the worktree come between any two of them.                           *)
(*                                                                         *)
(* A command that is refused before its first effect changes nothing and   *)
(* is left out.  Not here: terminal-mode agents, --main sessions, fleet,   *)
(* inbox and shim files, ports, windows, a PTY whose kill fails (see       *)
(* DaemonStore), and the reading of a session file through the index.      *)
(***************************************************************************)
EXTENDS Integers, Sequences, FiniteSets

CONSTANTS Procs,      \* `kild` processes
          MaxAgents   \* bound: agents a session file lists at a time

ASSUME MaxAgentsAssumption == MaxAgents \in Nat \ {0}

VARIABLES file,       \* the kild's kild.json: NoFile or a Session
          worktree,   \* its worktree: "none", "clean" or "dirty"
          daemon,     \* "up" or "down"
          pty,        \* per spawn id, what the daemon has under it
          pc,         \* per process, what it does next
          cmd,        \* per process, the command it runs
          mem,        \* per process, the session it has read
          left,       \* per process, the agents it has still to kill
          calm        \* history: no command overlapped another or was cut
                      \* off, and every request got its answer in time

locals == <<pc, cmd, mem, left>>
vars == <<file, worktree, daemon, pty, locals, calm>>

-----------------------------------------------------------------------------
(* Data. *)

\* Spawn ids are `<session>_<index>`; the index stands for the id.
Ids == 0 .. MaxAgents - 1

Sessions == [status : {"Active", "Stopped"}, agents : Seq(Ids)]
NoFile == [status |-> "none", agents |-> <<>>]

NewSession == [status |-> "Active", agents |-> <<>>]
StoppedSession == [status |-> "Stopped", agents |-> <<>>]

Alive == {"agent", "shell"}             \* what a PTY runs
Opens == {"create", "open", "open_shell"}
Destroys == {"destroy", "destroy_all", "destroy_force"}
Commands == Opens \cup Destroys \cup {"stop", "list"}

Latest(s) == s.agents[Len(s.agents)]

\* Mutant: every agent under the same id.
SpawnIdOfFirst(p) == 0

\* The id of the agent that a command adds to the session it has read.
SpawnId(p) == Len(mem[p].agents)

Spawned(p) == IF cmd[p] = "open_shell" THEN "shell" ELSE "agent"

Init ==
    /\ file = NoFile
    /\ worktree = "none"
    /\ daemon = "down"
    /\ pty = [i \in Ids |-> "none"]
    /\ pc = [p \in Procs |-> "idle"]
    /\ cmd = [p \in Procs |-> "none"]
    /\ mem = [p \in Procs |-> NoFile]
    /\ left = [p \in Procs |-> <<>>]
    /\ calm = TRUE

-----------------------------------------------------------------------------
(* Steps of a process. *)

Begin(p, c, next) ==
    /\ pc[p] = "idle"
    /\ pc' = [pc EXCEPT ![p] = next]
    /\ cmd' = [cmd EXCEPT ![p] = c]
    /\ calm' = (calm /\ \A q \in Procs \ {p} : pc[q] = "idle")

Goto(p, next) ==
    /\ pc' = [pc EXCEPT ![p] = next]
    /\ UNCHANGED <<cmd, mem, left>>

\* The command returns, with success or with an error.
Return(p) ==
    /\ pc' = [pc EXCEPT ![p] = "idle"]
    /\ cmd' = [cmd EXCEPT ![p] = "none"]
    /\ mem' = [mem EXCEPT ![p] = NoFile]
    /\ left' = [left EXCEPT ![p] = <<>>]

\* find_session_by_name: the process reads the session file.
Read(p) == mem' = [mem EXCEPT ![p] = file]

\* One destroy_session request to the daemon.  Without a daemon there is no PTY
\* to destroy, and a session it does not have is not an error.  When no answer
\* comes in time the request was handled or it was not.
DestroyPty(i) ==
    \/ /\ daemon = "up"
       /\ pty' = [pty EXCEPT ![i] = "none"]
       /\ UNCHANGED calm
    \/ /\ daemon = "down"
       /\ UNCHANGED <<pty, calm>>
    \/ /\ daemon = "up"
       /\ pty' \in {pty, [pty EXCEPT ![i] = "none"]}
       /\ calm' = FALSE

-----------------------------------------------------------------------------
(* create_session *)

\* No session of that name: the command goes on to make the worktree.
Create(p) ==
    /\ file = NoFile
    /\ Begin(p, "create", "worktree")
    /\ mem' = [mem EXCEPT ![p] = NewSession]
    /\ UNCHANGED <<file, worktree, daemon, pty, left>>

CreateWorktree(p) ==
    /\ pc[p] = "worktree"
    /\ worktree = "none"
    /\ worktree' = "clean"
    /\ Goto(p, "preempt")
    /\ UNCHANGED <<file, daemon, pty, calm>>

\* The path exists, or git refuses.
CreateWorktreeFails(p) ==
    /\ pc[p] = "worktree"
    /\ Return(p)
    /\ UNCHANGED <<file, worktree, daemon, pty, calm>>

\* A daemon session that an earlier destroy failed to remove is removed first.
PreemptiveDestroy(p) ==
    /\ pc[p] = "preempt"
    /\ DestroyPty(SpawnId(p))
    /\ Goto(p, "daemon")
    /\ UNCHANGED <<file, worktree, daemon>>

-----------------------------------------------------------------------------
(* open_session *)

\* The guard against a second agent asks the daemon about the latest one; a
\* bare shell goes past it.
Open(p, c) ==
    /\ c \in {"open", "open_shell"}
    /\ file # NoFile
    /\ worktree # "none"
    /\ Len(file.agents) < MaxAgents
    /\ Begin(p, c, IF c = "open" /\ file.status = "Active" /\ file.agents # <<>>
                   THEN "query" ELSE "daemon")
    /\ Read(p)
    /\ UNCHANGED <<file, worktree, daemon, pty, left>>

-----------------------------------------------------------------------------
(* sync_daemon_session_status *)

\* list, status and inject.
List(p) ==
    /\ file.status = "Active"
    /\ file.agents # <<>>
    /\ Begin(p, "list", "query")
    /\ Read(p)
    /\ UNCHANGED <<file, worktree, daemon, pty, left>>

\* The daemon says that the latest agent runs: AlreadyActive, or nothing to
\* sync.
QueryFindsRunning(p) ==
    /\ pc[p] = "query"
    /\ daemon = "up"
    /\ pty[Latest(mem[p])] \in Alive
    /\ Return(p)
    /\ UNCHANGED <<file, worktree, daemon, pty, calm>>

\* The daemon says that it does not run, or does not answer: unreachable
\* includes a daemon too slow to answer.
QueryFindsStopped(p) ==
    /\ pc[p] = "query"
    /\ calm' = (calm /\ (daemon = "up" => pty[Latest(mem[p])] \notin Alive))
    /\ mem' = [mem EXCEPT ![p].status = "Stopped"]
    /\ pc' = [pc EXCEPT ![p] = "patch"]
    /\ UNCHANGED <<file, worktree, daemon, pty, cmd, left>>

\* The status field of the file as it is now is replaced; a file that is gone
\* is an error that is only logged.
PatchStatus(p) ==
    /\ pc[p] = "patch"
    /\ file' = IF file = NoFile THEN NoFile ELSE [file EXCEPT !.status = "Stopped"]
    /\ IF cmd[p] = "open" THEN Goto(p, "daemon") ELSE Return(p)
    /\ UNCHANGED <<worktree, daemon, pty, calm>>

-----------------------------------------------------------------------------
(* spawn_daemon_agent, for create and open *)

EnsureDaemonRunning(p) ==
    /\ pc[p] = "daemon"
    /\ \/ daemon' = "up" /\ Goto(p, "spawn")
       \/ daemon = "down" /\ UNCHANGED daemon /\ Return(p)
    /\ UNCHANGED <<file, worktree, pty, calm>>

CreatePty(p) ==
    /\ pc[p] = "spawn"
    /\ daemon = "up"
    /\ pty[SpawnId(p)] = "none"
    /\ pty' = [pty EXCEPT ![SpawnId(p)] = Spawned(p)]
    /\ Goto(p, "poll")
    /\ UNCHANGED <<file, worktree, daemon, calm>>

\* The daemon has that id already, cannot spawn the command, or is gone.
CreatePtyFails(p) ==
    /\ pc[p] = "spawn"
    /\ Return(p)
    /\ UNCHANGED <<file, worktree, daemon, pty, calm>>

\* The daemon creates the PTY, but the process gives up waiting for its answer.
CreatePtyUnanswered(p) ==
    /\ pc[p] = "spawn"
    /\ daemon = "up"
    /\ pty[SpawnId(p)] = "none"
    /\ pty' = [pty EXCEPT ![SpawnId(p)] = Spawned(p)]
    /\ calm' = FALSE
    /\ Return(p)
    /\ UNCHANGED <<file, worktree, daemon>>

\* An agent that has exited by now failed to start; one that the daemon says is
\* running, or says nothing of, is taken to be alive.
PollForEarlyExit(p) ==
    /\ pc[p] = "poll"
    /\ Goto(p, IF pty[SpawnId(p)] = "exited" THEN "early" ELSE "save")
    /\ UNCHANGED <<file, worktree, daemon, pty, calm>>

DestroyEarlyExit(p) ==
    /\ pc[p] = "early"
    /\ DestroyPty(SpawnId(p))
    /\ Return(p)
    /\ UNCHANGED <<file, worktree, daemon>>

\* Mutant: the status stays what it was.
SaveAgentKeepsStatus(p) ==
    LET s == [mem[p] EXCEPT !.agents = Append(@, SpawnId(p))]
    IN  /\ pc[p] = "save"
        /\ file' = s
        /\ mem' = [mem EXCEPT ![p] = s]
        /\ pc' = [pc EXCEPT ![p] = "attach"]
        /\ UNCHANGED <<worktree, daemon, pty, cmd, left, calm>>

\* The session read before, with the new agent, is written over the file.
SaveAgent(p) ==
    LET s == [status |-> "Active", agents |-> Append(mem[p].agents, SpawnId(p))]
    IN  /\ pc[p] = "save"
        /\ file' = s
        /\ mem' = [mem EXCEPT ![p] = s]
        /\ pc' = [pc EXCEPT ![p] = "attach"]
        /\ UNCHANGED <<worktree, daemon, pty, cmd, left, calm>>

\* With an attach window the whole session is written once more.
SaveAttachWindow(p) ==
    /\ pc[p] = "attach"
    /\ file' \in {file, mem[p]}
    /\ Return(p)
    /\ UNCHANGED <<worktree, daemon, pty, calm>>

-----------------------------------------------------------------------------
(* stop_session and destroy_session *)

Stop(p) ==
    /\ file # NoFile
    /\ Begin(p, "stop", "kill")
    /\ Read(p)
    /\ left' = [left EXCEPT ![p] = file.agents]
    /\ UNCHANGED <<file, worktree, daemon, pty>>

\* DestroySafety.should_block: uncommitted changes, or no worktree to ask.
ShouldBlock == worktree # "clean"

\* The command line refuses if it should, unless it is forced or told to destroy
\* all.
Destroy(p, c) ==
    /\ c \in Destroys
    /\ file # NoFile
    /\ c = "destroy" => ~ShouldBlock
    /\ Begin(p, c, "find")
    /\ UNCHANGED <<file, worktree, daemon, pty, mem, left>>

\* complete_session checks like a destroy, forced or not, and ends in one, but
\* first merges the pull request.
Complete(p, c) ==
    /\ c \in {"destroy", "destroy_force"}
    /\ file # NoFile
    /\ worktree # "none"
    /\ c = "destroy" => ~ShouldBlock
    /\ Begin(p, c, "merge")
    /\ UNCHANGED <<file, worktree, daemon, pty, mem, left>>

\* The forge merges, has merged, or need not; or it refuses, or is not reached.
MergePr(p) ==
    /\ pc[p] = "merge"
    /\ Goto(p, "find") \/ Return(p)
    /\ UNCHANGED <<file, worktree, daemon, pty, calm>>

\* Mutant: only the latest agent will be killed.
FindToDestroyLatest(p) ==
    /\ pc[p] = "find"
    /\ IF file = NoFile
       THEN Return(p)
       ELSE /\ Read(p)
            /\ left' = [left EXCEPT ![p] = SelectSeq(file.agents, LAMBDA i : i = Latest(file))]
            /\ pc' = [pc EXCEPT ![p] = "kill"]
            /\ UNCHANGED cmd
    /\ UNCHANGED <<file, worktree, daemon, pty, calm>>

FindToDestroy(p) ==
    /\ pc[p] = "find"
    /\ IF file = NoFile
       THEN Return(p)
       ELSE /\ Read(p)
            /\ left' = [left EXCEPT ![p] = file.agents]
            /\ pc' = [pc EXCEPT ![p] = "kill"]
            /\ UNCHANGED cmd
    /\ UNCHANGED <<file, worktree, daemon, pty, calm>>

\* Mutant: the daemon session is stopped, not destroyed.
KillAgentByStop(p) ==
    /\ pc[p] = "kill"
    /\ left[p] # <<>>
    /\ IF daemon = "up" /\ pty[Head(left[p])] \in Alive
       THEN pty' = [pty EXCEPT ![Head(left[p])] = "exited"]
       ELSE UNCHANGED pty
    /\ left' = [left EXCEPT ![p] = Tail(@)]
    /\ UNCHANGED <<file, worktree, daemon, pc, cmd, mem, calm>>

\* Neither command minds a daemon that is unreachable.
KillAgent(p) ==
    /\ pc[p] = "kill"
    /\ left[p] # <<>>
    /\ DestroyPty(Head(left[p]))
    /\ left' = [left EXCEPT ![p] = Tail(@)]
    /\ UNCHANGED <<file, worktree, daemon, pc, cmd, mem>>

SaveStopped(p) ==
    /\ pc[p] = "kill"
    /\ left[p] = <<>>
    /\ cmd[p] = "stop"
    /\ file' = StoppedSession
    /\ Return(p)
    /\ UNCHANGED <<worktree, daemon, pty, calm>>

RemoveWorktree(p) ==
    /\ pc[p] = "kill"
    /\ left[p] = <<>>
    /\ cmd[p] \in Destroys
    /\ worktree # "none" \/ cmd[p] = "destroy_force"
    /\ worktree' = "none"
    /\ Goto(p, "unlink")
    /\ UNCHANGED <<file, daemon, pty, calm>>

\* Git refuses, or there is no worktree to find the repository from.
RemoveWorktreeFails(p) ==
    /\ pc[p] = "kill"
    /\ left[p] = <<>>
    /\ cmd[p] \in Destroys
    /\ Return(p)
    /\ UNCHANGED <<file, worktree, daemon, pty, calm>>

RemoveSessionFile(p) ==
    /\ pc[p] = "unlink"
    /\ file' = NoFile
    /\ Return(p)
    /\ UNCHANGED <<worktree, daemon, pty, calm>>

-----------------------------------------------------------------------------
(* The world around the commands. *)

\* A command is killed, or a write of its session file fails.
Die(p) ==
    /\ pc[p] # "idle"
    /\ calm' = FALSE
    /\ Return(p)
    /\ UNCHANGED <<file, worktree, daemon, pty>>

\* The agent or shell of a PTY exits; the daemon keeps its session, Stopped.
AgentExits(i) ==
    /\ pty[i] \in Alive
    /\ pty' = [pty EXCEPT ![i] = "exited"]
    /\ UNCHANGED <<file, worktree, daemon, locals, calm>>

\* The daemon stops or crashes, and its PTYs with it.
DaemonStops ==
    /\ daemon = "up"
    /\ daemon' = "down"
    /\ pty' = [i \in Ids |-> "none"]
    /\ UNCHANGED <<file, worktree, locals, calm>>

\* Someone works in the worktree.
Edit ==
    /\ worktree = "clean"
    /\ worktree' = "dirty"
    /\ UNCHANGED <<file, daemon, pty, locals, calm>>

Commit ==
    /\ worktree = "dirty"
    /\ worktree' = "clean"
    /\ UNCHANGED <<file, daemon, pty, locals, calm>>

Next ==
    \/ \E p \in Procs :
          \/ Create(p) \/ CreateWorktree(p) \/ CreateWorktreeFails(p)
          \/ PreemptiveDestroy(p)
          \/ \E c \in Commands : Open(p, c) \/ Destroy(p, c) \/ Complete(p, c)
          \/ List(p) \/ QueryFindsRunning(p) \/ QueryFindsStopped(p) \/ PatchStatus(p)
          \/ EnsureDaemonRunning(p)
          \/ CreatePty(p) \/ CreatePtyFails(p) \/ CreatePtyUnanswered(p)
          \/ PollForEarlyExit(p) \/ DestroyEarlyExit(p)
          \/ SaveAgent(p) \/ SaveAttachWindow(p)
          \/ Stop(p) \/ MergePr(p) \/ FindToDestroy(p) \/ KillAgent(p) \/ SaveStopped(p)
          \/ RemoveWorktree(p) \/ RemoveWorktreeFails(p) \/ RemoveSessionFile(p)
          \/ Die(p)
    \/ \E i \in Ids : AgentExits(i)
    \/ DaemonStops \/ Edit \/ Commit

Spec == Init /\ [][Next]_vars

-----------------------------------------------------------------------------
(* Properties. *)

Phases == {"idle", "worktree", "preempt", "query", "patch", "daemon", "spawn",
           "poll", "early", "save", "attach", "merge", "find", "kill", "unlink"}

\* Every variable has its type.
TypeOK ==
    /\ file \in Sessions \cup {NoFile}
    /\ worktree \in {"none", "clean", "dirty"}
    /\ daemon \in {"up", "down"}
    /\ pty \in [Ids -> {"none", "agent", "shell", "exited"}]
    /\ pc \in [Procs -> Phases]
    /\ cmd \in [Procs -> Commands \cup {"none"}]
    /\ mem \in [Procs -> Sessions \cup {NoFile}]
    /\ left \in [Procs -> Seq(Ids)]
    /\ calm \in BOOLEAN

Numbered(agents) == \A k \in 1 .. Len(agents) : agents[k] = k - 1

\* The agents of the session file are numbered without gap or repetition,
\* whatever commands run at the same time, die or miss an answer: open takes
\* the number of agents it has read for the index of the next
\* (compute_spawn_id), and every command writes whole sessions.
AgentsAreNumbered == Numbered(file.agents)

AllIdle == \A p \in Procs : pc[p] = "idle"

\* Between calm commands, the daemon has nothing of this kild under an id that
\* the file does not list.  So no agent runs unrecorded, out of reach of stop
\* and destroy, and the id that open or create takes next is free: stop
\* destroys its daemon sessions, for one that was only stopped would be in the
\* way (stop.rs:48), and create and open destroy a PTY that exits early.
NextIdIsFree ==
    calm /\ AllIdle => \A i \in Ids : i >= Len(file.agents) => pty[i] = "none"

\* While all is calm, the latest agent of a session marked Stopped does not
\* run: what the guard of open, which does not ask the daemon about a Stopped
\* session, relies on.
StoppedAgentIsDead ==
    calm /\ file.status = "Stopped" /\ file.agents # <<>>
        => pty[Latest(file)] \notin Alive

\* While all is calm, a worktree is not removed under a running agent, be it
\* one that no command in progress had read of: destroy kills every agent
\* before it calls git.
AgentsDieBeforeWorktree ==
    [][calm /\ worktree # "none" /\ worktree' = "none"
           => \A i \in Ids : pty[i] \notin Alive]_vars

\* What destroy_session promises: without force, git refuses to remove a
\* worktree with uncommitted changes (destroy.rs:246).
UnforcedDestroyKeepsWork ==
    [][worktree = "dirty" /\ worktree' = "none"
           => \E p \in Procs : cmd[p] = "destroy_force"]_vars

=============================================================================
