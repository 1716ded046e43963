------------------------- MODULE KildSessions_proofs -------------------------
(***************************************************************************)
(* Proofs about KildSessions, for any number of processes and any bound on *)
(* the agents of a session.                                                *)
(*                                                                         *)
(* KildInv is inductive.  Its first half holds whatever happens; its second *)
(* half, CalmInv, says what a command may rely on while no other command    *)
(* runs and none is cut off: what it has read is what the file says, and    *)
(* the daemon has only what the file lists and what the command just        *)
(* created.                                                                *)
(***************************************************************************)
EXTENDS KildSessions, TLAPS

\* The command of p goes on to add an agent to the session it has read.
Adding(p) ==
    \/ pc[p] \in {"worktree", "preempt", "daemon", "spawn", "poll", "early", "save"}
    \/ pc[p] \in {"query", "patch"} /\ cmd[p] = "open"

\* What the processes have read is numbered too, and leaves room for the agent
\* that is being added.
MemoryOf(p) ==
    /\ Numbered(mem[p].agents)
    /\ Adding(p) => Len(mem[p].agents) < MaxAgents
    /\ pc[p] \in {"query", "patch"} => mem[p].agents # <<>>
    /\ pc[p] = "attach" => mem[p].status = "Active"

MemoryIsNumbered == \A p \in Procs : MemoryOf(p)

\* The PTYs die with the daemon.
NoDaemonNoPty == daemon = "down" => \A i \in Ids : pty[i] = "none"

OneCommand == \A p, q \in Procs : pc[p] # "idle" /\ pc[q] # "idle" => p = q

\* The daemon has nothing but what the file lists and the PTY being added.
NoStray ==
    \A i \in Ids : pty[i] # "none" =>
        \/ i < Len(file.agents)
        \/ \E p \in Procs : pc[p] \in {"poll", "early", "save"} /\ i = SpawnId(p)

\* What a command has read is still so.
ReadIsCurrent ==
    \A p \in Procs : pc[p] \notin {"idle", "merge", "find", "unlink"} => mem[p].agents = file.agents

\* What is not yet killed is still to be killed.
KillsAll ==
    \A p \in Procs :
        /\ pc[p] = "kill" =>
              \A i \in Ids : pty[i] # "none" => \E k \in 1 .. Len(left[p]) : left[p][k] = i
        /\ pc[p] = "unlink" => \A i \in Ids : pty[i] = "none"

DeadWhenStopped ==
    /\ file.status = "Stopped" /\ file.agents # <<>> => pty[Latest(file)] \notin Alive
    /\ \A p \in Procs : pc[p] = "patch" => pty[Latest(mem[p])] \notin Alive

CalmInv == calm => OneCommand /\ NoStray /\ ReadIsCurrent /\ KillsAll /\ DeadWhenStopped

KildInv == TypeOK /\ AgentsAreNumbered /\ MemoryIsNumbered /\ NoDaemonNoPty /\ CalmInv

-----------------------------------------------------------------------------
(* Facts about the data. *)

LEMMA SessionFields ==
    ASSUME NEW s \in Sessions \cup {NoFile}
    PROVE  /\ s.agents \in Seq(Ids)
           /\ s.status \in {"Active", "Stopped", "none"}
           /\ Len(s.agents) \in Nat
<1>1. CASE s \in Sessions
  BY <1>1 DEF Sessions
<1>2. CASE s = NoFile
  <2>1. s.agents = <<>> /\ s.status = "none"
    BY <1>2 DEF NoFile
  <2>2. <<>> \in Seq(Ids) /\ Len(<<>>) = 0
    OBVIOUS
  <2> QED
    BY <2>1, <2>2
<1> QED
  BY <1>1, <1>2

LEMMA NewSessions == /\ NewSession \in Sessions /\ NewSession.agents = <<>>
                     /\ StoppedSession \in Sessions /\ StoppedSession.agents = <<>>
                     /\ NoFile.agents = <<>> /\ NoFile.status = "none"
  BY DEF NewSession, StoppedSession, NoFile, Sessions

LEMMA StatusChange ==
    ASSUME NEW s \in Sessions \cup {NoFile}
    PROVE  /\ [s EXCEPT !.status = "Stopped"] \in Sessions
           /\ [s EXCEPT !.status = "Stopped"].agents = s.agents
<1>1. CASE s \in Sessions
  BY <1>1 DEF Sessions
<1>2. CASE s = NoFile
  <2>1. [s EXCEPT !.status = "Stopped"] = StoppedSession
    BY <1>2 DEF NoFile, StoppedSession
  <2> QED
    BY <1>2, <2>1, NewSessions
<1> QED
  BY <1>1, <1>2

LEMMA AddedAgent ==
    ASSUME NEW a \in Seq(Ids), Numbered(a), Len(a) < MaxAgents
    PROVE  /\ Len(a) \in Ids
           /\ Append(a, Len(a)) \in Seq(Ids)
           /\ Numbered(Append(a, Len(a)))
           /\ Len(Append(a, Len(a))) = Len(a) + 1
<1>1. Len(a) \in Ids
  BY MaxAgentsAssumption DEF Ids
<1>2. Append(a, Len(a)) \in Seq(Ids) /\ Len(Append(a, Len(a))) = Len(a) + 1
  BY <1>1
<1>3. ASSUME NEW k \in 1 .. Len(Append(a, Len(a))) PROVE Append(a, Len(a))[k] = k - 1
  <2>1. CASE k \in 1 .. Len(a)
    BY <2>1 DEF Numbered
  <2>2. CASE k = Len(a) + 1
    BY <2>2, <1>1
  <2> QED
    BY <1>2, <2>1, <2>2
<1> QED
  BY <1>1, <1>2, <1>3 DEF Numbered

\* What a command that ends leaves of its state.
LEMMA Returned ==
    ASSUME TypeOK, NEW p \in Procs, Return(p)
    PROVE  /\ pc' = [pc EXCEPT ![p] = "idle"]
           /\ pc'[p] = "idle"
           /\ mem'[p] = NoFile
           /\ \A q \in Procs : q # p => /\ pc'[q] = pc[q] /\ cmd'[q] = cmd[q]
                                        /\ mem'[q] = mem[q] /\ left'[q] = left[q]
           /\ pc' \in [Procs -> Phases] /\ cmd' \in [Procs -> Commands \cup {"none"}]
           /\ mem' \in [Procs -> Sessions \cup {NoFile}] /\ left' \in [Procs -> Seq(Ids)]
  BY DEF TypeOK, Return, Phases

-----------------------------------------------------------------------------
(* The type invariant. *)

LEMMA TypeInit == Init => TypeOK
  BY DEF Init, TypeOK, Phases

LEMMA TypeStep == TypeOK /\ MemoryIsNumbered /\ [Next]_vars => TypeOK'
<1> SUFFICES ASSUME TypeOK, MemoryIsNumbered, [Next]_vars PROVE TypeOK'
    OBVIOUS
<1>p. \A i : DestroyPty(i) => /\ pty' \in [Ids -> {"none", "agent", "shell", "exited"}]
                              /\ calm' \in BOOLEAN
  BY DEF DestroyPty, TypeOK
<1>1. ASSUME NEW p \in Procs, Create(p) PROVE TypeOK'
  BY <1>1, NewSessions DEF TypeOK, Create, Begin, Phases, Commands, Opens
<1>2. ASSUME NEW p \in Procs, CreateWorktree(p) \/ CreateWorktreeFails(p) PROVE TypeOK'
  <2>1. CASE CreateWorktree(p)
    BY <2>1 DEF TypeOK, CreateWorktree, Goto, Phases
  <2>2. CASE CreateWorktreeFails(p)
    BY <2>2, Returned DEF TypeOK, CreateWorktreeFails
  <2> QED
    BY <1>2, <2>1, <2>2
<1>3. ASSUME NEW p \in Procs, PreemptiveDestroy(p) PROVE TypeOK'
  BY <1>p, <1>3 DEF TypeOK, PreemptiveDestroy, Goto, Phases
<1>4. ASSUME NEW p \in Procs, NEW c \in Commands, Open(p, c) PROVE TypeOK'
  BY <1>4 DEF TypeOK, Open, Begin, Read, Phases
<1>5. ASSUME NEW p \in Procs, NEW c \in Commands, Destroy(p, c) \/ Complete(p, c)
      PROVE  TypeOK'
  BY <1>5 DEF TypeOK, Destroy, Complete, Begin, Phases
<1>6. ASSUME NEW p \in Procs, List(p) PROVE TypeOK'
  BY <1>6 DEF TypeOK, List, Begin, Read, Phases, Commands
<1>7. ASSUME NEW p \in Procs, QueryFindsRunning(p) PROVE TypeOK'
  BY <1>7, Returned DEF TypeOK, QueryFindsRunning
<1>8. ASSUME NEW p \in Procs, QueryFindsStopped(p) PROVE TypeOK'
  <2>1. [mem[p] EXCEPT !.status = "Stopped"] \in Sessions
    BY StatusChange DEF TypeOK
  <2> QED
    BY <1>8, <2>1 DEF TypeOK, QueryFindsStopped, Phases
<1>9. ASSUME NEW p \in Procs, PatchStatus(p) PROVE TypeOK'
  <2>1. file' \in Sessions \cup {NoFile}
    BY <1>9, StatusChange DEF TypeOK, PatchStatus
  <2>2. CASE Goto(p, "daemon")
    BY <1>9, <2>1, <2>2 DEF TypeOK, PatchStatus, Goto, Phases
  <2>3. CASE Return(p)
    BY <1>9, <2>1, <2>3, Returned DEF TypeOK, PatchStatus
  <2> QED
    BY <1>9, <2>2, <2>3 DEF PatchStatus
<1>10. ASSUME NEW p \in Procs, EnsureDaemonRunning(p) PROVE TypeOK'
  <2>1. CASE daemon' = "up" /\ Goto(p, "spawn")
    BY <1>10, <2>1 DEF TypeOK, EnsureDaemonRunning, Goto, Phases
  <2>2. CASE UNCHANGED daemon /\ Return(p)
    BY <1>10, <2>2, Returned DEF TypeOK, EnsureDaemonRunning
  <2> QED
    BY <1>10, <2>1, <2>2 DEF EnsureDaemonRunning
<1>11. ASSUME NEW p \in Procs, CreatePty(p) PROVE TypeOK'
  BY <1>11 DEF TypeOK, CreatePty, Goto, Phases, Spawned
<1>12. ASSUME NEW p \in Procs, CreatePtyFails(p) PROVE TypeOK'
  BY <1>12, Returned DEF TypeOK, CreatePtyFails
<1>13. ASSUME NEW p \in Procs, CreatePtyUnanswered(p) PROVE TypeOK'
  <2>1. pty' \in [Ids -> {"none", "agent", "shell", "exited"}]
    BY <1>13 DEF TypeOK, CreatePtyUnanswered, Spawned
  <2> QED
    BY <1>13, <2>1, Returned DEF TypeOK, CreatePtyUnanswered
<1>14. ASSUME NEW p \in Procs, PollForEarlyExit(p) PROVE TypeOK'
  BY <1>14 DEF TypeOK, PollForEarlyExit, Goto, Phases
<1>15. ASSUME NEW p \in Procs, DestroyEarlyExit(p) PROVE TypeOK'
  BY <1>p, <1>15, Returned DEF TypeOK, DestroyEarlyExit
<1>16. ASSUME NEW p \in Procs, SaveAgent(p) PROVE TypeOK'
  <2> DEFINE s == [status |-> "Active", agents |-> Append(mem[p].agents, SpawnId(p))]
  <2>1. mem[p].agents \in Seq(Ids) /\ Numbered(mem[p].agents) /\ Len(mem[p].agents) < MaxAgents
    BY <1>16, SessionFields DEF TypeOK, MemoryIsNumbered, MemoryOf, Adding, SaveAgent
  <2>2. Append(mem[p].agents, SpawnId(p)) \in Seq(Ids)
    BY <2>1, AddedAgent DEF SpawnId
  <2>3. s \in Sessions
    BY <2>2 DEF Sessions
  <2>4. file' = s /\ mem' = [mem EXCEPT ![p] = s]
    BY <1>16 DEF SaveAgent
  <2> HIDE DEF s
  <2> QED
    BY <1>16, <2>3, <2>4 DEF TypeOK, SaveAgent, Phases
<1>17. ASSUME NEW p \in Procs, SaveAttachWindow(p) PROVE TypeOK'
  BY <1>17, Returned DEF TypeOK, SaveAttachWindow
<1>18. ASSUME NEW p \in Procs, Stop(p) PROVE TypeOK'
  BY <1>18, SessionFields DEF TypeOK, Stop, Begin, Read, Phases, Commands
<1>19. ASSUME NEW p \in Procs, FindToDestroy(p) PROVE TypeOK'
  <2>1. CASE file = NoFile
    BY <1>19, <2>1, Returned DEF TypeOK, FindToDestroy
  <2>2. CASE file # NoFile
    BY <1>19, <2>2, SessionFields DEF TypeOK, FindToDestroy, Read, Phases
  <2> QED
    BY <2>1, <2>2
<1>20. ASSUME NEW p \in Procs, KillAgent(p) PROVE TypeOK'
  <2>1. left[p] \in Seq(Ids) /\ left[p] # <<>>
    BY <1>20 DEF TypeOK, KillAgent
  <2>2. Tail(left[p]) \in Seq(Ids)
    BY <2>1
  <2>3. left' \in [Procs -> Seq(Ids)]
    BY <1>20, <2>2, Zenon DEF TypeOK, KillAgent
  <2> QED
    BY <1>p, <1>20, <2>3 DEF TypeOK, KillAgent
<1>21. ASSUME NEW p \in Procs, SaveStopped(p) PROVE TypeOK'
  BY <1>21, Returned, NewSessions DEF TypeOK, SaveStopped
<1>22. ASSUME NEW p \in Procs, RemoveWorktree(p) PROVE TypeOK'
  BY <1>22 DEF TypeOK, RemoveWorktree, Goto, Phases
<1>23. ASSUME NEW p \in Procs, RemoveWorktreeFails(p) PROVE TypeOK'
  BY <1>23, Returned DEF TypeOK, RemoveWorktreeFails
<1>24. ASSUME NEW p \in Procs, RemoveSessionFile(p) PROVE TypeOK'
  BY <1>24, Returned DEF TypeOK, RemoveSessionFile
<1>25. ASSUME NEW p \in Procs, Die(p) PROVE TypeOK'
  BY <1>25, Returned DEF TypeOK, Die
<1>26. ASSUME NEW i \in Ids, AgentExits(i) PROVE TypeOK'
  BY <1>26 DEF TypeOK, AgentExits, locals
<1>27. CASE DaemonStops
  BY <1>27 DEF TypeOK, DaemonStops, locals
<1>28. CASE Edit \/ Commit
  BY <1>28 DEF TypeOK, Edit, Commit, locals
<1>29. CASE UNCHANGED vars
  BY <1>29 DEF TypeOK, vars, locals
<1>30. ASSUME NEW p \in Procs, MergePr(p) PROVE TypeOK'
  <2>1. CASE Goto(p, "find")
    BY <1>30, <2>1 DEF TypeOK, MergePr, Goto, Phases
  <2>2. CASE Return(p)
    BY <1>30, <2>2, Returned DEF TypeOK, MergePr
  <2> QED
    BY <1>30, <2>1, <2>2 DEF MergePr
<1> QED
  BY <1>1, <1>2, <1>3, <1>4, <1>5, <1>6, <1>7, <1>8, <1>9, <1>10, <1>11, <1>12, <1>13,
     <1>14, <1>15, <1>16, <1>17, <1>18, <1>19, <1>20, <1>21, <1>22, <1>23, <1>24, <1>25,
     <1>26, <1>27, <1>28, <1>29, <1>30 DEF Next

-----------------------------------------------------------------------------
(* Numbering, and the PTYs of a daemon that is down. *)

\* A step of p leaves the other processes alone.
OthersKeep(p) ==
    \A q \in Procs : q # p => /\ pc'[q] = pc[q] /\ cmd'[q] = cmd[q]
                              /\ mem'[q] = mem[q] /\ left'[q] = left[q]

LEMMA MemoryByProcess ==
    ASSUME MemoryIsNumbered, NEW p \in Procs, OthersKeep(p), MemoryOf(p)'
    PROVE  MemoryIsNumbered'
<1>1. ASSUME NEW q \in Procs, q # p PROVE MemoryOf(q)'
  BY <1>1 DEF MemoryIsNumbered, OthersKeep, MemoryOf, Adding
<1> QED
  BY <1>1 DEF MemoryIsNumbered

LEMMA ReturnedMemory ==
    ASSUME TypeOK, MemoryIsNumbered, NEW p \in Procs, Return(p)
    PROVE  MemoryIsNumbered'
<1>1. mem'[p].agents = <<>> /\ pc'[p] = "idle" /\ OthersKeep(p)
  BY Returned, NewSessions DEF OthersKeep
<1>2. MemoryOf(p)'
  BY <1>1 DEF MemoryOf, Adding, Numbered
<1> QED
  BY <1>1, <1>2, MemoryByProcess

LEMMA NumberStep ==
    TypeOK /\ AgentsAreNumbered /\ MemoryIsNumbered /\ [Next]_vars
        => AgentsAreNumbered' /\ MemoryIsNumbered'
<1> SUFFICES ASSUME TypeOK, AgentsAreNumbered, MemoryIsNumbered, [Next]_vars
             PROVE  AgentsAreNumbered' /\ MemoryIsNumbered'
    OBVIOUS
<1> DEFINE Goal == AgentsAreNumbered' /\ MemoryIsNumbered'
<1>f. file \in Sessions \cup {NoFile} /\ file.agents \in Seq(Ids)
  BY SessionFields DEF TypeOK
<1>m. \A p \in Procs : mem[p] \in Sessions \cup {NoFile} /\ mem[p].agents \in Seq(Ids)
  BY SessionFields DEF TypeOK
<1>a. file' = file => AgentsAreNumbered'
  BY DEF AgentsAreNumbered
<1>e. Numbered(<<>>)
  BY DEF Numbered
<1>0. 0 < MaxAgents
  BY MaxAgentsAssumption
<1>1. ASSUME NEW p \in Procs, Create(p) PROVE Goal
  <2>1. mem'[p].agents = <<>> /\ pc'[p] = "worktree" /\ OthersKeep(p)
    BY <1>1, NewSessions DEF TypeOK, Create, Begin, OthersKeep
  <2>2. MemoryOf(p)'
    BY <1>e, <1>0, <2>1 DEF MemoryOf, Adding
  <2> QED
    BY <1>a, <1>1, <2>1, <2>2, MemoryByProcess DEF Create
<1>2. ASSUME NEW p \in Procs,
             \/ CreateWorktree(p) \/ PreemptiveDestroy(p) \/ CreatePty(p)
             \/ PollForEarlyExit(p) \/ RemoveWorktree(p)
      PROVE  Goal
  <2>1. file' = file /\ mem' = mem /\ cmd' = cmd /\ left' = left /\ OthersKeep(p)
    BY <1>2 DEF TypeOK, CreateWorktree, PreemptiveDestroy, CreatePty, PollForEarlyExit,
                RemoveWorktree, Goto, OthersKeep
  <2>2. pc'[p] \notin {"query", "patch", "attach"} /\ (Adding(p)' => Adding(p))
    BY <1>2, <2>1 DEF TypeOK, CreateWorktree, PreemptiveDestroy, CreatePty,
                PollForEarlyExit, RemoveWorktree, Goto, Adding
  <2>3. MemoryOf(p)'
    BY <2>1, <2>2 DEF MemoryIsNumbered, MemoryOf
  <2> QED
    BY <1>a, <2>1, <2>3, MemoryByProcess
<1>3. ASSUME NEW p \in Procs,
             \/ CreateWorktreeFails(p) \/ QueryFindsRunning(p) \/ CreatePtyFails(p)
             \/ CreatePtyUnanswered(p) \/ DestroyEarlyExit(p) \/ RemoveWorktreeFails(p)
             \/ Die(p)
      PROVE  Goal
  <2>1. file' = file /\ Return(p)
    BY <1>3 DEF CreateWorktreeFails, QueryFindsRunning, CreatePtyFails,
                CreatePtyUnanswered, DestroyEarlyExit, RemoveWorktreeFails, Die
  <2> QED
    BY <1>a, <2>1, ReturnedMemory
<1>4. ASSUME NEW p \in Procs, NEW c \in Commands, Open(p, c) PROVE Goal
  <2>1. file' = file /\ mem'[p] = file /\ cmd'[p] = c /\ OthersKeep(p)
    BY <1>4 DEF TypeOK, Open, Begin, Read, OthersKeep
  <2>2. /\ pc'[p] \in {"query", "daemon"}
        /\ pc'[p] = "query" => file.agents # <<>>
        /\ Len(file.agents) < MaxAgents
    BY <1>4 DEF TypeOK, Open, Begin
  <2>3. MemoryOf(p)'
    BY <2>1, <2>2 DEF MemoryOf, AgentsAreNumbered
  <2> QED
    BY <1>a, <2>1, <2>3, MemoryByProcess
<1>5. ASSUME NEW p \in Procs, NEW c \in Commands, Destroy(p, c) \/ Complete(p, c)
      PROVE  Goal
  <2>1. file' = file /\ mem' = mem /\ pc'[p] \in {"merge", "find"} /\ OthersKeep(p)
    BY <1>5 DEF TypeOK, Destroy, Complete, Begin, OthersKeep
  <2>2. MemoryOf(p)'
    BY <2>1 DEF MemoryIsNumbered, MemoryOf, Adding
  <2> QED
    BY <1>a, <2>1, <2>2, MemoryByProcess
<1>6. ASSUME NEW p \in Procs, List(p) PROVE Goal
  <2>1. /\ file' = file /\ mem'[p] = file /\ pc'[p] = "query" /\ cmd'[p] = "list"
        /\ file.agents # <<>> /\ OthersKeep(p)
    BY <1>6 DEF TypeOK, List, Begin, Read, OthersKeep
  <2>2. MemoryOf(p)'
    BY <2>1 DEF MemoryOf, AgentsAreNumbered, Adding
  <2> QED
    BY <1>a, <2>1, <2>2, MemoryByProcess
<1>8. ASSUME NEW p \in Procs, QueryFindsStopped(p) PROVE Goal
  <2>1. /\ file' = file /\ pc[p] = "query" /\ pc'[p] = "patch" /\ cmd' = cmd
        /\ mem'[p] = [mem[p] EXCEPT !.status = "Stopped"] /\ OthersKeep(p)
    BY <1>8 DEF TypeOK, QueryFindsStopped, OthersKeep
  <2>2. mem'[p].agents = mem[p].agents
    BY <1>m, <2>1, StatusChange
  <2>3. MemoryOf(p)'
    BY <2>1, <2>2 DEF MemoryIsNumbered, MemoryOf, Adding
  <2> QED
    BY <1>a, <2>1, <2>3, MemoryByProcess
<1>9. ASSUME NEW p \in Procs, PatchStatus(p) PROVE Goal
  <2>1. file'.agents = file.agents
    BY <1>9, <1>f, StatusChange, NewSessions DEF PatchStatus
  <2>2. AgentsAreNumbered'
    BY <2>1 DEF AgentsAreNumbered
  <2>3. CASE cmd[p] = "open"
    <3>1. pc[p] = "patch" /\ pc'[p] = "daemon" /\ mem' = mem /\ OthersKeep(p)
      BY <1>9, <2>3 DEF TypeOK, PatchStatus, Goto, OthersKeep
    <3>2. MemoryOf(p)'
      BY <2>3, <3>1 DEF MemoryIsNumbered, MemoryOf, Adding
    <3> QED
      BY <2>2, <3>1, <3>2, MemoryByProcess
  <2>4. CASE cmd[p] # "open"
    BY <1>9, <2>2, <2>4, ReturnedMemory DEF PatchStatus
  <2> QED
    BY <2>3, <2>4
<1>10. ASSUME NEW p \in Procs, EnsureDaemonRunning(p) PROVE Goal
  <2>1. CASE Goto(p, "spawn")
    <3>1. pc[p] = "daemon" /\ pc'[p] = "spawn" /\ mem' = mem /\ OthersKeep(p)
      BY <1>10, <2>1 DEF TypeOK, EnsureDaemonRunning, Goto, OthersKeep
    <3>2. MemoryOf(p)'
      BY <3>1 DEF MemoryIsNumbered, MemoryOf, Adding
    <3> QED
      BY <1>a, <1>10, <3>1, <3>2, MemoryByProcess DEF EnsureDaemonRunning
  <2>2. CASE Return(p)
    BY <1>a, <1>10, <2>2, ReturnedMemory DEF EnsureDaemonRunning
  <2> QED
    BY <1>10, <2>1, <2>2 DEF EnsureDaemonRunning
<1>16. ASSUME NEW p \in Procs, SaveAgent(p) PROVE Goal
  <2> DEFINE a == Append(mem[p].agents, SpawnId(p))
  <2>1. Numbered(mem[p].agents) /\ Len(mem[p].agents) < MaxAgents
    BY <1>16 DEF MemoryIsNumbered, MemoryOf, Adding, SaveAgent
  <2>2. Numbered(a)
    BY <1>m, <2>1, AddedAgent DEF SpawnId
  <2>3. /\ file'.agents = a /\ mem'[p].agents = a /\ mem'[p].status = "Active"
        /\ pc'[p] = "attach" /\ OthersKeep(p)
    BY <1>16 DEF TypeOK, SaveAgent, OthersKeep
  <2>4. MemoryOf(p)'
    BY <2>2, <2>3 DEF MemoryOf, Adding
  <2> QED
    BY <2>2, <2>3, <2>4, MemoryByProcess DEF AgentsAreNumbered
<1>17. ASSUME NEW p \in Procs, SaveAttachWindow(p) PROVE Goal
  <2>1. AgentsAreNumbered'
    BY <1>a, <1>17 DEF SaveAttachWindow, AgentsAreNumbered, MemoryIsNumbered, MemoryOf
  <2> QED
    BY <1>17, <2>1, ReturnedMemory DEF SaveAttachWindow
<1>18. ASSUME NEW p \in Procs, Stop(p) PROVE Goal
  <2>1. file' = file /\ mem'[p] = file /\ pc'[p] = "kill" 
    BY <1>18 DEF TypeOK, Stop, Begin, Read
  <2>2. OthersKeep(p)
    BY <1>18 DEF TypeOK, Stop, Begin, Read, OthersKeep
  <2>3. MemoryOf(p)'
    BY <2>1 DEF MemoryOf, AgentsAreNumbered, Adding
  <2> QED
    BY <1>a, <2>1, <2>2, <2>3, MemoryByProcess
<1>19. ASSUME NEW p \in Procs, FindToDestroy(p) PROVE Goal
  <2>1. CASE file = NoFile
    BY <1>a, <1>19, <2>1, ReturnedMemory DEF FindToDestroy
  <2>2. CASE file # NoFile
    <3>1. file' = file /\ mem'[p] = file /\ pc'[p] = "kill" /\ OthersKeep(p)
      BY <1>19, <2>2 DEF TypeOK, FindToDestroy, Read, OthersKeep
    <3>2. MemoryOf(p)'
      BY <3>1 DEF MemoryOf, AgentsAreNumbered, Adding
    <3> QED
      BY <1>a, <3>1, <3>2, MemoryByProcess
  <2> QED
    BY <2>1, <2>2
<1>20. ASSUME NEW p \in Procs, KillAgent(p) PROVE Goal
  <2>1. file' = file /\ mem' = mem /\ pc' = pc /\ cmd' = cmd
    BY <1>20 DEF KillAgent
  <2> QED
    BY <1>a, <2>1 DEF MemoryIsNumbered, MemoryOf, Adding
<1>21. ASSUME NEW p \in Procs, SaveStopped(p) \/ RemoveSessionFile(p) PROVE Goal
  <2>1. file'.agents = <<>> /\ Return(p)
    BY <1>21, NewSessions DEF SaveStopped, RemoveSessionFile
  <2> QED
    BY <1>e, <2>1, ReturnedMemory DEF AgentsAreNumbered
<1>22. CASE (\E i \in Ids : AgentExits(i)) \/ DaemonStops \/ Edit \/ Commit \/ UNCHANGED vars
  <2>1. file' = file /\ mem' = mem /\ pc' = pc /\ cmd' = cmd
    BY <1>22 DEF AgentExits, DaemonStops, Edit, Commit, vars, locals
  <2> QED
    BY <1>a, <2>1 DEF MemoryIsNumbered, MemoryOf, Adding
<1>23. ASSUME NEW p \in Procs, MergePr(p) PROVE Goal
  <2>1. CASE Goto(p, "find")
    <3>1. file' = file /\ pc'[p] = "find" /\ mem' = mem /\ OthersKeep(p)
      BY <1>23, <2>1 DEF TypeOK, MergePr, Goto, OthersKeep
    <3>2. MemoryOf(p)'
      BY <3>1 DEF MemoryIsNumbered, MemoryOf, Adding
    <3> QED
      BY <1>a, <3>1, <3>2, MemoryByProcess
  <2>2. CASE Return(p)
    BY <1>a, <1>23, <2>2, ReturnedMemory DEF MergePr
  <2> QED
    BY <1>23, <2>1, <2>2 DEF MergePr
<1> QED
  BY <1>1, <1>2, <1>3, <1>4, <1>5, <1>6, <1>8, <1>9, <1>10, <1>16, <1>17, <1>18, <1>19,
     <1>20, <1>21, <1>22, <1>23 DEF Next

LEMMA DaemonStep == TypeOK /\ NoDaemonNoPty /\ [Next]_vars => NoDaemonNoPty'
<1> SUFFICES ASSUME TypeOK, NoDaemonNoPty, [Next]_vars, daemon' = "down",
                    NEW i \in Ids
             PROVE  pty'[i] = "none"
    BY DEF NoDaemonNoPty
<1>1. CASE DaemonStops
  BY <1>1 DEF DaemonStops
<1>2. CASE daemon = "down" /\ ~DaemonStops
  <2>1. pty[i] = "none" /\ \A j \in Ids : pty[j] = "none"
    BY <1>2 DEF NoDaemonNoPty
  <2>2. pty' = pty
    BY <1>2, <2>1
       DEF Next, Create, CreateWorktree, CreateWorktreeFails, PreemptiveDestroy, Open,
           Destroy, Complete, MergePr, List, QueryFindsRunning, QueryFindsStopped, PatchStatus,
           EnsureDaemonRunning, CreatePty, CreatePtyFails, CreatePtyUnanswered,
           PollForEarlyExit, DestroyEarlyExit, SaveAgent, SaveAttachWindow, Stop,
           FindToDestroy, KillAgent, SaveStopped, RemoveWorktree, RemoveWorktreeFails,
           RemoveSessionFile, Die, AgentExits, Alive, Edit, Commit, vars, DestroyPty
  <2> QED
    BY <2>1, <2>2
<1>3. CASE daemon = "up" /\ ~DaemonStops
  <2>1. daemon' = "up"
    BY <1>3
       DEF Next, Create, CreateWorktree, CreateWorktreeFails, PreemptiveDestroy, Open,
           Destroy, Complete, MergePr, List, QueryFindsRunning, QueryFindsStopped, PatchStatus,
           EnsureDaemonRunning, CreatePty, CreatePtyFails, CreatePtyUnanswered,
           PollForEarlyExit, DestroyEarlyExit, SaveAgent, SaveAttachWindow, Stop,
           FindToDestroy, KillAgent, SaveStopped, RemoveWorktree, RemoveWorktreeFails,
           RemoveSessionFile, Die, AgentExits, Edit, Commit, vars
  <2> QED
    BY <2>1
<1> QED
  BY <1>1, <1>2, <1>3 DEF TypeOK

-----------------------------------------------------------------------------
(* Calm. *)

\* What CalmInv says when p is the only process with a command, or none has one.
Alone(p) == \A q \in Procs : q # p => pc[q] = "idle"

CalmOf(p) ==
    /\ \A i \in Ids : pty[i] # "none" =>
          \/ i < Len(file.agents)
          \/ pc[p] \in {"poll", "early", "save"} /\ i = SpawnId(p)
    /\ pc[p] \notin {"idle", "merge", "find", "unlink"} => mem[p].agents = file.agents
    /\ pc[p] = "kill" =>
          \A i \in Ids : pty[i] # "none" => \E k \in 1 .. Len(left[p]) : left[p][k] = i
    /\ pc[p] = "unlink" => \A i \in Ids : pty[i] = "none"
    /\ file.status = "Stopped" /\ file.agents # <<>> => pty[Latest(file)] \notin Alive
    /\ pc[p] = "patch" => pty[Latest(mem[p])] \notin Alive

Undisturbed == OneCommand /\ NoStray /\ ReadIsCurrent /\ KillsAll /\ DeadWhenStopped

LEMMA UndisturbedByProcess ==
    \A p \in Procs : Alone(p) /\ CalmOf(p) => Undisturbed
<1> SUFFICES ASSUME NEW p \in Procs, Alone(p), CalmOf(p) PROVE Undisturbed
    OBVIOUS
<1>1. OneCommand
  BY DEF Alone, OneCommand
<1>2. NoStray
  BY DEF CalmOf, NoStray
<1>3. ReadIsCurrent /\ KillsAll
  BY DEF Alone, CalmOf, ReadIsCurrent, KillsAll
<1>4. DeadWhenStopped
  BY DEF Alone, CalmOf, DeadWhenStopped
<1> QED
  BY <1>1, <1>2, <1>3, <1>4 DEF Undisturbed

LEMMA UndisturbedNext ==
    \A p \in Procs : Alone(p)' /\ CalmOf(p)' => Undisturbed'
<1>1. (\A p \in Procs : Alone(p) /\ CalmOf(p) => Undisturbed)'
  BY UndisturbedByProcess, PTL
<1> QED
  BY <1>1

LEMMA ProcessOfUndisturbed ==
    ASSUME Undisturbed, NEW p \in Procs, pc[p] # "idle" \/ AllIdle
    PROVE  Alone(p) /\ CalmOf(p)
<1>1. Alone(p)
  BY DEF Undisturbed, OneCommand, Alone, AllIdle
<1>2. ASSUME NEW i \in Ids, pty[i] # "none"
      PROVE  \/ i < Len(file.agents)
             \/ pc[p] \in {"poll", "early", "save"} /\ i = SpawnId(p)
  BY <1>1, <1>2 DEF Undisturbed, NoStray, Alone
<1> QED
  BY <1>1, <1>2 DEF Undisturbed, ReadIsCurrent, KillsAll, DeadWhenStopped, CalmOf

\* Once p has returned, with no stray PTY and nothing alive that is marked
\* Stopped, all is well.
LEMMA ReturnedCalm ==
    ASSUME TypeOK, NEW p \in Procs, Alone(p), Return(p),
           \A i \in Ids : pty'[i] # "none" => i < Len(file'.agents),
           file'.status = "Stopped" /\ file'.agents # <<>> => pty'[Latest(file')] \notin Alive
    PROVE  Undisturbed'
<1>1. pc'[p] = "idle" /\ Alone(p)'
  BY Returned DEF Alone
<1>2. CalmOf(p)'
  BY <1>1 DEF CalmOf, Latest
<1> QED
  BY <1>1, <1>2, UndisturbedNext

\* A step of the world that leaves the commands and the file alone and creates
\* no PTY.
LEMMA WorldCalm ==
    ASSUME TypeOK, MemoryIsNumbered, Undisturbed, UNCHANGED <<file, pc, mem, left>>,
           \A i \in Ids : pty'[i] # "none" => pty[i] # "none",
           \A i \in Ids : pty'[i] \in Alive => pty[i] \in Alive
    PROVE  Undisturbed'
<1>1. OneCommand' /\ ReadIsCurrent'
  BY DEF Undisturbed, OneCommand, ReadIsCurrent
<1>2. NoStray'
  BY DEF Undisturbed, NoStray, SpawnId
<1>3. KillsAll'
  BY DEF Undisturbed, KillsAll
<1>4. DeadWhenStopped'
  <2>1. file.agents # <<>> => Latest(file) \in Ids
    BY SessionFields DEF TypeOK, Latest
  <2>2. \A p \in Procs : pc[p] = "patch" => Latest(mem[p]) \in Ids
    BY SessionFields DEF TypeOK, MemoryIsNumbered, MemoryOf, Latest
  <2> QED
    BY <2>1, <2>2 DEF Undisturbed, DeadWhenStopped, Latest
<1> QED
  BY <1>1, <1>2, <1>3, <1>4 DEF Undisturbed

\* The part of destroying one PTY.
LEMMA Destroyed ==
    ASSUME TypeOK, NoDaemonNoPty, NEW i \in Ids, DestroyPty(i), calm'
    PROVE  /\ calm
           /\ pty'[i] = "none"
           /\ \A j \in Ids : j # i => pty'[j] \in {pty[j], "none"}
<1>1. CASE daemon = "up"
  BY <1>1 DEF TypeOK, DestroyPty
<1>2. CASE daemon # "up"
  BY <1>2 DEF TypeOK, DestroyPty, NoDaemonNoPty
<1> QED
  BY <1>1, <1>2

LEMMA CalmStep == KildInv /\ [Next]_vars => CalmInv'
<1> SUFFICES ASSUME TypeOK, AgentsAreNumbered, MemoryIsNumbered, NoDaemonNoPty, CalmInv,
                    [Next]_vars, calm'
             PROVE  Undisturbed'
    BY DEF KildInv, CalmInv, Undisturbed
<1>f. file \in Sessions \cup {NoFile} /\ file.agents \in Seq(Ids) /\ Len(file.agents) \in Nat
  BY SessionFields DEF TypeOK
<1>m. \A p \in Procs : mem[p] \in Sessions \cup {NoFile} /\ mem[p].agents \in Seq(Ids)
                       /\ Len(mem[p].agents) \in Nat
  BY SessionFields DEF TypeOK
<1>i. \A i \in Ids : i \in Nat
  BY MaxAgentsAssumption DEF Ids
<1>u. calm => Undisturbed
  BY DEF CalmInv, Undisturbed
<1>b. \A p \in Procs : \A c, next : Begin(p, c, next) =>
         /\ pc'[p] = next /\ Alone(p) /\ CalmOf(p) /\ Alone(p)' /\ pc[p] = "idle"
  <2> SUFFICES ASSUME NEW p \in Procs, NEW c, NEW next, Begin(p, c, next)
               PROVE  pc'[p] = next /\ Alone(p) /\ CalmOf(p) /\ Alone(p)' /\ pc[p] = "idle"
      OBVIOUS
  <2>1. calm /\ pc[p] = "idle" /\ Alone(p)
    BY DEF Begin, Alone
  <2>2. AllIdle
    BY <2>1 DEF AllIdle, Alone
  <2>3. CalmOf(p)
    BY <1>u, <2>1, <2>2, ProcessOfUndisturbed
  <2>4. pc'[p] = next /\ \A q \in Procs : q # p => pc'[q] = pc[q]
    BY DEF TypeOK, Begin
  <2> QED
    BY <2>1, <2>3, <2>4 DEF Alone
<1>c. \A p \in Procs : calm /\ pc[p] # "idle" => Alone(p) /\ CalmOf(p)
  BY <1>u, ProcessOfUndisturbed
<1>g. \A p \in Procs : \A next : Alone(p) /\ Goto(p, next) =>
         /\ pc'[p] = next /\ Alone(p)' /\ UNCHANGED <<cmd, mem, left>>
  BY DEF TypeOK, Goto, Alone
<1>1. ASSUME NEW p \in Procs, Create(p) PROVE Undisturbed'
  <2>1. Begin(p, "create", "worktree") /\ file' = file /\ pty' = pty /\ file = NoFile
        /\ mem'[p] = NewSession
    BY <1>1 DEF TypeOK, Create
  <2>2. pc'[p] = "worktree" /\ CalmOf(p) /\ Alone(p)' /\ pc[p] = "idle"
    BY <1>b, <2>1
  <2>3. CalmOf(p)'
    BY <2>1, <2>2, NewSessions DEF CalmOf
  <2> QED
    BY <2>2, <2>3, UndisturbedNext
<1>2. ASSUME NEW p \in Procs, CreateWorktree(p) \/ PollForEarlyExit(p) PROVE Undisturbed'
  <2>1. /\ calm /\ file' = file /\ pty' = pty
        /\ pc[p] \notin {"idle", "merge", "find", "unlink"}
        /\ \E next \in {"preempt", "early", "save"} :
              Goto(p, next) /\ (next = "preempt" \/ pc[p] = "poll")
    BY <1>2 DEF CreateWorktree, PollForEarlyExit
  <2>2. PICK next \in {"preempt", "early", "save"} :
              Goto(p, next) /\ (next = "preempt" \/ pc[p] = "poll")
    BY <2>1
  <2>3. Alone(p) /\ CalmOf(p) /\ (next = "preempt" => pc[p] = "worktree")
    BY <1>c, <1>2, <2>1, <2>2 DEF CreateWorktree, PollForEarlyExit, Goto, TypeOK
  <2>4. pc'[p] = next /\ Alone(p)' /\ mem' = mem /\ left' = left
    BY <1>g, <2>2, <2>3
  <2>5. CalmOf(p)'
    BY <2>1, <2>2, <2>3, <2>4 DEF CalmOf, SpawnId, Latest
  <2> QED
    BY <2>4, <2>5, UndisturbedNext
<1>3. ASSUME NEW p \in Procs, PreemptiveDestroy(p) PROVE Undisturbed'
  <2>1. pc[p] = "preempt" /\ DestroyPty(SpawnId(p)) /\ Goto(p, "daemon") /\ file' = file
    BY <1>3 DEF PreemptiveDestroy
  <2>2. SpawnId(p) \in Ids
    BY <1>m, <2>1, AddedAgent DEF MemoryIsNumbered, MemoryOf, Adding, SpawnId
  <2>3. /\ calm
        /\ \A j \in Ids : pty'[j] \in {pty[j], "none"}
    BY <2>1, <2>2, Destroyed
  <2>4. Alone(p) /\ CalmOf(p)
    BY <1>c, <2>1, <2>3
  <2>5. pc'[p] = "daemon" /\ Alone(p)' /\ mem' = mem /\ left' = left
    BY <1>g, <2>1, <2>4
  <2>6. file.agents # <<>> => Latest(file) \in Ids
    BY <1>f DEF Latest
  <2>7. CalmOf(p)'
    BY <2>1, <2>3, <2>4, <2>5, <2>6 DEF CalmOf, Latest, Alive
  <2> QED
    BY <2>5, <2>7, UndisturbedNext
<1>4. ASSUME NEW p \in Procs, NEW c \in Commands, Open(p, c) PROVE Undisturbed'
  <2>1. \E next \in {"query", "daemon"} : Begin(p, c, next)
    BY <1>4 DEF Open
  <2>2. file' = file /\ pty' = pty /\ mem'[p] = file
    BY <1>4 DEF TypeOK, Open, Read
  <2>3. pc'[p] \in {"query", "daemon"} /\ CalmOf(p) /\ Alone(p)' /\ pc[p] = "idle"
    BY <1>b, <2>1
  <2>4. CalmOf(p)'
    BY <2>2, <2>3 DEF CalmOf, Latest
  <2> QED
    BY <2>3, <2>4, UndisturbedNext
<1>5. ASSUME NEW p \in Procs, NEW c \in Commands, Destroy(p, c) \/ Complete(p, c)
      PROVE  Undisturbed'
  <2>1. /\ \E next \in {"merge", "find"} : Begin(p, c, next)
        /\ file' = file /\ pty' = pty /\ mem' = mem
    BY <1>5 DEF Destroy, Complete
  <2>2. pc'[p] \in {"merge", "find"} /\ CalmOf(p) /\ Alone(p)' /\ pc[p] = "idle"
    BY <1>b, <2>1
  <2>3. CalmOf(p)'
    BY <2>1, <2>2 DEF CalmOf, Latest
  <2> QED
    BY <2>2, <2>3, UndisturbedNext
<1>6. ASSUME NEW p \in Procs, List(p) PROVE Undisturbed'
  <2>1. Begin(p, "list", "query") /\ file' = file /\ pty' = pty /\ mem'[p] = file
    BY <1>6 DEF TypeOK, List, Read
  <2>2. pc'[p] = "query" /\ CalmOf(p) /\ Alone(p)' /\ pc[p] = "idle"
    BY <1>b, <2>1
  <2>3. CalmOf(p)'
    BY <2>1, <2>2 DEF CalmOf, Latest
  <2> QED
    BY <2>2, <2>3, UndisturbedNext
<1>7. ASSUME NEW p \in Procs,
             \/ CreateWorktreeFails(p) \/ QueryFindsRunning(p) \/ CreatePtyFails(p)
      PROVE  Undisturbed'
  <2>1. /\ calm /\ file' = file /\ pty' = pty /\ Return(p)
        /\ pc[p] \in {"worktree", "query", "spawn"}
    BY <1>7 DEF CreateWorktreeFails, QueryFindsRunning, CreatePtyFails
  <2>2. Alone(p) /\ CalmOf(p)
    BY <1>c, <2>1
  <2> QED
    BY <2>1, <2>2, ReturnedCalm DEF CalmOf, Latest
<1>8. ASSUME NEW p \in Procs, QueryFindsStopped(p) PROVE Undisturbed'
  <2>1. /\ calm /\ pc[p] = "query" /\ file' = file /\ pty' = pty
        /\ daemon = "up" => pty[Latest(mem[p])] \notin Alive
        /\ mem'[p] = [mem[p] EXCEPT !.status = "Stopped"]
        /\ pc'[p] = "patch" /\ \A q \in Procs : q # p => pc'[q] = pc[q]
    BY <1>8 DEF TypeOK, QueryFindsStopped
  <2>2. Alone(p) /\ CalmOf(p)
    BY <1>c, <2>1
  <2>3. mem'[p].agents = mem[p].agents /\ Latest(mem'[p]) = Latest(mem[p])
    BY <1>m, <2>1, StatusChange DEF Latest
  <2>4. Latest(mem[p]) \in Ids
    BY <1>m, <2>1 DEF MemoryIsNumbered, MemoryOf, Latest
  <2>5. pty[Latest(mem[p])] \notin Alive
    BY <2>1, <2>4 DEF TypeOK, NoDaemonNoPty, Alive
  <2>6. Latest(mem[p])' = Latest(mem'[p]) /\ Alone(p)'
    BY <2>1, <2>2 DEF Latest, Alone
  <2>7. CalmOf(p)'
    BY <2>1, <2>2, <2>3, <2>5, <2>6 DEF CalmOf, Latest
  <2> QED
    BY <2>6, <2>7, UndisturbedNext
<1>9. ASSUME NEW p \in Procs, PatchStatus(p) PROVE Undisturbed'
  <2>1. calm /\ pc[p] = "patch" /\ pty' = pty /\ (Goto(p, "daemon") \/ Return(p))
    BY <1>9 DEF PatchStatus
  <2>2. Alone(p) /\ CalmOf(p)
    BY <1>c, <2>1
  <2>3. file'.agents = file.agents
    BY <1>9, <1>f, StatusChange, NewSessions DEF PatchStatus
  <2>4. file.agents # <<>> => pty[Latest(file)] \notin Alive
    BY <2>1, <2>2 DEF CalmOf, Latest
  <2>5. file'.agents # <<>> => pty'[Latest(file')] \notin Alive
    BY <2>1, <2>3, <2>4 DEF Latest
  <2>6. CASE Return(p)
    <3>1. \A i \in Ids : pty'[i] # "none" => i < Len(file'.agents)
      BY <2>1, <2>2, <2>3 DEF CalmOf
    <3> QED
      BY <2>2, <2>5, <2>6, <3>1, ReturnedCalm
  <2>7. CASE Goto(p, "daemon")
    <3>1. pc'[p] = "daemon" /\ Alone(p)' /\ mem' = mem /\ left' = left
      BY <1>g, <2>2, <2>7
    <3>2. CalmOf(p)'
      BY <2>1, <2>2, <2>3, <2>5, <3>1 DEF CalmOf, Latest
    <3> QED
      BY <3>1, <3>2, UndisturbedNext
  <2> QED
    BY <2>1, <2>6, <2>7
<1>10. ASSUME NEW p \in Procs, EnsureDaemonRunning(p) PROVE Undisturbed'
  <2>1. /\ calm /\ pc[p] = "daemon" /\ file' = file /\ pty' = pty
        /\ Goto(p, "spawn") \/ Return(p)
    BY <1>10 DEF EnsureDaemonRunning
  <2>2. Alone(p) /\ CalmOf(p)
    BY <1>c, <2>1
  <2>3. CASE Return(p)
    BY <2>1, <2>2, <2>3, ReturnedCalm DEF CalmOf, Latest
  <2>4. CASE Goto(p, "spawn")
    <3>1. pc'[p] = "spawn" /\ Alone(p)' /\ mem' = mem /\ left' = left
      BY <1>g, <2>2, <2>4
    <3>2. CalmOf(p)'
      BY <2>1, <2>2, <3>1 DEF CalmOf, Latest
    <3> QED
      BY <3>1, <3>2, UndisturbedNext
  <2> QED
    BY <2>1, <2>3, <2>4
<1>11. ASSUME NEW p \in Procs, CreatePty(p) PROVE Undisturbed'
  <2>1. /\ calm /\ pc[p] = "spawn" /\ file' = file /\ Goto(p, "poll")
        /\ pty' = [pty EXCEPT ![SpawnId(p)] = Spawned(p)]
    BY <1>11 DEF CreatePty
  <2>2. Alone(p) /\ CalmOf(p)
    BY <1>c, <2>1
  <2>3. pc'[p] = "poll" /\ Alone(p)' /\ mem' = mem /\ left' = left
    BY <1>g, <2>1, <2>2
  <2>4. SpawnId(p) = Len(file.agents) /\ SpawnId(p)' = SpawnId(p)
    BY <2>1, <2>2, <2>3 DEF CalmOf, SpawnId
  <2>5. \A j \in Ids : j # SpawnId(p) => pty'[j] = pty[j]
    BY <2>1 DEF TypeOK
  <2>6. file.agents # <<>> => Latest(file) \in Ids /\ Latest(file) # SpawnId(p)
    <3>1. file.agents # <<>> => Len(file.agents) \in 1 .. Len(file.agents)
      BY <1>f
    <3>2. file.agents # <<>> => Latest(file) = Len(file.agents) - 1 /\ Latest(file) \in Ids
      BY <1>f, <3>1 DEF Latest, AgentsAreNumbered, Numbered
    <3> QED
      BY <1>f, <2>4, <3>2
  <2>7. CalmOf(p)'
    BY <2>1, <2>2, <2>3, <2>4, <2>5, <2>6 DEF CalmOf, Latest
  <2> QED
    BY <2>3, <2>7, UndisturbedNext
<1>13. ASSUME NEW p \in Procs, CreatePtyUnanswered(p) \/ Die(p) PROVE FALSE
  BY <1>13 DEF CreatePtyUnanswered, Die
<1>15. ASSUME NEW p \in Procs, DestroyEarlyExit(p) PROVE Undisturbed'
  <2>1. pc[p] = "early" /\ DestroyPty(SpawnId(p)) /\ Return(p) /\ file' = file
    BY <1>15 DEF DestroyEarlyExit
  <2>2. SpawnId(p) \in Ids
    BY <1>m, <2>1, AddedAgent DEF MemoryIsNumbered, MemoryOf, Adding, SpawnId
  <2>3. /\ calm /\ pty'[SpawnId(p)] = "none"
        /\ \A j \in Ids : pty'[j] \in {pty[j], "none"}
    BY <2>1, <2>2, Destroyed
  <2>4. Alone(p) /\ CalmOf(p)
    BY <1>c, <2>1, <2>3
  <2>5. \A i \in Ids : pty'[i] # "none" => i < Len(file'.agents)
    BY <2>1, <2>3, <2>4 DEF CalmOf
  <2>6. file.agents # <<>> => Latest(file) \in Ids
    BY <1>f DEF Latest
  <2>7. file'.status = "Stopped" /\ file'.agents # <<>> => pty'[Latest(file')] \notin Alive
    BY <2>1, <2>3, <2>4, <2>6 DEF CalmOf, Latest, Alive
  <2> QED
    BY <2>1, <2>4, <2>5, <2>7, ReturnedCalm
<1>16. ASSUME NEW p \in Procs, SaveAgent(p) PROVE Undisturbed'
  <2> DEFINE a == Append(mem[p].agents, SpawnId(p))
  <2>1. /\ calm /\ pc[p] = "save" /\ pty' = pty
        /\ file'.agents = a /\ file'.status = "Active" /\ mem'[p].agents = a
        /\ pc'[p] = "attach" /\ \A q \in Procs : q # p => pc'[q] = pc[q]
    BY <1>16 DEF TypeOK, SaveAgent
  <2>2. Alone(p) /\ CalmOf(p)
    BY <1>c, <2>1
  <2>3. Len(mem[p].agents) < MaxAgents /\ Numbered(mem[p].agents)
    BY <2>1 DEF MemoryIsNumbered, MemoryOf, Adding
  <2>4. Len(a) = Len(mem[p].agents) + 1
    BY <1>m, <2>3, AddedAgent DEF SpawnId
  <2>5. mem[p].agents = file.agents
    BY <2>1, <2>2 DEF CalmOf
  <2> HIDE DEF a
  <2>6. \A i \in Ids : pty'[i] # "none" => i < Len(file'.agents)
    <3> SUFFICES ASSUME NEW i \in Ids, pty[i] # "none" PROVE i < Len(a)
        BY <2>1
    <3>1. i < Len(file.agents) \/ i = Len(mem[p].agents)
      BY <2>2 DEF CalmOf, SpawnId
    <3> QED
      BY <1>i, <1>m, <2>4, <2>5, <3>1
  <2>7. Alone(p)'
    BY <2>1, <2>2 DEF Alone
  <2>8. CalmOf(p)'
    BY <2>1, <2>6 DEF CalmOf
  <2> QED
    BY <2>7, <2>8, UndisturbedNext
<1>17. ASSUME NEW p \in Procs, SaveAttachWindow(p) PROVE Undisturbed'
  <2>1. calm /\ pc[p] = "attach" /\ pty' = pty /\ Return(p) /\ file' \in {file, mem[p]}
    BY <1>17 DEF SaveAttachWindow
  <2>2. Alone(p) /\ CalmOf(p)
    BY <1>c, <2>1
  <2>3. mem[p].status = "Active" /\ mem[p].agents = file.agents
    BY <2>1, <2>2 DEF CalmOf, MemoryIsNumbered, MemoryOf
  <2>4. CASE file' = file
    BY <2>1, <2>2, <2>4, ReturnedCalm DEF CalmOf, Latest
  <2>5. CASE file' = mem[p]
    <3>1. \A i \in Ids : pty'[i] # "none" => i < Len(file'.agents)
      BY <2>1, <2>2, <2>3, <2>5 DEF CalmOf
    <3> QED
      BY <2>1, <2>2, <2>3, <2>5, <3>1, ReturnedCalm
  <2> QED
    BY <2>1, <2>4, <2>5
<1>h. ASSUME NEW p \in Procs, NEW i \in Ids, i < Len(file.agents)
      PROVE  \E k \in 1 .. Len(file.agents) : file.agents[k] = i
  <2>1. i + 1 \in 1 .. Len(file.agents) /\ (i + 1) - 1 = i
    BY <1>f, <1>h, <1>i
  <2>2. file.agents[i + 1] = i
    BY <2>1 DEF AgentsAreNumbered, Numbered
  <2> QED
    BY <2>1, <2>2
<1>18. ASSUME NEW p \in Procs, Stop(p) PROVE Undisturbed'
  <2>1. Begin(p, "stop", "kill") /\ file' = file /\ pty' = pty
    BY <1>18 DEF Stop
  <2>2. mem'[p] = file /\ left'[p] = file.agents
    BY <1>18 DEF TypeOK, Stop, Read
  <2>3. pc'[p] = "kill" /\ CalmOf(p) /\ Alone(p)' /\ pc[p] = "idle"
    BY <1>b, <2>1
  <2>4. \A i \in Ids : pty[i] # "none" => \E k \in 1 .. Len(file.agents) : file.agents[k] = i
    BY <1>h, <2>3 DEF CalmOf
  <2>5. CalmOf(p)'
    BY <2>1, <2>2, <2>3, <2>4 DEF CalmOf, Latest
  <2> QED
    BY <2>3, <2>5, UndisturbedNext
<1>19. ASSUME NEW p \in Procs, FindToDestroy(p) PROVE Undisturbed'
  <2>1. calm /\ pc[p] = "find" /\ file' = file /\ pty' = pty
    BY <1>19 DEF FindToDestroy
  <2>2. Alone(p) /\ CalmOf(p)
    BY <1>c, <2>1
  <2>3. CASE file = NoFile
    BY <1>19, <2>1, <2>2, <2>3, ReturnedCalm DEF FindToDestroy, CalmOf, Latest
  <2>4. CASE file # NoFile
    <3>1. /\ mem'[p] = file /\ left'[p] = file.agents /\ pc'[p] = "kill"
          /\ \A q \in Procs : q # p => pc'[q] = pc[q]
      BY <1>19, <2>4 DEF TypeOK, FindToDestroy, Read
    <3>2. \A i \in Ids : pty[i] # "none" => \E k \in 1 .. Len(file.agents) : file.agents[k] = i
      BY <1>h, <2>1, <2>2 DEF CalmOf
    <3>3. CalmOf(p)'
      BY <2>1, <2>2, <3>1, <3>2 DEF CalmOf, Latest
    <3>4. Alone(p)'
      BY <2>2, <3>1 DEF Alone
    <3> QED
      BY <3>3, <3>4, UndisturbedNext
  <2> QED
    BY <2>3, <2>4
<1>20. ASSUME NEW p \in Procs, KillAgent(p) PROVE Undisturbed'
  <2>1. /\ pc[p] = "kill" /\ left[p] # <<>> /\ DestroyPty(Head(left[p]))
        /\ file' = file /\ pc' = pc /\ mem' = mem
        /\ left'[p] = Tail(left[p])
    BY <1>20 DEF TypeOK, KillAgent
  <2>2. left[p] \in Seq(Ids) /\ Head(left[p]) \in Ids
    BY <2>1 DEF TypeOK
  <2>3. /\ calm /\ pty'[Head(left[p])] = "none"
        /\ \A j \in Ids : pty'[j] \in {pty[j], "none"}
    BY <2>1, <2>2, Destroyed
  <2>4. Alone(p) /\ CalmOf(p) /\ Alone(p)'
    BY <1>c, <2>1, <2>3 DEF Alone
  <2>5. \A i \in Ids : pty'[i] # "none" => \E k \in 1 .. Len(left'[p]) : left'[p][k] = i
    <3> SUFFICES ASSUME NEW i \in Ids, pty'[i] # "none"
                 PROVE  \E k \in 1 .. Len(left'[p]) : left'[p][k] = i
        OBVIOUS
    <3>1. pty[i] # "none" /\ i # Head(left[p])
      BY <2>3
    <3>2. PICK k \in 1 .. Len(left[p]) : left[p][k] = i
      BY <2>1, <2>4, <3>1 DEF CalmOf
    <3>3. k # 1 /\ k - 1 \in 1 .. Len(Tail(left[p])) /\ Tail(left[p])[k - 1] = i
      BY <2>1, <2>2, <3>1, <3>2
    <3> QED
      BY <2>1, <3>3
  <2>6. file.agents # <<>> => Latest(file) \in Ids
    BY <1>f DEF Latest
  <2>7. CalmOf(p)'
    BY <2>1, <2>3, <2>4, <2>5, <2>6 DEF CalmOf, Latest, Alive
  <2> QED
    BY <2>4, <2>7, UndisturbedNext
<1>21. ASSUME NEW p \in Procs, SaveStopped(p) \/ RemoveSessionFile(p) PROVE Undisturbed'
  <2>1. calm /\ pty' = pty /\ Return(p) /\ file'.agents = <<>> /\ pc[p] # "idle"
    BY <1>21, NewSessions DEF SaveStopped, RemoveSessionFile
  <2>2. Alone(p) /\ CalmOf(p)
    BY <1>c, <2>1
  <2>3. \A i \in Ids : pty[i] = "none"
    <3>1. CASE SaveStopped(p)
      <4>1. pc[p] = "kill" /\ 1 .. Len(left[p]) = {}
        BY <3>1 DEF SaveStopped
      <4> QED
        BY <2>2, <4>1 DEF CalmOf
    <3>2. CASE RemoveSessionFile(p)
      BY <2>2, <3>2 DEF RemoveSessionFile, CalmOf
    <3> QED
      BY <1>21, <3>1, <3>2
  <2> QED
    BY <2>1, <2>2, <2>3, ReturnedCalm
<1>22. ASSUME NEW p \in Procs, RemoveWorktree(p) PROVE Undisturbed'
  <2>1. /\ calm /\ pc[p] = "kill" /\ 1 .. Len(left[p]) = {} /\ file' = file /\ pty' = pty
        /\ Goto(p, "unlink")
    BY <1>22 DEF RemoveWorktree
  <2>2. Alone(p) /\ CalmOf(p)
    BY <1>c, <2>1
  <2>3. pc'[p] = "unlink" /\ Alone(p)' /\ mem' = mem /\ left' = left
    BY <1>g, <2>1, <2>2
  <2>4. CalmOf(p)'
    BY <2>1, <2>2, <2>3 DEF CalmOf, Latest
  <2> QED
    BY <2>3, <2>4, UndisturbedNext
<1>23. ASSUME NEW p \in Procs, RemoveWorktreeFails(p) PROVE Undisturbed'
  <2>1. calm /\ pc[p] = "kill" /\ file' = file /\ pty' = pty /\ Return(p)
    BY <1>23 DEF RemoveWorktreeFails
  <2>2. Alone(p) /\ CalmOf(p)
    BY <1>c, <2>1
  <2> QED
    BY <2>1, <2>2, ReturnedCalm DEF CalmOf, Latest
<1>24. ASSUME NEW p \in Procs, MergePr(p) PROVE Undisturbed'
  <2>1. calm /\ pc[p] = "merge" /\ file' = file /\ pty' = pty
    BY <1>24 DEF MergePr
  <2>2. Alone(p) /\ CalmOf(p)
    BY <1>c, <2>1
  <2>3. CASE Goto(p, "find")
    <3>1. pc'[p] = "find" /\ Alone(p)'
      BY <1>g, <2>2, <2>3
    <3>2. CalmOf(p)'
      BY <2>1, <2>2, <3>1 DEF CalmOf, Latest
    <3> QED
      BY <3>1, <3>2, UndisturbedNext
  <2>4. CASE Return(p)
    BY <2>1, <2>2, <2>4, ReturnedCalm DEF CalmOf, Latest
  <2> QED
    BY <1>24, <2>3, <2>4 DEF MergePr
<1>26. ASSUME NEW i \in Ids, AgentExits(i) PROVE Undisturbed'
  <2>1. calm /\ UNCHANGED <<file, pc, mem, left>> /\ pty' = [pty EXCEPT ![i] = "exited"]
        /\ pty[i] \in Alive
    BY <1>26 DEF AgentExits, locals
  <2>2. /\ \A j \in Ids : pty'[j] # "none" => pty[j] # "none"
        /\ \A j \in Ids : pty'[j] \in Alive => pty[j] \in Alive
    BY <2>1 DEF TypeOK, Alive
  <2> QED
    BY <1>u, <2>1, <2>2, WorldCalm
<1>27. CASE DaemonStops
  <2>1. calm /\ UNCHANGED <<file, pc, mem, left>> /\ pty' = [j \in Ids |-> "none"]
    BY <1>27 DEF DaemonStops, locals
  <2>2. /\ \A j \in Ids : pty'[j] # "none" => pty[j] # "none"
        /\ \A j \in Ids : pty'[j] \in Alive => pty[j] \in Alive
    BY <2>1 DEF Alive
  <2> QED
    BY <1>u, <2>1, <2>2, WorldCalm
<1>28. CASE Edit \/ Commit \/ UNCHANGED vars
  <2>1. calm /\ UNCHANGED <<file, pc, mem, left, pty>>
    BY <1>28 DEF Edit, Commit, vars, locals
  <2> QED
    BY <1>u, <2>1, WorldCalm
<1> QED
  BY <1>1, <1>2, <1>3, <1>4, <1>5, <1>6, <1>7, <1>8, <1>9, <1>10, <1>11, <1>13, <1>15,
     <1>16, <1>17, <1>18, <1>19, <1>20, <1>21, <1>22, <1>23, <1>24, <1>26, <1>27, <1>28 DEF Next

-----------------------------------------------------------------------------
(* Theorems. *)

LEMMA KildInvInit == Init => KildInv
<1> SUFFICES ASSUME Init PROVE KildInv
    OBVIOUS
<1>1. file.agents = <<>> /\ file.status = "none" /\ \A p \in Procs : mem[p].agents = <<>>
  BY NewSessions DEF Init
<1>2. AgentsAreNumbered /\ MemoryIsNumbered
  BY <1>1 DEF Init, AgentsAreNumbered, MemoryIsNumbered, MemoryOf, Numbered, Adding
<1>3. NoDaemonNoPty
  BY DEF Init, NoDaemonNoPty
<1>4. CalmInv
  BY <1>1 DEF Init, CalmInv, OneCommand, NoStray, ReadIsCurrent, KillsAll, DeadWhenStopped
<1> QED
  BY <1>2, <1>3, <1>4, TypeInit DEF KildInv

\* KildInv is an invariant: the state of the commands, the file and the daemon
\* is related as the comments of its conjuncts say.
THEOREM KildInvariant == Spec => []KildInv
<1>1. KildInv /\ [Next]_vars => KildInv'
  BY TypeStep, NumberStep, DaemonStep, CalmStep DEF KildInv
<1> QED
  BY KildInvInit, <1>1, PTL DEF Spec

\* Every variable has its type.
THEOREM KildTypeCorrect == Spec => []TypeOK
  BY KildInvariant, PTL DEF KildInv

\* Whatever the `kild` processes do at the same time, the agents of the session
\* file are numbered without gap or repetition.
THEOREM AgentsStayNumbered == Spec => []AgentsAreNumbered
  BY KildInvariant, PTL DEF KildInv

\* Between calm commands the next spawn id is free and no agent is out of reach
\* of stop and destroy.
THEOREM NextIdStaysFree == Spec => []NextIdIsFree
<1>1. KildInv => NextIdIsFree
  BY SessionFields, MaxAgentsAssumption
     DEF KildInv, TypeOK, CalmInv, NoStray, NextIdIsFree, AllIdle, Ids
<1> QED
  BY KildInvariant, <1>1, PTL

\* The latest agent of a session that a calm history has marked Stopped is dead.
THEOREM StoppedAgentsAreDead == Spec => []StoppedAgentIsDead
<1>1. KildInv => StoppedAgentIsDead
  BY DEF KildInv, CalmInv, DeadWhenStopped, StoppedAgentIsDead
<1> QED
  BY KildInvariant, <1>1, PTL

\* A calm destroy kills every agent before it removes the worktree.
THEOREM AgentsDieFirst == Spec => AgentsDieBeforeWorktree
<1>1. KildInv /\ [Next]_vars
        => [calm /\ worktree # "none" /\ worktree' = "none"
               => \A i \in Ids : pty[i] \notin Alive]_vars
  <2> SUFFICES ASSUME KildInv, Next, calm, worktree # "none", worktree' = "none",
                      NEW i \in Ids
               PROVE  pty[i] \notin Alive
      OBVIOUS
  <2>1. \E p \in Procs : RemoveWorktree(p)
    BY DEF Next, Create, CreateWorktree, CreateWorktreeFails, PreemptiveDestroy, Open,
           Destroy, Complete, MergePr, List, QueryFindsRunning, QueryFindsStopped, PatchStatus,
           EnsureDaemonRunning, CreatePty, CreatePtyFails, CreatePtyUnanswered,
           PollForEarlyExit, DestroyEarlyExit, SaveAgent, SaveAttachWindow, Stop,
           FindToDestroy, KillAgent, SaveStopped, RemoveWorktreeFails,
           RemoveSessionFile, Die, AgentExits, DaemonStops, Edit, Commit
  <2>2. PICK p \in Procs : pc[p] = "kill" /\ 1 .. Len(left[p]) = {}
    BY <2>1 DEF RemoveWorktree
  <2>3. pty[i] = "none"
    BY <2>2 DEF KildInv, CalmInv, KillsAll
  <2> QED
    BY <2>3 DEF Alive
<1> QED
  BY KildInvariant, <1>1, PTL DEF Spec, AgentsDieBeforeWorktree
=============================================================================
