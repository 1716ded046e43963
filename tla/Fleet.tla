-------------------------------- MODULE Fleet --------------------------------
(***************************************************************************)
(* How the kilds of a fleet are told things: the inbox files that Claude    *)
(* Code polls (~/.claude/teams/honryu/inboxes/<agent>.json), the team's     *)
(* config.json with its members, the task directory of each kild            *)
(* (~/.kild/inbox/...), and the daemon's hook endpoint with its idle gate.  *)
(*                                                                         *)
(* write_to_inbox holds an exclusive flock while it reads and rewrites an   *)
(* inbox.  ensure_fleet_member, which every create and open runs, and       *)
(* remove_fleet_member, which destroy runs, touch the same files and the    *)
(* configuration without any lock, so each access is a step.  All agents    *)
(* are Claude's and run in the daemon; a kild stands for its branch.  The   *)
(* text of a task, status sidecars and what Claude Code does with an inbox  *)
(* are left out.                                                            *)
(***************************************************************************)
EXTENDS Naturals, FiniteSets

CONSTANTS Procs,         \* kild processes, and tasks of the daemon
          Workers,       \* branches
          Brain,         \* the branch "honryu"
          NoFile,        \* nothing there
          Torn,          \* truncated, or written by two at once
          MaxCommands    \* bound: commands and hooks that ever begin, agents and
                         \* daemons that end

Agents == Workers \cup {Brain}

\* What the n-th command sends, if anything, is message n.
Messages == 1 .. MaxCommands

ASSUME FleetAssumption ==
    /\ Brain \notin Workers /\ MaxCommands \in Nat
    /\ NoFile # Torn /\ NoFile \notin Nat
    /\ \A s \in (SUBSET Messages) \cup (SUBSET Agents) : s \notin {NoFile, Torn}

VARIABLES team,      \* the directory ~/.claude/teams/honryu is there
          inbox,     \* the messages in an agent's inbox file
          config,    \* the members in config.json
          task_dir,  \* the kilds that have a task directory
          status,    \* "none", "stopped" or "active": what list says of a kild
          armed,     \* IdleGate: the branches whose idle event was let through
          pc, op,    \* what each process does next, and for what
          agent,     \* the kild it is about
          msg,       \* the message it delivers, 0 for none
          mem,       \* the messages or members it will write
          begun,     \* how many commands and hooks have begun
          sent,      \* history: messages whose writer reported success, since
                     \* the inbox was last removed
          joined,    \* history: kilds that were made members and not removed
          disturbed, \* history: the agents whose inbox was set up or removed
                     \* during another access, or whose writer died
          mixed      \* history: two processes changed the configuration at a
                     \* time, or one died while it wrote

files == <<team, inbox, config, task_dir>>
procs == <<pc, op, agent, msg, mem>>
history == <<sent, joined, disturbed, mixed>>
vars == <<files, status, armed, procs, begun, history>>

Init ==
    /\ team = FALSE
    /\ inbox = [a \in Agents |-> NoFile]
    /\ config = NoFile
    /\ task_dir = {}
    /\ status = [a \in Agents |-> "none"]
    /\ armed = {}
    /\ pc = [p \in Procs |-> "idle"]
    /\ op = [p \in Procs |-> "send"]
    /\ agent = [p \in Procs |-> Brain]
    /\ msg = [p \in Procs |-> 0]
    /\ mem = [p \in Procs |-> {}]
    /\ begun = 0
    /\ sent = [a \in Agents |-> {}] /\ joined = {}
    /\ disturbed = {} /\ mixed = FALSE

-----------------------------------------------------------------------------
Busy(p) == pc[p] # "idle"

\* fleet_mode_active
fleet_mode_active(a) == a = Brain \/ team

Goto(p, next) == pc' = [pc EXCEPT ![p] = next] /\ UNCHANGED <<op, agent, msg, mem>>

\* The command ends, with success or with an error.
Return(p) ==
    /\ pc' = [pc EXCEPT ![p] = "idle"]
    /\ op' = [op EXCEPT ![p] = "send"]
    /\ agent' = [agent EXCEPT ![p] = Brain]
    /\ msg' = [msg EXCEPT ![p] = 0]
    /\ mem' = [mem EXCEPT ![p] = {}]

\* How a command can meet another: both about one inbox, one of them without
\* the lock; both about the configuration.
Sets == {"join", "leave"}
Meets(p, o, a) ==
    \E q \in Procs \ {p} : Busy(q) /\ agent[q] = a /\ Sets \cap {o, op[q]} # {}
MeetsInConfig(p, o) ==
    o \in Sets /\ \E q \in Procs \ {p} : Busy(q) /\ op[q] \in Sets

Begin(p, o, a, next, m) ==
    /\ ~Busy(p) /\ begun < MaxCommands
    /\ begun' = begun + 1
    /\ pc' = [pc EXCEPT ![p] = next]
    /\ op' = [op EXCEPT ![p] = o]
    /\ agent' = [agent EXCEPT ![p] = a]
    /\ msg' = [msg EXCEPT ![p] = m]
    /\ disturbed' = IF Meets(p, o, a) THEN disturbed \cup {a} ELSE disturbed
    /\ mixed' = (mixed \/ MeetsInConfig(p, o))
    /\ UNCHANGED <<files, mem, sent, joined>>

\* kild create or open, perhaps with an initial prompt.  open refuses a running
\* kild.
Join(p, a) ==
    /\ status[a] # "active"
    /\ \E m \in {0, begun + 1} : Begin(p, "join", a, "ensure", m)
    /\ UNCHANGED <<status, armed>>

\* kild inject refuses a kild that does not run.
Inject(p, a) ==
    /\ status[a] = "active"
    /\ Begin(p, "send", a, "task", begun + 1)
    /\ UNCHANGED <<status, armed>>

\* kild destroy has killed the agents.
Leave(p, a) ==
    /\ status[a] # "none"
    /\ Begin(p, "leave", a, "remove_task", 0)
    /\ status' = [status EXCEPT ![a] = "stopped"]
    /\ UNCHANGED armed

\* The Stop hook of a worker, at the daemon's endpoint.  The gate lets the first
\* one through and is then armed; nothing disarms it.
StopHook(p, a) ==
    /\ a # Brain /\ status[a] = "active"
    /\ a \notin armed
    /\ armed' = armed \cup {a}
    /\ Begin(p, "event", a, "forward", begun + 1)
    /\ UNCHANGED status

\* Its SubagentStop hook, which a verbose daemon forwards past the gate.
SubagentStopHook(p, a) ==
    /\ a # Brain /\ status[a] = "active"
    /\ Begin(p, "event", a, "forward", begun + 1)
    /\ UNCHANGED <<status, armed>>

-----------------------------------------------------------------------------
(* ensure_fleet_member, ensure_inbox and the spawn. *)

\* The directories are made.
Ensure(p) ==
    /\ pc[p] = "ensure"
    /\ IF fleet_mode_active(agent[p])
       THEN team' = TRUE /\ Goto(p, "look")
       ELSE Goto(p, "task_dir") /\ UNCHANGED team
    /\ UNCHANGED <<inbox, config, task_dir, status, armed, begun, history>>

\* try_exists: an inbox that is there is left alone.
Look(p) ==
    /\ pc[p] = "look"
    /\ Goto(p, IF inbox[agent[p]] = NoFile THEN "empty" ELSE "config")
    /\ UNCHANGED <<files, status, armed, begun, history>>

\* fs::write(&inbox, "[]"): open and truncate, then write.
Empty(p) ==
    /\ pc[p] = "empty"
    /\ inbox' = [inbox EXCEPT ![agent[p]] = Torn]
    /\ Goto(p, "write_empty")
    /\ UNCHANGED <<team, config, task_dir, status, armed, begun, history>>

\* What a file holds when p writes x into it: somebody else's writing, done or to
\* come, may mix with it.
Overlay(file, x, others) == IF file = Torn /\ others = {} THEN {x} ELSE {x, Torn}

Writing == {"write", "write_empty"}
WritersOf(p) == {q \in Procs \ {p} : agent[q] = agent[p] /\ pc[q] \in Writing}
ConfigWriters(p) == {q \in Procs \ {p} : pc[q] = "write_config"}

WriteEmpty(p) ==
    /\ pc[p] = "write_empty"
    /\ \E x \in Overlay(inbox[agent[p]], {}, WritersOf(p)) : inbox' = [inbox EXCEPT ![agent[p]] = x]
    /\ Goto(p, "config")
    /\ UNCHANGED <<team, config, task_dir, status, armed, begun, history>>

\* Mutant: what was listed is forgotten.
UpdateConfigAnew(p) ==
    /\ pc[p] = "config" /\ op[p] = "join"
    /\ pc' = [pc EXCEPT ![p] = "truncate_config"]
    /\ mem' = [mem EXCEPT ![p] = {agent[p]}]
    /\ joined' = joined \cup {agent[p]}
    /\ UNCHANGED <<op, agent, msg, files, status, armed, begun, sent, disturbed, mixed>>

\* update_team_config reads the members.  It leaves alone what it cannot read.
UpdateConfig(p) ==
    /\ pc[p] = "config" /\ op[p] = "join"
    /\ LET a == agent[p]
           members == IF config = NoFile THEN {} ELSE config
       IN  IF config = Torn \/ (config # NoFile /\ a \in members)
           THEN Goto(p, "task_dir")
           ELSE /\ pc' = [pc EXCEPT ![p] = "truncate_config"]
                /\ mem' = [mem EXCEPT ![p] = members \cup {a}]
                /\ UNCHANGED <<op, agent, msg>>
    /\ joined' = joined \cup {agent[p]}
    /\ UNCHANGED <<files, status, armed, begun, sent, disturbed, mixed>>

TruncateConfig(p) ==
    /\ pc[p] = "truncate_config"
    /\ config' = Torn
    /\ Goto(p, "write_config")
    /\ UNCHANGED <<team, inbox, task_dir, status, armed, begun, history>>

WriteConfig(p) ==
    /\ pc[p] = "write_config"
    /\ \E x \in Overlay(config, mem[p], ConfigWriters(p)) : config' = x
    /\ Goto(p, IF op[p] = "join" THEN "task_dir" ELSE "left")
    /\ UNCHANGED <<team, inbox, task_dir, status, armed, begun, history>>

\* ensure_inbox
EnsureTaskDir(p) ==
    /\ pc[p] = "task_dir"
    /\ task_dir' = IF fleet_mode_active(agent[p]) THEN task_dir \cup {agent[p]} ELSE task_dir
    /\ Goto(p, "spawn")
    /\ UNCHANGED <<team, inbox, config, status, armed, begun, history>>

\* The agent is started and the session saved as Active.
Spawn(p) ==
    /\ pc[p] = "spawn"
    /\ status' = [status EXCEPT ![agent[p]] = "active"]
    /\ IF msg[p] = 0 THEN Return(p) ELSE Goto(p, "task")
    /\ UNCHANGED <<files, armed, begun, history>>

SpawnFails(p) ==
    /\ pc[p] = "spawn"
    /\ Return(p)
    /\ UNCHANGED <<files, status, armed, begun, history>>

-----------------------------------------------------------------------------
(* write_task, forward_to_brain and write_to_inbox. *)

\* The task is put into the directory, if there is one.
\* deliver_initial_prompt_for_session types a prompt into the terminal when there
\* is no task directory; inject goes on to the inbox.
WriteTask(p) ==
    /\ pc[p] = "task"
    /\ IF op[p] = "join" /\ agent[p] \notin task_dir THEN Return(p) ELSE Goto(p, "lock")
    /\ UNCHANGED <<files, status, armed, begun, history>>

\* Without a running brain the event is dropped.
Forward(p) ==
    /\ pc[p] = "forward"
    /\ IF status[Brain] = "active" THEN Goto(p, "lock") ELSE Return(p)
    /\ UNCHANGED <<files, status, armed, begun, history>>

Locked == {"truncate", "write", "write_unlinked"}

\* Mutant: no lock.
LockIsShared(p) == pc[p] = "lock"

\* flock on <agent>.lock, which nobody removes.
LockIsFree(p) == \A q \in Procs \ {p} : ~(agent[q] = agent[p] /\ pc[q] \in Locked)

\* The directories are made, the inbox is locked and read.  A corrupt one is an
\* error.  An event goes to the inbox of the worker it comes from.
ReadInbox(p) ==
    /\ pc[p] = "lock" /\ LockIsFree(p)
    /\ team' = TRUE
    /\ LET file == inbox[agent[p]]
       IN  IF file = Torn THEN Return(p)
           ELSE /\ pc' = [pc EXCEPT ![p] = "truncate"]
                /\ mem' = [mem EXCEPT ![p] = (IF file = NoFile THEN {} ELSE file) \cup {msg[p]}]
                /\ UNCHANGED <<op, agent, msg>>
    /\ UNCHANGED <<inbox, config, task_dir, status, armed, begun, history>>

TruncateInbox(p) ==
    /\ pc[p] = "truncate"
    /\ inbox' = [inbox EXCEPT ![agent[p]] = Torn]
    /\ Goto(p, "write")
    /\ UNCHANGED <<team, config, task_dir, status, armed, begun, history>>

\* A file that was removed meanwhile is written in vain.
WriteInbox(p) ==
    /\ pc[p] \in {"write", "write_unlinked"}
    /\ LET a == agent[p]
       IN  /\ IF pc[p] = "write_unlinked" THEN UNCHANGED inbox
              ELSE \E x \in Overlay(inbox[a], mem[p], WritersOf(p)) :
                      inbox' = [inbox EXCEPT ![a] = x]
           /\ sent' = [sent EXCEPT ![a] = @ \cup {msg[p]}]
    /\ Return(p)
    /\ UNCHANGED <<team, config, task_dir, status, armed, begun, joined, disturbed, mixed>>

-----------------------------------------------------------------------------
(* destroy, stop, crashes. *)

\* cleanup_inbox
RemoveTask(p) ==
    /\ pc[p] = "remove_task"
    /\ task_dir' = task_dir \ {agent[p]}
    /\ Goto(p, "remove_inbox")
    /\ UNCHANGED <<team, inbox, config, status, armed, begun, history>>

\* remove_fleet_member unlinks the inbox under whoever writes it.
RemoveInbox(p) ==
    /\ pc[p] = "remove_inbox"
    /\ LET a == agent[p]
       IN  /\ inbox' = [inbox EXCEPT ![a] = NoFile]
           /\ sent' = [sent EXCEPT ![a] = {}]
           /\ pc' = [q \in Procs |->
                       CASE q = p -> "config"
                         [] agent[q] = a /\ pc[q] = "write" -> "write_unlinked"
                         [] agent[q] = a /\ pc[q] = "write_empty" -> "config"
                         [] OTHER -> pc[q]]
    /\ UNCHANGED <<team, config, task_dir, status, armed, op, agent, msg, mem, begun,
                   joined, disturbed, mixed>>

RemoveFromConfig(p) ==
    /\ pc[p] = "config" /\ op[p] = "leave"
    /\ IF config \in {NoFile, Torn} \/ (config \notin {NoFile, Torn} /\ agent[p] \notin config)
       THEN Goto(p, "left")
       ELSE /\ pc' = [pc EXCEPT ![p] = "truncate_config"]
            /\ mem' = [mem EXCEPT ![p] = config \ {agent[p]}]
            /\ UNCHANGED <<op, agent, msg>>
    /\ joined' = joined \ {agent[p]}
    /\ UNCHANGED <<files, status, armed, begun, sent, disturbed, mixed>>

\* The rest of destroy, which may fail.
Left(p) ==
    /\ pc[p] = "left"
    /\ status' \in {status, [status EXCEPT ![agent[p]] = "none"]}
    /\ Return(p)
    /\ UNCHANGED <<files, armed, begun, history>>

\* kild stop, or the agent ends.
Stop(a) ==
    /\ status[a] = "active" /\ begun < MaxCommands
    /\ status' = [status EXCEPT ![a] = "stopped"]
    /\ begun' = begun + 1
    /\ UNCHANGED <<files, armed, procs, history>>

\* A process is killed.
Die(p) ==
    /\ Busy(p)
    /\ Return(p)
    /\ disturbed' = IF pc[p] \in Writing THEN disturbed \cup {agent[p]} ELSE disturbed
    /\ mixed' = (mixed \/ pc[p] \in {"truncate_config", "write_config"})
    /\ UNCHANGED <<files, status, armed, begun, sent, joined>>

\* The daemon ends while none of its tasks forwards anything (else the task dies
\* first), and its agents with it; the next one has an empty gate.
DaemonRestarts ==
    /\ begun < MaxCommands /\ \A p \in Procs : Busy(p) => op[p] # "event"
    /\ begun' = begun + 1
    /\ armed' = {}
    /\ status' = [a \in Agents |-> IF status[a] = "active" THEN "stopped" ELSE status[a]]
    /\ UNCHANGED <<files, procs, history>>

\* The bound is reached.
Rest == begun = MaxCommands /\ (\A p \in Procs : ~Busy(p)) /\ UNCHANGED vars

ProcStep(p) ==
    \/ Ensure(p) \/ Look(p) \/ Empty(p) \/ WriteEmpty(p)
    \/ UpdateConfig(p) \/ TruncateConfig(p) \/ WriteConfig(p)
    \/ EnsureTaskDir(p) \/ Spawn(p) \/ SpawnFails(p)
    \/ WriteTask(p) \/ Forward(p)
    \/ ReadInbox(p) \/ TruncateInbox(p) \/ WriteInbox(p)
    \/ RemoveTask(p) \/ RemoveInbox(p) \/ RemoveFromConfig(p) \/ Left(p)
    \/ Die(p)

Next ==
    \/ \E p \in Procs :
          \/ ProcStep(p)
          \/ \E a \in Agents : Join(p, a) \/ Inject(p, a) \/ Leave(p, a)
                               \/ StopHook(p, a) \/ SubagentStopHook(p, a)
    \/ \E a \in Agents : Stop(a)
    \/ DaemonRestarts
    \/ Rest

Spec == Init /\ [][Next]_vars

-----------------------------------------------------------------------------
(* Properties. *)

\* Every variable has its type.
TypeOK ==
    /\ team \in BOOLEAN
    /\ inbox \in [Agents -> {NoFile, Torn} \cup SUBSET Messages]
    /\ config \in {NoFile, Torn} \cup SUBSET Agents
    /\ task_dir \subseteq Agents
    /\ status \in [Agents -> {"none", "stopped", "active"}]
    /\ armed \subseteq Workers
    /\ pc \in [Procs -> {"idle", "ensure", "look", "empty", "config", "truncate_config",
                         "write_config", "task_dir", "spawn", "task", "forward",
                         "lock", "remove_task", "remove_inbox", "left"} \cup Writing \cup Locked]
    /\ op \in [Procs -> {"join", "leave", "send", "event"}]
    /\ agent \in [Procs -> Agents]
    /\ msg \in [Procs -> 0 .. MaxCommands]
    /\ mem \in [Procs -> (SUBSET Messages) \cup (SUBSET Agents)]
    /\ begun \in 0 .. MaxCommands
    /\ sent \in [Agents -> SUBSET Messages]
    /\ joined \subseteq Agents /\ disturbed \subseteq Agents
    /\ mixed \in BOOLEAN

\* However many injects, initial prompts and forwarded events write to it at
\* once, an inbox that no create, open or destroy touches meanwhile can be read
\* whenever the lock is free, and holds every message whose sender was told it
\* was sent.
InboxKeepsAll ==
    \A a \in Agents \ disturbed :
        \/ \E p \in Procs : agent[p] = a /\ pc[p] \in Writing /\ sent[a] \subseteq mem[p]
        \/ inbox[a] = NoFile /\ sent[a] = {}
        \/ inbox[a] \notin {NoFile, Torn} /\ sent[a] \subseteq inbox[a]

\* The configuration has no lock at all: as long as creates, opens and destroys
\* of the fleet's kilds (of whatever branches) keep apart, it lists the kilds
\* that have joined and not left, and can be read whenever nobody writes it;
\* a torn one would shut out every later member.
TeamIsListed ==
    ~mixed => \/ \E p \in Procs : pc[p] \in {"truncate_config", "write_config"} /\ mem[p] = joined
              \/ config = NoFile /\ joined = {}
              \/ config \notin {NoFile, Torn} /\ config = joined

=============================================================================
