----------------------------- MODULE Fleet_proofs -----------------------------
(***************************************************************************)
(* Proofs about Fleet, for any number of processes, branches and commands. *)
(*                                                                         *)
(* An inbox that is set up or removed by nobody else meanwhile (not        *)
(* disturbed) has one writer at a time, by the flock, and what that one    *)
(* writes contains all that was sent.  config.json has one writer as long  *)
(* as the commands that change it keep apart (not mixed).                  *)
(***************************************************************************)
EXTENDS Fleet, TLAPS

-----------------------------------------------------------------------------
(* The invariant. *)

\* What each step of a command relies on.
Stage ==
    \A p \in Procs :
        /\ pc[p] \in {"ensure", "look", "empty", "write_empty", "task_dir", "spawn"} => op[p] = "join"
        /\ pc[p] \in {"remove_task", "remove_inbox", "left"} => op[p] = "leave"
        /\ pc[p] \in {"config", "truncate_config", "write_config"} => op[p] \in Sets
        /\ pc[p] \in {"task", "forward", "lock"} \cup Locked => msg[p] \in Messages
        /\ pc[p] \in {"truncate_config", "write_config"} => mem[p] \subseteq Agents
        /\ pc[p] \in Locked => mem[p] \subseteq Messages /\ msg[p] \in mem[p]

\* The flock of an inbox has one holder.
OneHolder == \A p, q \in Procs :
                 pc[p] \in Locked /\ pc[q] \in Locked /\ agent[p] = agent[q] => p = q

\* Who sets up or removes the inbox of a is alone with it.
Alone(a) == \A p, q \in Procs :
                /\ Busy(p) /\ Busy(q) /\ agent[p] = a /\ agent[q] = a /\ op[p] \in Sets
                => p = q

\* The inbox of a and what its users have in hand.
Kept(a) ==
    /\ \A p \in Procs : agent[p] = a =>
          /\ pc[p] \in Writing => inbox[a] = Torn
          /\ pc[p] = "empty" => inbox[a] = NoFile
          /\ pc[p] = "write_empty" => sent[a] = {}
          /\ pc[p] \in {"truncate", "write"} => sent[a] \subseteq mem[p]
          /\ pc[p] # "write_unlinked"
    /\ (\A p \in Procs : ~(agent[p] = a /\ pc[p] \in Writing)) =>
          \/ inbox[a] = NoFile /\ sent[a] = {}
          \/ inbox[a] \in SUBSET Messages /\ sent[a] \subseteq inbox[a]

OneChanges == \A p, q \in Procs :
                  Busy(p) /\ Busy(q) /\ op[p] \in Sets /\ op[q] \in Sets => p = q

\* The configuration and what its writer has in hand.
Listed ==
    /\ \A p \in Procs : pc[p] \in {"truncate_config", "write_config"} => mem[p] = joined
    /\ \A p \in Procs : pc[p] = "write_config" => config = Torn
    /\ (\A p \in Procs : pc[p] \notin {"truncate_config", "write_config"}) =>
          \/ config = NoFile /\ joined = {}
          \/ config \in SUBSET Agents /\ config = joined

FleetInv == /\ TypeOK /\ Stage /\ OneHolder
            /\ \A a \in Agents \ disturbed : Alone(a) /\ Kept(a)
            /\ ~mixed => OneChanges /\ Listed

-----------------------------------------------------------------------------
(* Types and stages. *)

\* The locals of the other processes stay as they are.
Others(p) == \A q \in Procs \ {p} : /\ pc'[q] = pc[q] /\ op'[q] = op[q] /\ agent'[q] = agent[q]
                                    /\ msg'[q] = msg[q] /\ mem'[q] = mem[q]

LocalsTyped ==
    /\ pc \in [Procs -> {"idle", "ensure", "look", "empty", "config", "truncate_config",
                         "write_config", "task_dir", "spawn", "task", "forward",
                         "lock", "remove_task", "remove_inbox", "left"} \cup Writing \cup Locked]
    /\ op \in [Procs -> {"join", "leave", "send", "event"}]
    /\ agent \in [Procs -> Agents]
    /\ msg \in [Procs -> 0 .. MaxCommands]
    /\ mem \in [Procs -> (SUBSET Messages) \cup (SUBSET Agents)]

LEMMA ReturnTyped ==
    ASSUME TypeOK, Stage, NEW p \in Procs, Return(p)
    PROVE  LocalsTyped' /\ Stage' /\ Others(p) /\ pc'[p] = "idle"
<1>1. Others(p) /\ pc'[p] = "idle"
  BY DEF Return, Others, TypeOK
<1>2. Brain \in Agents /\ 0 \in 0 .. MaxCommands /\ {} \in SUBSET Messages
  BY FleetAssumption DEF Agents
<1>3. LocalsTyped'
  BY <1>2 DEF Return, LocalsTyped, TypeOK
<1>4. Stage'
  BY <1>1 DEF Stage, Others, Locked, Sets
<1> QED BY <1>1, <1>3, <1>4

LEMMA GotoTyped ==
    ASSUME TypeOK, Stage, NEW p \in Procs,
           NEW next \in {"look", "empty", "config", "write_config", "task_dir", "spawn", "task",
                         "lock", "write_empty", "write", "remove_inbox", "left"},
           Goto(p, next),
           next \in {"look", "empty", "write_empty", "task_dir", "spawn"} => op[p] = "join",
           next \in {"remove_inbox", "left"} => op[p] = "leave",
           next \in {"config", "write_config"} => op[p] \in Sets,
           next = "write_config" => mem[p] \subseteq Agents,
           next \in {"task", "lock", "write"} => msg[p] \in Messages,
           next = "write" => mem[p] \subseteq Messages /\ msg[p] \in mem[p]
    PROVE  LocalsTyped' /\ Stage' /\ Others(p) /\ pc'[p] = next
<1>1. Others(p) /\ pc'[p] = next /\ UNCHANGED <<op, agent, msg, mem>>
  BY DEF Goto, Others, TypeOK
<1>2. LocalsTyped'
  BY <1>1 DEF Goto, LocalsTyped, TypeOK, Writing
<1>3. Stage'
  BY <1>1 DEF Stage, Others, Locked
<1> QED BY <1>1, <1>2, <1>3

\* The commands that begin.
Begins(p) == \E a \in Agents : Join(p, a) \/ Inject(p, a) \/ Leave(p, a)
                               \/ StopHook(p, a) \/ SubagentStopHook(p, a)

LEMMA BeginTyped ==
    ASSUME TypeOK, Stage, NEW p \in Procs, NEW a \in Agents,
           NEW o \in {"join", "leave", "send", "event"},
           NEW next \in {"ensure", "task", "remove_task", "forward"}, NEW m \in {0, begun + 1},
           Begin(p, o, a, next, m),
           next = "ensure" => o = "join", next = "remove_task" => o = "leave",
           next \in {"task", "forward"} => m # 0
    PROVE  /\ LocalsTyped' /\ Stage' /\ Others(p) /\ UNCHANGED <<files, sent, joined>>
           /\ pc'[p] = next /\ op'[p] = o /\ agent'[p] = a /\ ~Busy(p)
           /\ begun' \in 0 .. MaxCommands /\ disturbed' \in SUBSET Agents /\ mixed' \in BOOLEAN
           /\ disturbed \subseteq disturbed'
           /\ Meets(p, o, a) => a \in disturbed'
           /\ MeetsInConfig(p, o) => mixed'
           /\ mixed => mixed'
<1>1. Others(p) /\ pc'[p] = next /\ op'[p] = o /\ agent'[p] = a /\ msg'[p] = m /\ mem' = mem
      /\ UNCHANGED <<files, sent, joined>> /\ ~Busy(p)
  BY DEF Begin, Others, TypeOK
<1>2. m \in 0 .. MaxCommands /\ (m # 0 => m \in Messages) /\ begun' \in 0 .. MaxCommands
  BY FleetAssumption DEF Begin, TypeOK, Messages
<1>3. LocalsTyped'
  BY <1>1, <1>2 DEF Begin, LocalsTyped, TypeOK
<1>4. Stage'
  BY <1>1, <1>2 DEF Stage, Others, Locked
<1>5. /\ disturbed' \in SUBSET Agents /\ disturbed \subseteq disturbed'
      /\ Meets(p, o, a) => a \in disturbed'
  BY DEF Begin, TypeOK
<1>6. mixed' \in BOOLEAN /\ (MeetsInConfig(p, o) => mixed') /\ (mixed => mixed')
  BY DEF Begin
<1> QED BY <1>1, <1>2, <1>3, <1>4, <1>5, <1>6

\* What a command that begins does to the rest of the state.
LEMMA BeginsShape ==
    ASSUME TypeOK, Stage, NEW p \in Procs, Begins(p)
    PROVE  /\ TypeOK' /\ Stage' /\ Others(p) /\ UNCHANGED <<files, sent, joined>>
           /\ pc'[p] \in {"ensure", "task", "remove_task", "forward"} /\ ~Busy(p)
           /\ disturbed \subseteq disturbed'
           /\ Meets(p, op'[p], agent'[p]) => agent'[p] \in disturbed'
           /\ MeetsInConfig(p, op'[p]) => mixed'
           /\ mixed => mixed'
<1>1. PICK a \in Agents : Join(p, a) \/ Inject(p, a) \/ Leave(p, a)
                          \/ StopHook(p, a) \/ SubagentStopHook(p, a)
  BY DEF Begins
<1>2. PICK o \in {"join", "leave", "send", "event"},
           next \in {"ensure", "task", "remove_task", "forward"}, m \in {0, begun + 1} :
         /\ Begin(p, o, a, next, m)
         /\ next = "ensure" => o = "join"
         /\ next = "remove_task" => o = "leave"
         /\ next \in {"task", "forward"} => m # 0
  <2>1. 0 # begun + 1
    BY FleetAssumption DEF TypeOK
  <2>2. CASE Join(p, a)
    BY <2>2 DEF Join
  <2>3. CASE Inject(p, a)
    BY <2>1, <2>3 DEF Inject
  <2>4. CASE Leave(p, a)
    BY <2>4 DEF Leave
  <2>5. CASE StopHook(p, a) \/ SubagentStopHook(p, a)
    BY <2>1, <2>5 DEF StopHook, SubagentStopHook
  <2> QED BY <1>1, <2>2, <2>3, <2>4, <2>5
<1>3. status' \in [Agents -> {"none", "stopped", "active"}] /\ armed' \subseteq Workers
  BY <1>1 DEF Join, Inject, Leave, StopHook, SubagentStopHook, TypeOK, Agents
<1>4. /\ LocalsTyped' /\ Stage' /\ Others(p) /\ UNCHANGED <<files, sent, joined>>
      /\ pc'[p] = next /\ op'[p] = o /\ agent'[p] = a /\ ~Busy(p)
      /\ begun' \in 0 .. MaxCommands /\ disturbed' \in SUBSET Agents /\ mixed' \in BOOLEAN
      /\ disturbed \subseteq disturbed'
      /\ Meets(p, o, a) => a \in disturbed'
      /\ MeetsInConfig(p, o) => mixed'
      /\ mixed => mixed'
  BY <1>2, BeginTyped
<1>5. TypeOK'
  BY <1>3, <1>4 DEF TypeOK, LocalsTyped, files
<1> QED BY <1>4, <1>5

\* What p may have written.
LEMMA OverlayIs ==
    ASSUME NEW file, NEW x, NEW others, NEW y \in Overlay(file, x, others)
    PROVE  y \in {x, Torn} /\ (file = Torn /\ others = {} => y = x)
  BY DEF Overlay

\* The steps of a command, but for the one that touches others.
LEMMA ProcShape ==
    ASSUME TypeOK, Stage, NEW p \in Procs, ProcStep(p), ~RemoveInbox(p)
    PROVE  TypeOK' /\ Stage' /\ Others(p)
<1> USE DEF files, history
<1>1. CASE Ensure(p)
  <2>1. op[p] = "join"
    BY <1>1 DEF Ensure, Stage
  <2>2. LocalsTyped' /\ Stage' /\ Others(p)
    BY <1>1, <2>1, GotoTyped DEF Ensure
  <2> QED BY <1>1, <2>2 DEF Ensure, TypeOK, LocalsTyped
<1>2. CASE Look(p) \/ EnsureTaskDir(p)
  <2>1. op[p] = "join"
    BY <1>2 DEF Look, EnsureTaskDir, Stage
  <2>2. \E next \in {"empty", "config", "spawn"} : Goto(p, next)
    BY <1>2 DEF Look, EnsureTaskDir
  <2>3. LocalsTyped' /\ Stage' /\ Others(p)
    BY <2>1, <2>2, GotoTyped DEF Sets
  <2> QED BY <1>2, <2>3 DEF Look, EnsureTaskDir, TypeOK, LocalsTyped
<1>3. CASE Empty(p) \/ WriteEmpty(p)
  <2>1. op[p] = "join"
    BY <1>3 DEF Empty, WriteEmpty, Stage
  <2>2. \E next \in {"write_empty", "config"} : Goto(p, next)
    BY <1>3 DEF Empty, WriteEmpty
  <2>3. LocalsTyped' /\ Stage' /\ Others(p)
    BY <2>1, <2>2, GotoTyped DEF Sets
  <2>4. inbox' \in [Agents -> {NoFile, Torn} \cup SUBSET Messages]
    BY <1>3, OverlayIs DEF Empty, WriteEmpty, TypeOK
  <2> QED BY <1>3, <2>3, <2>4 DEF Empty, WriteEmpty, TypeOK, LocalsTyped
<1>4. CASE UpdateConfig(p)
  <2>1. joined' \subseteq Agents
    BY <1>4 DEF UpdateConfig, TypeOK
  <2>2. CASE Goto(p, "task_dir")
    <3>1. LocalsTyped' /\ Stage' /\ Others(p)
      BY <1>4, <2>2, GotoTyped DEF UpdateConfig
    <3> QED BY <1>4, <2>1, <3>1 DEF UpdateConfig, TypeOK, LocalsTyped
  <2>3. CASE ~Goto(p, "task_dir")
    <3> DEFINE members == (IF config = NoFile THEN {} ELSE config) \cup {agent[p]}
    <3>1. members \subseteq Agents
      BY <1>4, <2>3 DEF UpdateConfig, TypeOK
    <3>2. pc' = [pc EXCEPT ![p] = "truncate_config"] /\ mem' = [mem EXCEPT ![p] = members]
          /\ UNCHANGED <<op, agent, msg>> /\ op[p] = "join"
      BY <1>4, <2>3 DEF UpdateConfig
    <3> HIDE DEF members
    <3>3. LocalsTyped' /\ Others(p)
      <4>4. members \in (SUBSET Messages) \cup (SUBSET Agents)
        BY <3>1
      <4>5. mem \in [Procs -> (SUBSET Messages) \cup (SUBSET Agents)]
        BY DEF TypeOK
      <4>1. mem' \in [Procs -> (SUBSET Messages) \cup (SUBSET Agents)]
        BY <3>2, <4>4, <4>5
      <4>2. LocalsTyped'
        BY <3>2, <4>1 DEF LocalsTyped, TypeOK
      <4>3. Others(p)
        BY <3>2 DEF TypeOK, Others
      <4> QED BY <4>2, <4>3
    <3>4. Stage'
      BY <3>1, <3>2 DEF Stage, TypeOK, Locked, Sets
    <3> QED BY <1>4, <2>1, <3>3, <3>4 DEF UpdateConfig, TypeOK, LocalsTyped
  <2> QED BY <2>2, <2>3
<1>5. CASE RemoveFromConfig(p)
  <2>1. joined' \subseteq Agents
    BY <1>5 DEF RemoveFromConfig, TypeOK
  <2>2. CASE Goto(p, "left")
    <3>1. LocalsTyped' /\ Stage' /\ Others(p)
      BY <1>5, <2>2, GotoTyped DEF RemoveFromConfig
    <3> QED BY <1>5, <2>1, <3>1 DEF RemoveFromConfig, TypeOK, LocalsTyped
  <2>3. CASE ~Goto(p, "left")
    <3> DEFINE members == config \ {agent[p]}
    <3>1. members \subseteq Agents
      BY <1>5, <2>3 DEF RemoveFromConfig, TypeOK
    <3>2. pc' = [pc EXCEPT ![p] = "truncate_config"] /\ mem' = [mem EXCEPT ![p] = members]
          /\ UNCHANGED <<op, agent, msg>> /\ op[p] = "leave"
      BY <1>5, <2>3 DEF RemoveFromConfig
    <3> HIDE DEF members
    <3>3. LocalsTyped' /\ Others(p)
      <4>4. members \in (SUBSET Messages) \cup (SUBSET Agents)
        BY <3>1
      <4>5. mem \in [Procs -> (SUBSET Messages) \cup (SUBSET Agents)]
        BY DEF TypeOK
      <4>1. mem' \in [Procs -> (SUBSET Messages) \cup (SUBSET Agents)]
        BY <3>2, <4>4, <4>5
      <4>2. LocalsTyped'
        BY <3>2, <4>1 DEF LocalsTyped, TypeOK
      <4>3. Others(p)
        BY <3>2 DEF TypeOK, Others
      <4> QED BY <4>2, <4>3
    <3>4. Stage'
      BY <3>1, <3>2 DEF Stage, TypeOK, Locked, Sets
    <3> QED BY <1>5, <2>1, <3>3, <3>4 DEF RemoveFromConfig, TypeOK, LocalsTyped
  <2> QED BY <2>2, <2>3
<1>6. CASE TruncateConfig(p)
  <2>1. LocalsTyped' /\ Stage' /\ Others(p)
    BY <1>6, GotoTyped DEF TruncateConfig, Stage
  <2> QED BY <1>6, <2>1 DEF TruncateConfig, TypeOK, LocalsTyped
<1>7. CASE WriteConfig(p)
  <2>1. op[p] \in Sets /\ mem[p] \subseteq Agents
    BY <1>7 DEF WriteConfig, Stage
  <2>2. LocalsTyped' /\ Stage' /\ Others(p)
    <3>1. CASE op[p] = "join"
      BY <1>7, <3>1, GotoTyped DEF WriteConfig
    <3>2. CASE op[p] = "leave"
      BY <1>7, <3>2, GotoTyped DEF WriteConfig
    <3> QED BY <2>1, <3>1, <3>2 DEF Sets
  <2>3. config' \in {NoFile, Torn} \cup SUBSET Agents
    BY <1>7, <2>1, OverlayIs DEF WriteConfig
  <2> QED BY <1>7, <2>2, <2>3 DEF WriteConfig, TypeOK, LocalsTyped
<1>8. CASE Spawn(p)
  <2>1. LocalsTyped' /\ Stage' /\ Others(p)
    <3>1. CASE msg[p] = 0
      BY <1>8, <3>1, ReturnTyped DEF Spawn
    <3>2. CASE msg[p] # 0
      <4>1. msg[p] \in Messages
        BY <3>2, FleetAssumption DEF TypeOK, Messages
      <4> QED BY <1>8, <3>2, <4>1, GotoTyped DEF Spawn
    <3> QED BY <3>1, <3>2
  <2> QED BY <1>8, <2>1 DEF Spawn, TypeOK, LocalsTyped
<1>9. CASE SpawnFails(p) \/ Die(p)
  <2>1. LocalsTyped' /\ Stage' /\ Others(p)
    BY <1>9, ReturnTyped DEF SpawnFails, Die
  <2>2. disturbed' \subseteq Agents /\ mixed' \in BOOLEAN
    BY <1>9 DEF SpawnFails, Die, TypeOK
  <2> QED BY <1>9, <2>1, <2>2 DEF SpawnFails, Die, TypeOK, LocalsTyped
<1>10. CASE WriteTask(p) \/ Forward(p)
  <2>1. msg[p] \in Messages
    BY <1>10 DEF WriteTask, Forward, Stage
  <2>2. Goto(p, "lock") \/ Return(p)
    BY <1>10 DEF WriteTask, Forward
  <2>3. LocalsTyped' /\ Stage' /\ Others(p)
    BY <2>1, <2>2, GotoTyped, ReturnTyped
  <2> QED BY <1>10, <2>3 DEF WriteTask, Forward, TypeOK, LocalsTyped
<1>11. CASE ReadInbox(p)
  <2>1. CASE Return(p)
    <3>1. LocalsTyped' /\ Stage' /\ Others(p)
      BY <2>1, ReturnTyped
    <3> QED BY <1>11, <3>1 DEF ReadInbox, TypeOK, LocalsTyped
  <2>2. CASE ~Return(p)
    <3> DEFINE m == (IF inbox[agent[p]] = NoFile THEN {} ELSE inbox[agent[p]]) \cup {msg[p]}
    <3>1. msg[p] \in Messages
      BY <1>11 DEF ReadInbox, Stage
    <3>2. m \subseteq Messages /\ msg[p] \in m
      BY <1>11, <2>2, <3>1 DEF ReadInbox, TypeOK
    <3>3. pc' = [pc EXCEPT ![p] = "truncate"] /\ mem' = [mem EXCEPT ![p] = m]
          /\ UNCHANGED <<op, agent, msg>>
      BY <1>11, <2>2 DEF ReadInbox
    <3> HIDE DEF m
    <3>4. LocalsTyped' /\ Others(p)
      BY <3>2, <3>3 DEF LocalsTyped, TypeOK, Others, Locked
    <3>5. Stage'
      BY <3>1, <3>2, <3>3 DEF Stage, TypeOK, Locked
    <3> QED BY <1>11, <3>4, <3>5 DEF ReadInbox, TypeOK, LocalsTyped
  <2> QED BY <2>1, <2>2
<1>12. CASE TruncateInbox(p)
  <2>1. LocalsTyped' /\ Stage' /\ Others(p)
    BY <1>12, GotoTyped DEF TruncateInbox, Stage, Locked
  <2>2. inbox' \in [Agents -> {NoFile, Torn} \cup SUBSET Messages]
    BY <1>12 DEF TruncateInbox, TypeOK
  <2> QED BY <1>12, <2>1, <2>2 DEF TruncateInbox, TypeOK, LocalsTyped
<1>13. CASE WriteInbox(p)
  <2>1. LocalsTyped' /\ Stage' /\ Others(p)
    BY <1>13, ReturnTyped DEF WriteInbox
  <2>2. msg[p] \in Messages /\ mem[p] \subseteq Messages
    BY <1>13 DEF WriteInbox, Stage, Locked
  <2>3. inbox' \in [Agents -> {NoFile, Torn} \cup SUBSET Messages]
    BY <1>13, <2>2, OverlayIs DEF WriteInbox, TypeOK
  <2>4. sent' \in [Agents -> SUBSET Messages]
    BY <1>13, <2>2 DEF WriteInbox, TypeOK
  <2> QED BY <1>13, <2>1, <2>3, <2>4 DEF WriteInbox, TypeOK, LocalsTyped
<1>14. CASE RemoveTask(p) \/ Left(p)
  <2>1. op[p] = "leave"
    BY <1>14 DEF RemoveTask, Left, Stage
  <2>2. Goto(p, "remove_inbox") \/ Return(p)
    BY <1>14 DEF RemoveTask, Left
  <2>3. LocalsTyped' /\ Stage' /\ Others(p)
    BY <2>1, <2>2, GotoTyped, ReturnTyped
  <2>4. status' \in [Agents -> {"none", "stopped", "active"}]
    BY <1>14 DEF RemoveTask, Left, TypeOK
  <2> QED BY <1>14, <2>3, <2>4 DEF RemoveTask, Left, TypeOK, LocalsTyped
<1> QED BY <1>1, <1>2, <1>3, <1>4, <1>5, <1>6, <1>7, <1>8, <1>9, <1>10, <1>11, <1>12, <1>13, <1>14
        DEF ProcStep

\* kild destroy unlinks an inbox under those who write it.
LEMMA RemoveShape ==
    ASSUME TypeOK, Stage, NEW p \in Procs, RemoveInbox(p)
    PROVE  /\ TypeOK' /\ Stage'
           /\ pc[p] = "remove_inbox" /\ pc'[p] = "config"
           /\ UNCHANGED <<op, agent, msg, mem, config, joined, disturbed, mixed>>
           /\ inbox' = [inbox EXCEPT ![agent[p]] = NoFile]
           /\ sent' = [sent EXCEPT ![agent[p]] = {}]
           /\ \A q \in Procs \ {p} : \/ pc'[q] = pc[q]
                                     \/ pc[q] = "write" /\ pc'[q] = "write_unlinked"
                                     \/ pc[q] = "write_empty" /\ pc'[q] = "config"
           /\ \A q \in Procs \ {p} : agent[q] # agent[p] => pc'[q] = pc[q]
<1>1. /\ pc[p] = "remove_inbox" /\ pc'[p] = "config"
      /\ UNCHANGED <<op, agent, msg, mem, config, joined, disturbed, mixed>>
      /\ inbox' = [inbox EXCEPT ![agent[p]] = NoFile]
      /\ sent' = [sent EXCEPT ![agent[p]] = {}]
  BY DEF RemoveInbox
<1>2. \A q \in Procs : pc'[q] = CASE q = p -> "config"
                                  [] agent[q] = agent[p] /\ pc[q] = "write" -> "write_unlinked"
                                  [] agent[q] = agent[p] /\ pc[q] = "write_empty" -> "config"
                                  [] OTHER -> pc[q]
  BY DEF RemoveInbox
<1>3. \A q \in Procs \ {p} : \/ pc'[q] = pc[q]
                             \/ pc[q] = "write" /\ pc'[q] = "write_unlinked"
                             \/ pc[q] = "write_empty" /\ pc'[q] = "config"
  BY <1>2
<1>4. \A q \in Procs \ {p} : agent[q] # agent[p] => pc'[q] = pc[q]
  BY <1>2
<1>5. LocalsTyped'
  <2>1. pc' = [q \in Procs |-> pc'[q]]
    BY DEF RemoveInbox
  <2> QED BY <2>1, <1>1, <1>3 DEF LocalsTyped, TypeOK, Locked
<1>6. Stage'
  BY <1>1, <1>3 DEF Stage, Locked, Sets
<1>7. inbox' \in [Agents -> {NoFile, Torn} \cup SUBSET Messages]
      /\ sent' \in [Agents -> SUBSET Messages]
  BY <1>1 DEF TypeOK
<1>8. TypeOK'
  BY <1>1, <1>5, <1>7 DEF TypeOK, LocalsTyped, RemoveInbox
<1> QED BY <1>1, <1>3, <1>4, <1>6, <1>8

\* Who is busy after the step of a command was, with the same command.
LEMMA StillBusy ==
    ASSUME TypeOK, Stage, NEW p \in Procs, ProcStep(p), NEW q \in Procs, Busy(q)'
    PROVE  Busy(q) /\ op'[q] = op[q] /\ agent'[q] = agent[q]
<1>1. CASE RemoveInbox(p)
  BY <1>1, RemoveShape DEF Busy
<1>2. CASE ~RemoveInbox(p) /\ q # p
  BY <1>2, ProcShape DEF Others, Busy
<1>3. CASE ~RemoveInbox(p) /\ q = p
  <2>1. Busy(p)
    BY DEF ProcStep, Ensure, Look, Empty, WriteEmpty, UpdateConfig, TruncateConfig, WriteConfig,
           EnsureTaskDir, Spawn, SpawnFails, WriteTask, Forward, ReadInbox, TruncateInbox,
           WriteInbox, RemoveTask, RemoveInbox, RemoveFromConfig, Left, Die, Busy
  <2>2. Return(p) \/ UNCHANGED <<op, agent>>
    BY <1>3 DEF ProcStep, Ensure, Look, Empty, WriteEmpty, UpdateConfig, TruncateConfig, WriteConfig,
           EnsureTaskDir, Spawn, SpawnFails, WriteTask, Forward, ReadInbox, TruncateInbox,
           WriteInbox, RemoveTask, RemoveFromConfig, Left, Die, Goto
  <2>3. Return(p) => ~Busy(p)'
    BY DEF Return, Busy, TypeOK
  <2> QED BY <1>3, <2>1, <2>2, <2>3
<1> QED BY <1>1, <1>2, <1>3

LEMMA HolderStep ==
    ASSUME TypeOK, Stage, OneHolder, [Next]_vars PROVE OneHolder'
<1>1. ASSUME NEW p \in Procs, Begins(p) PROVE OneHolder'
  BY <1>1, BeginsShape DEF OneHolder, Others, Locked
<1>2. ASSUME NEW p \in Procs, RemoveInbox(p) PROVE OneHolder'
  BY <1>2, RemoveShape DEF OneHolder, Locked
<1>3. ASSUME NEW p \in Procs, ReadInbox(p) PROVE OneHolder'
  <2>1. Others(p) /\ LockIsFree(p)
    BY <1>3, ProcShape DEF ReadInbox, RemoveInbox, ProcStep
  <2>2. agent'[p] = agent[p] \/ pc'[p] = "idle"
    BY <1>3 DEF ReadInbox, Return, TypeOK
  <2> QED BY <2>1, <2>2 DEF OneHolder, LockIsFree, Others, Locked
<1>4. ASSUME NEW p \in Procs, ProcStep(p), ~RemoveInbox(p), ~ReadInbox(p) PROVE OneHolder'
  <2>1. Others(p)
    BY <1>4, ProcShape
  <2>2. pc'[p] \in Locked => pc[p] \in Locked
    BY <1>4 DEF ProcStep, Ensure, Look, Empty, WriteEmpty, UpdateConfig, TruncateConfig, WriteConfig,
           EnsureTaskDir, Spawn, SpawnFails, WriteTask, Forward, TruncateInbox,
           WriteInbox, RemoveTask, RemoveFromConfig, Left, Die, Goto, Return, Locked, TypeOK
  <2>3. pc'[p] \in Locked => agent'[p] = agent[p]
    BY <1>4, StillBusy DEF Busy, Locked
  <2> QED BY <2>1, <2>2, <2>3 DEF OneHolder, Others
<1>5. CASE UNCHANGED procs
  BY <1>5 DEF procs, OneHolder
<1> QED BY <1>1, <1>2, <1>3, <1>4, <1>5 DEF Next, Begins, Stop, DaemonRestarts, Rest, vars

-----------------------------------------------------------------------------
(* The inbox of a. *)

LEMMA AloneStep ==
    ASSUME TypeOK, Stage, NEW a \in Agents, Alone(a), a \notin disturbed', [Next]_vars
    PROVE  Alone(a)'
<1>1. ASSUME NEW p \in Procs, Begins(p) PROVE Alone(a)'
  <2>1. Others(p) /\ ~Busy(p) /\ (Meets(p, op'[p], agent'[p]) => agent'[p] \in disturbed')
    BY <1>1, BeginsShape
  <2> QED BY <2>1 DEF Alone, Others, Busy, Meets
<1>2. ASSUME NEW p \in Procs, ProcStep(p) PROVE Alone(a)'
  BY <1>2, StillBusy DEF Alone
<1>3. CASE UNCHANGED procs
  BY <1>3 DEF procs, Alone, Busy
<1> QED BY <1>1, <1>2, <1>3 DEF Next, Begins, Stop, DaemonRestarts, Rest, vars

Special == {"empty", "write_empty", "truncate", "write", "write_unlinked"}

\* The step of a command about another agent does not matter to a.
LEMMA KeptElsewhere ==
    ASSUME TypeOK, Stage, NEW a \in Agents, Kept(a), NEW p \in Procs, ProcStep(p), agent[p] # a
    PROVE  Kept(a)'
<1>1. inbox'[a] = inbox[a] /\ sent'[a] = sent[a]
  <2>1. CASE RemoveInbox(p)
    BY <2>1, RemoveShape DEF TypeOK
  <2>2. CASE ~RemoveInbox(p)
    BY <2>2 DEF ProcStep, Ensure, Look, Empty, WriteEmpty, UpdateConfig, TruncateConfig, WriteConfig,
           EnsureTaskDir, Spawn, SpawnFails, WriteTask, Forward, ReadInbox, TruncateInbox,
           WriteInbox, RemoveTask, RemoveFromConfig, Left, Die, TypeOK, files, history
  <2> QED BY <2>1, <2>2
<1>2. \A q \in Procs \ {p} : /\ agent'[q] = agent[q]
                             /\ agent[q] = a => pc'[q] = pc[q] /\ mem'[q] = mem[q]
  <2>1. CASE RemoveInbox(p)
    BY <2>1, RemoveShape
  <2>2. CASE ~RemoveInbox(p)
    BY <2>2, ProcShape DEF Others
  <2> QED BY <2>1, <2>2
<1>3. agent'[p] # a \/ pc'[p] = "idle"
  BY StillBusy DEF Busy
<1> QED BY <1>1, <1>2, <1>3 DEF Kept, Writing

\* A step that leaves the inbox alone.
LEMMA KeptPlain ==
    ASSUME TypeOK, NEW a \in Agents, Kept(a), NEW p \in Procs, Others(p),
           pc[p] \notin Writing, pc'[p] \notin Special,
           inbox'[a] = inbox[a], sent'[a] = sent[a]
    PROVE  Kept(a)'
<1>1. ASSUME NEW q \in Procs, agent'[q] = a, pc'[q] \in Special
      PROVE  agent[q] = a /\ pc'[q] = pc[q] /\ mem'[q] = mem[q]
  BY <1>1 DEF Others
<1>2. \A q \in Procs : agent[q] = a /\ pc[q] \in Writing => agent'[q] = a /\ pc'[q] \in Writing
  BY DEF Others
<1> QED BY <1>1, <1>2 DEF Kept, Writing, Special

LEMMA KeptHere ==
    ASSUME TypeOK, Stage, OneHolder, NEW a \in Agents, Alone(a), Kept(a), a \notin disturbed',
           NEW p \in Procs, ProcStep(p), agent[p] = a
    PROVE  Kept(a)'
<1> USE DEF history, files
<1>1. Busy(p)
  BY DEF ProcStep, Ensure, Look, Empty, WriteEmpty, UpdateConfig, TruncateConfig, WriteConfig,
         EnsureTaskDir, Spawn, SpawnFails, WriteTask, Forward, ReadInbox, TruncateInbox,
         WriteInbox, RemoveTask, RemoveInbox, RemoveFromConfig, Left, Die, Busy
<1>2. ASSUME op[p] \in Sets, NEW q \in Procs \ {p}, agent[q] = a PROVE pc[q] = "idle"
  BY <1>1, <1>2 DEF Alone, Busy
<1>3. ASSUME NEW q \in Procs \ {p}, agent[q] = a, Busy(q) PROVE op[q] \notin Sets
  BY <1>1, <1>3 DEF Alone
<1>4. ASSUME NEW q \in Procs \ {p}, agent[q] = a PROVE pc[q] \notin {"empty", "write_empty"}
  BY <1>3, <1>4 DEF Stage, Sets, Busy
<1>5. ~RemoveInbox(p) => Others(p)
  BY ProcShape
<1>6. CASE \/ Ensure(p) \/ UpdateConfig(p) \/ TruncateConfig(p) \/ WriteConfig(p)
           \/ EnsureTaskDir(p) \/ Spawn(p) \/ SpawnFails(p) \/ WriteTask(p) \/ Forward(p)
           \/ RemoveTask(p) \/ RemoveFromConfig(p) \/ Left(p)
  <2>1. pc[p] \notin Writing /\ pc'[p] \notin Special /\ UNCHANGED <<inbox, sent>>
    BY <1>6 DEF Ensure, UpdateConfig, TruncateConfig, WriteConfig, EnsureTaskDir, Spawn, SpawnFails,
                WriteTask, Forward, RemoveTask, RemoveFromConfig, Left, Goto, Return, Writing,
                Special, TypeOK
  <2>2. ~RemoveInbox(p)
    BY <1>6 DEF RemoveInbox, Ensure, UpdateConfig, TruncateConfig, WriteConfig, EnsureTaskDir, Spawn,
                SpawnFails, WriteTask, Forward, RemoveTask, RemoveFromConfig, Left
  <2> QED BY <1>5, <2>1, <2>2, KeptPlain
<1>7. CASE Look(p)
  <2>1. Others(p) /\ UNCHANGED <<inbox, sent, mem, agent>> /\ pc[p] = "look"
        /\ (pc'[p] = "config" \/ (pc'[p] = "empty" /\ inbox[a] = NoFile))
    BY <1>7, <1>5 DEF Look, RemoveInbox, Goto, TypeOK
  <2> QED BY <2>1 DEF Kept, Others, Writing
<1>8. CASE Empty(p)
  <2>1. Others(p) /\ inbox'[a] = Torn /\ UNCHANGED <<sent, mem, agent>> /\ pc[p] = "empty"
        /\ pc'[p] = "write_empty"
    BY <1>8, <1>5 DEF Empty, RemoveInbox, Goto, TypeOK
  <2>2. \A q \in Procs \ {p} : agent[q] = a => pc[q] = "idle"
    BY <1>2, <2>1 DEF Stage, Sets
  <2>3. sent[a] = {}
    BY <2>1, <2>2, FleetAssumption DEF Kept, Writing
  <2> QED BY <2>1, <2>2, <2>3 DEF Kept, Others, Writing
<1>9. CASE WriteEmpty(p)
  <2>1. Others(p) /\ UNCHANGED <<sent, mem, agent>> /\ pc[p] = "write_empty" /\ pc'[p] = "config"
    BY <1>9, <1>5 DEF WriteEmpty, RemoveInbox, Goto, TypeOK
  <2>2. \A q \in Procs \ {p} : agent[q] = a => pc[q] = "idle"
    BY <1>2, <2>1 DEF Stage, Sets
  <2>3. inbox[a] = Torn /\ sent[a] = {} /\ WritersOf(p) = {}
    BY <2>1, <2>2 DEF Kept, Writing, WritersOf
  <2>4. inbox'[a] = {}
    BY <1>9, <2>3, OverlayIs DEF WriteEmpty, TypeOK
  <2> QED BY <2>1, <2>2, <2>3, <2>4 DEF Kept, Others, Writing
<1>10. CASE ReadInbox(p)
  <2>1. Others(p) /\ UNCHANGED <<inbox, sent>> /\ pc[p] = "lock"
    BY <1>10, <1>5 DEF ReadInbox, RemoveInbox
  <2>2. CASE Return(p)
    BY <2>1, <2>2, KeptPlain DEF Return, Writing, Special, TypeOK
  <2>3. CASE ~Return(p)
    <3>1. inbox[a] # Torn /\ pc'[p] = "truncate" /\ agent' = agent
          /\ mem'[p] = (IF inbox[a] = NoFile THEN {} ELSE inbox[a]) \cup {msg[p]}
      BY <1>10, <2>3 DEF ReadInbox, TypeOK
    <3>2. \A q \in Procs : ~(agent[q] = a /\ pc[q] \in Writing)
      BY <3>1 DEF Kept
    <3>3. sent[a] \subseteq mem'[p]
      <4>1. \/ inbox[a] = NoFile /\ sent[a] = {}
            \/ inbox[a] # NoFile /\ sent[a] \subseteq inbox[a]
        BY <3>2, FleetAssumption DEF Kept
      <4> QED BY <3>1, <4>1
    <3> QED BY <2>1, <3>1, <3>2, <3>3 DEF Kept, Others, Writing
  <2> QED BY <2>2, <2>3
<1>11. CASE TruncateInbox(p)
  <2>1. Others(p) /\ inbox'[a] = Torn /\ UNCHANGED <<sent, mem, agent>> /\ pc[p] = "truncate"
        /\ pc'[p] = "write"
    BY <1>11, <1>5 DEF TruncateInbox, RemoveInbox, Goto, TypeOK
  <2>2. sent[a] \subseteq mem[p]
    BY <2>1 DEF Kept
  <2> QED BY <2>1, <2>2, <1>4 DEF Kept, Others, Writing
<1>12. CASE WriteInbox(p)
  <2>1. pc[p] = "write"
    BY <1>12 DEF WriteInbox, Kept
  <2>2. Others(p) /\ pc'[p] = "idle" /\ sent'[a] = sent[a] \cup {msg[p]}
    BY <1>12, <1>5 DEF WriteInbox, RemoveInbox, Return, TypeOK
  <2>3. \A q \in Procs \ {p} : agent[q] = a => pc[q] \notin Special
    BY <2>1, <1>4 DEF OneHolder, Locked, Special
  <2>4. WritersOf(p) = {} /\ inbox[a] = Torn
    BY <2>1, <2>3 DEF WritersOf, Writing, Special, Kept
  <2>5. inbox'[a] = mem[p]
    BY <1>12, <2>1, <2>4, OverlayIs DEF WriteInbox, TypeOK
  <2>6. mem[p] \subseteq Messages /\ msg[p] \in mem[p] /\ sent[a] \subseteq mem[p]
    BY <2>1 DEF Stage, Locked, Kept
  <2> QED BY <2>2, <2>3, <2>5, <2>6 DEF Kept, Others, Writing, Special
<1>13. CASE RemoveInbox(p)
  <2>1. pc[p] = "remove_inbox" /\ pc'[p] = "config" /\ UNCHANGED <<agent, mem>>
        /\ inbox'[a] = NoFile /\ sent'[a] = {}
    BY <1>13, RemoveShape DEF TypeOK
  <2>2. \A q \in Procs \ {p} : agent[q] = a => pc'[q] = "idle"
    BY <1>2, <1>13, <2>1, RemoveShape DEF Stage, Sets
  <2> QED BY <2>1, <2>2 DEF Kept, Writing
<1>14. CASE Die(p)
  <2>1. pc[p] \notin Writing /\ pc'[p] = "idle" /\ UNCHANGED <<inbox, sent>>
    BY <1>14 DEF Die, Return, TypeOK
  <2>2. Others(p)
    BY <1>14, <1>5, <2>1, RemoveShape
  <2> QED BY <2>1, <2>2, KeptPlain DEF Special
<1> QED BY <1>6, <1>7, <1>8, <1>9, <1>10, <1>11, <1>12, <1>13, <1>14 DEF ProcStep

LEMMA KeptStep ==
    ASSUME TypeOK, Stage, OneHolder, NEW a \in Agents, Alone(a), Kept(a), a \notin disturbed',
           [Next]_vars
    PROVE  Kept(a)'
<1>1. ASSUME NEW p \in Procs, Begins(p) PROVE Kept(a)'
  BY <1>1, BeginsShape, KeptPlain DEF Busy, Writing, Special, files
<1>2. ASSUME NEW p \in Procs, ProcStep(p) PROVE Kept(a)'
  BY <1>2, KeptElsewhere, KeptHere
<1>3. CASE UNCHANGED <<procs, inbox, sent>>
  BY <1>3 DEF procs, Kept
<1> QED BY <1>1, <1>2, <1>3 DEF Next, Begins, Stop, DaemonRestarts, Rest, vars, files, history

-----------------------------------------------------------------------------
(* The configuration. *)

LEMMA OneChangesStep ==
    ASSUME TypeOK, Stage, OneChanges, ~mixed', [Next]_vars
    PROVE  OneChanges'
<1>1. ASSUME NEW p \in Procs, Begins(p) PROVE OneChanges'
  <2>1. Others(p) /\ ~Busy(p) /\ ~MeetsInConfig(p, op'[p])
    BY <1>1, BeginsShape
  <2> QED BY <2>1 DEF OneChanges, Others, Busy, MeetsInConfig
<1>2. ASSUME NEW p \in Procs, ProcStep(p) PROVE OneChanges'
  BY <1>2, StillBusy DEF OneChanges
<1>3. CASE UNCHANGED procs
  BY <1>3 DEF procs, OneChanges, Busy
<1> QED BY <1>1, <1>2, <1>3 DEF Next, Begins, Stop, DaemonRestarts, Rest, vars

Changing == {"truncate_config", "write_config"}

\* A step that leaves the configuration alone.
LEMMA ListedPlain ==
    ASSUME Listed, NEW p \in Procs, UNCHANGED <<config, joined>>,
           pc[p] \notin Changing, pc'[p] \notin Changing,
           \A q \in Procs \ {p} : mem'[q] = mem[q],
           \A q \in Procs \ {p} : pc[q] \in Changing \/ pc'[q] \in Changing => pc'[q] = pc[q]
    PROVE  Listed'
<1>1. \A q \in Procs : pc'[q] \in Changing => pc'[q] = pc[q] /\ mem'[q] = mem[q]
  OBVIOUS
<1>2. \A q \in Procs : pc[q] \in Changing => pc'[q] = pc[q]
  OBVIOUS
<1> QED BY <1>1, <1>2 DEF Listed, Changing

LEMMA ListedHere ==
    ASSUME TypeOK, Stage, OneChanges, Listed, ~mixed', NEW p \in Procs, ProcStep(p)
    PROVE  Listed'
<1> USE DEF history, files
<1>1. CASE RemoveInbox(p)
  BY <1>1, RemoveShape, ListedPlain DEF Changing
<1>2. ~RemoveInbox(p) => Others(p)
  BY ProcShape
<1>3. CASE \/ Ensure(p) \/ Look(p) \/ Empty(p) \/ WriteEmpty(p) \/ EnsureTaskDir(p) \/ Spawn(p)
           \/ SpawnFails(p) \/ WriteTask(p) \/ Forward(p) \/ ReadInbox(p) \/ TruncateInbox(p)
           \/ WriteInbox(p) \/ RemoveTask(p) \/ Left(p) \/ Die(p)
  <2>1. pc[p] \notin Changing /\ pc'[p] \notin Changing /\ UNCHANGED <<config, joined>>
    BY <1>3 DEF Ensure, Look, Empty, WriteEmpty, EnsureTaskDir, Spawn, SpawnFails, WriteTask, Forward,
                ReadInbox, TruncateInbox, WriteInbox, RemoveTask, Left, Die, Goto, Return,
                Changing, TypeOK
  <2>2. CASE ~RemoveInbox(p)
    BY <1>2, <2>1, <2>2, ListedPlain DEF Others
  <2> QED BY <1>1, <2>2
<1>4. ASSUME op[p] \in Sets, Busy(p), NEW q \in Procs \ {p} PROVE pc[q] \notin Changing
  BY <1>4 DEF OneChanges, Stage, Changing, Busy
<1>5. CASE UpdateConfig(p)
  <2>1. Others(p) /\ pc[p] = "config" /\ op[p] = "join" /\ config' = config
        /\ joined' = joined \cup {agent[p]}
    BY <1>5, <1>2 DEF UpdateConfig, RemoveInbox
  <2>2. \A q \in Procs : pc[q] \notin Changing
    BY <2>1, <1>4 DEF Sets, Busy, Changing
  <2>3. \/ config = NoFile /\ joined = {}
        \/ config # NoFile /\ config # Torn /\ config = joined
    BY <2>2, FleetAssumption DEF Listed, Changing
  <2>4. CASE Goto(p, "task_dir")
    <3>1. pc'[p] = "task_dir"
      BY <2>4 DEF Goto, TypeOK
    <3>2. config = joined /\ agent[p] \in joined
      BY <1>5, <2>1, <2>3, <3>1, FleetAssumption DEF UpdateConfig, TypeOK
    <3>3. joined' = joined
      BY <2>1, <3>2
    <3> QED BY <2>1, <3>1, <3>3, ListedPlain DEF Others, Changing
  <2>5. CASE ~Goto(p, "task_dir")
    <3>1. pc'[p] = "truncate_config" /\ mem'[p] = (IF config = NoFile THEN {} ELSE config) \cup {agent[p]}
      BY <1>5, <2>5 DEF UpdateConfig, TypeOK
    <3>2. mem'[p] = joined'
      BY <2>1, <2>3, <3>1
    <3>3. \A q \in Procs \ {p} : pc'[q] \notin Changing
      BY <2>1, <2>2 DEF Others
    <3> QED BY <3>1, <3>2, <3>3 DEF Listed, Changing
  <2> QED BY <2>4, <2>5
<1>6. CASE RemoveFromConfig(p)
  <2>1. Others(p) /\ pc[p] = "config" /\ op[p] = "leave" /\ config' = config
        /\ joined' = joined \ {agent[p]}
    BY <1>6, <1>2 DEF RemoveFromConfig, RemoveInbox
  <2>2. \A q \in Procs : pc[q] \notin Changing
    BY <2>1, <1>4 DEF Sets, Busy, Changing
  <2>3. \/ config = NoFile /\ joined = {}
        \/ config # NoFile /\ config # Torn /\ config = joined
    BY <2>2, FleetAssumption DEF Listed, Changing
  <2>4. CASE Goto(p, "left")
    <3>1. pc'[p] = "left"
      BY <2>4 DEF Goto, TypeOK
    <3>2. agent[p] \notin joined
      BY <1>6, <2>1, <2>3, <3>1 DEF RemoveFromConfig, TypeOK
    <3>3. joined' = joined
      BY <2>1, <3>2
    <3> QED BY <2>1, <3>1, <3>3, ListedPlain DEF Others, Changing
  <2>5. CASE ~Goto(p, "left")
    <3>1. pc'[p] = "truncate_config" /\ mem'[p] = config \ {agent[p]} /\ config # NoFile
      BY <1>6, <2>5 DEF RemoveFromConfig, TypeOK
    <3>2. mem'[p] = joined'
      BY <2>1, <2>3, <3>1
    <3>3. \A q \in Procs \ {p} : pc'[q] \notin Changing
      BY <2>1, <2>2 DEF Others
    <3> QED BY <3>1, <3>2, <3>3 DEF Listed, Changing
  <2> QED BY <2>4, <2>5
<1>7. CASE TruncateConfig(p) \/ WriteConfig(p)
  <2>1. Others(p) /\ pc[p] \in Changing /\ UNCHANGED <<joined, mem>>
    BY <1>7, <1>2 DEF TruncateConfig, WriteConfig, RemoveInbox, Goto, Changing
  <2>2. \A q \in Procs \ {p} : pc[q] \notin Changing /\ pc'[q] \notin Changing
    BY <2>1, <1>4 DEF Stage, Busy, Changing, Others
  <2>3. mem[p] = joined /\ joined \in SUBSET Agents
    BY <2>1 DEF Listed, Changing, TypeOK
  <2>4. CASE TruncateConfig(p)
    <3>1. pc'[p] = "write_config" /\ config' = Torn
      BY <2>4 DEF TruncateConfig, Goto, TypeOK
    <3> QED BY <2>1, <2>2, <2>3, <3>1 DEF Listed, Changing
  <2>5. CASE WriteConfig(p)
    <3>1. config = Torn /\ ConfigWriters(p) = {}
      BY <2>2, <2>5 DEF WriteConfig, Listed, ConfigWriters, Changing
    <3>2. config' = joined
      BY <2>3, <2>5, <3>1, OverlayIs DEF WriteConfig
    <3>3. pc'[p] \notin Changing
      BY <2>5 DEF WriteConfig, Goto, TypeOK, Changing
    <3> QED BY <2>1, <2>2, <2>3, <3>2, <3>3 DEF Listed, Changing
  <2> QED BY <1>7, <2>4, <2>5
<1> QED BY <1>1, <1>3, <1>5, <1>6, <1>7 DEF ProcStep

LEMMA ListedStep ==
    ASSUME TypeOK, Stage, OneChanges, Listed, ~mixed', [Next]_vars
    PROVE  Listed'
<1>1. ASSUME NEW p \in Procs, Begins(p) PROVE Listed'
  <2>1. Others(p) /\ UNCHANGED <<config, joined>> /\ pc[p] = "idle"
        /\ pc'[p] \in {"ensure", "task", "remove_task", "forward"}
    BY <1>1, BeginsShape DEF files, Busy
  <2> QED BY <2>1, ListedPlain DEF Others, Changing
<1>2. ASSUME NEW p \in Procs, ProcStep(p) PROVE Listed'
  BY <1>2, ListedHere
<1>3. CASE UNCHANGED <<procs, config, joined>>
  BY <1>3 DEF procs, Listed
<1> QED BY <1>1, <1>2, <1>3 DEF Next, Begins, Stop, DaemonRestarts, Rest, vars, files, history

-----------------------------------------------------------------------------
(* The theorems. *)

LEMMA ShapeStep == TypeOK /\ Stage /\ [Next]_vars => TypeOK' /\ Stage'
<1> SUFFICES ASSUME TypeOK, Stage, [Next]_vars PROVE TypeOK' /\ Stage'
  OBVIOUS
<1>1. ASSUME NEW p \in Procs, Begins(p) PROVE TypeOK' /\ Stage'
  BY <1>1, BeginsShape
<1>2. ASSUME NEW p \in Procs, ProcStep(p) PROVE TypeOK' /\ Stage'
  BY <1>2, ProcShape, RemoveShape
<1>3. ASSUME NEW a \in Agents, Stop(a) PROVE TypeOK' /\ Stage'
  <2>1. begun' \in 0 .. MaxCommands /\ status' \in [Agents -> {"none", "stopped", "active"}]
    BY <1>3, FleetAssumption DEF Stop, TypeOK
  <2> QED BY <1>3, <2>1 DEF Stop, TypeOK, Stage, files, procs, history
<1>4. CASE DaemonRestarts
  <2>1. begun' \in 0 .. MaxCommands /\ status' \in [Agents -> {"none", "stopped", "active"}]
    BY <1>4, FleetAssumption DEF DaemonRestarts, TypeOK
  <2> QED BY <1>4, <2>1 DEF DaemonRestarts, TypeOK, Stage, files, procs, history
<1>5. CASE UNCHANGED vars
  BY <1>5 DEF vars, TypeOK, Stage, files, procs, history
<1> QED BY <1>1, <1>2, <1>3, <1>4, <1>5 DEF Next, Begins, Rest

\* What was disturbed or mixed stays so.
LEMMA HistoryStep ==
    ASSUME TypeOK, Stage, [Next]_vars
    PROVE  disturbed \subseteq disturbed' /\ (mixed => mixed')
<1>1. ASSUME NEW p \in Procs, Begins(p) PROVE disturbed \subseteq disturbed' /\ (mixed => mixed')
  BY <1>1, BeginsShape
<1>2. ASSUME NEW p \in Procs, ProcStep(p)
      PROVE  disturbed \subseteq disturbed' /\ (mixed => mixed')
  <2>1. CASE Die(p)
    BY <2>1 DEF Die
  <2>2. CASE ~Die(p)
    <3>1. UNCHANGED <<disturbed, mixed>>
      BY <1>2, <2>2 DEF ProcStep, Ensure, Look, Empty, WriteEmpty, UpdateConfig, TruncateConfig,
           WriteConfig, EnsureTaskDir, Spawn, SpawnFails, WriteTask, Forward, ReadInbox,
           TruncateInbox, WriteInbox, RemoveTask, RemoveInbox, RemoveFromConfig, Left, history
    <3> QED BY <3>1
  <2> QED BY <2>1, <2>2
<1>3. CASE UNCHANGED history
  BY <1>3 DEF history
<1> QED BY <1>1, <1>2, <1>3 DEF Next, Begins, Stop, DaemonRestarts, Rest, vars

\* FleetInv is inductive.
THEOREM FleetInvariant == Spec => []FleetInv
<1>1. Init => FleetInv
  <2> SUFFICES ASSUME Init PROVE FleetInv
    OBVIOUS
  <2>1. Brain \in Agents /\ 0 \in 0 .. MaxCommands
    BY FleetAssumption DEF Agents
  <2>2. TypeOK
    BY <2>1 DEF Init, TypeOK
  <2>3. Stage /\ OneHolder
    BY DEF Init, Stage, OneHolder, Locked
  <2>4. ASSUME NEW a \in Agents PROVE Alone(a) /\ Kept(a)
    BY DEF Init, Alone, Kept, Busy, Writing
  <2>5. OneChanges /\ Listed
    BY DEF Init, OneChanges, Listed, Busy
  <2> QED BY <2>2, <2>3, <2>4, <2>5 DEF FleetInv
<1>2. FleetInv /\ [Next]_vars => FleetInv'
  <2> SUFFICES ASSUME FleetInv, [Next]_vars PROVE FleetInv'
    OBVIOUS
  <2>1. TypeOK /\ Stage /\ OneHolder /\ disturbed \subseteq disturbed' /\ (mixed => mixed')
    BY HistoryStep DEF FleetInv
  <2>2. TypeOK' /\ Stage' /\ OneHolder'
    BY <2>1, ShapeStep, HolderStep
  <2>3. ASSUME NEW a \in Agents, a \notin disturbed' PROVE Alone(a)' /\ Kept(a)'
    <3>1. Alone(a) /\ Kept(a)
      BY <2>1, <2>3 DEF FleetInv
    <3> QED BY <2>1, <2>3, <3>1, AloneStep, KeptStep
  <2>4. ASSUME ~mixed' PROVE OneChanges' /\ Listed'
    <3>1. OneChanges /\ Listed
      BY <2>1, <2>4 DEF FleetInv
    <3> QED BY <2>1, <2>4, <3>1, OneChangesStep, ListedStep
  <2> QED BY <2>2, <2>3, <2>4 DEF FleetInv, Agents
<1> QED BY <1>1, <1>2, PTL DEF Spec

\* Every variable of the fleet's model has its type.
THEOREM FleetTypeCorrect == Spec => []TypeOK
<1>1. FleetInv => TypeOK
  BY DEF FleetInv
<1> QED BY <1>1, FleetInvariant, PTL

\* However many injects, prompts and events write to it at once, an inbox that no
\* create, open or destroy touches meanwhile keeps every message whose sender was
\* told it was sent.
THEOREM InboxesKeepAll == Spec => []InboxKeepsAll
<1>1. FleetInv => InboxKeepsAll
  <2> SUFFICES ASSUME FleetInv, NEW a \in Agents \ disturbed
               PROVE  \/ \E p \in Procs : agent[p] = a /\ pc[p] \in Writing /\ sent[a] \subseteq mem[p]
                      \/ inbox[a] = NoFile /\ sent[a] = {}
                      \/ inbox[a] \notin {NoFile, Torn} /\ sent[a] \subseteq inbox[a]
    BY DEF InboxKeepsAll
  <2>1. Kept(a) /\ a \in Agents
    BY DEF FleetInv
  <2>2. CASE \E p \in Procs : agent[p] = a /\ pc[p] \in Writing
    BY <2>1, <2>2 DEF Kept, Writing
  <2>3. CASE ~\E p \in Procs : agent[p] = a /\ pc[p] \in Writing
    BY <2>1, <2>3, FleetAssumption DEF Kept
  <2> QED BY <2>2, <2>3
<1> QED BY <1>1, FleetInvariant, PTL

\* As long as the commands that change it keep apart, config.json lists the kilds
\* that have joined and not left.
THEOREM TeamStaysListed == Spec => []TeamIsListed
<1>1. FleetInv => TeamIsListed
  <2> SUFFICES ASSUME FleetInv, ~mixed
               PROVE  \/ \E p \in Procs : pc[p] \in {"truncate_config", "write_config"} /\ mem[p] = joined
                      \/ config = NoFile /\ joined = {}
                      \/ config \notin {NoFile, Torn} /\ config = joined
    BY DEF TeamIsListed
  <2>1. Listed
    BY DEF FleetInv
  <2> QED BY <2>1, FleetAssumption DEF Listed
<1> QED BY <1>1, FleetInvariant, PTL

=============================================================================
