------------------------ MODULE DaemonLifecycle_proofs ------------------------
(***************************************************************************)
(* Proofs about DaemonLifecycle, for any number of commands, daemons and   *)
(* versions.                                                               *)
(*                                                                         *)
(* While nobody starts or stops a daemon with another one on its way       *)
(* (calm), the daemons take turns: at most one is starting or stopping,    *)
(* and next to one that serves it gets no further than its look at the pid *)
(* file.  So the files are what the last one wrote.  Commands that only    *)
(* start daemons (undisturbed) spawn one when none is left, which keeps    *)
(* things calm.                                                            *)
(***************************************************************************)
EXTENDS DaemonLifecycle, TLAPS

-----------------------------------------------------------------------------
(* The invariant. *)

Unwritten == {"unborn", "check", "remove_stale", "truncate_pid", "write_pid"}

\* A daemon in the pid file has written it.
PidWasWritten == pid_file \in Daemons => daemon[pid_file] \notin Unwritten

OneInTransit == \A d, e \in Daemons : InTransit(d) /\ InTransit(e) => d = e

OneServes == \A d, e \in Daemons : daemon[d] = "serving" /\ daemon[e] = "serving" => d = e

OthersOnlyCheck == \A d, e \in Daemons :
                       daemon[d] = "serving" /\ InTransit(e) => daemon[e] = "check"

Registered(d) == pid_file = d /\ socket = d /\ bin_file = version[d]

\* What a daemon on its way finds in the files.
FilesMatch ==
    \A d \in Daemons :
        /\ daemon[d] = "serving" => Registered(d)
        /\ daemon[d] \in {"write_bin", "look", "unlink", "bind"} => pid_file = d
        /\ daemon[d] \in {"look", "unlink", "bind"} => bin_file = version[d]
        /\ daemon[d] = "unlink" => socket # None
        /\ daemon[d] = "bind" => socket = None
        /\ daemon[d] \in Stopping => socket = d

Turns == OneInTransit /\ OneServes /\ OthersOnlyCheck /\ FilesMatch

OneCommand ==
    /\ \A j, k \in Procs : Busy(j) /\ Busy(k) => j = k
    /\ \A k \in Procs : Busy(k) => cmd[k] \in {"start", "ensure"}
    /\ \A k \in Procs : pc[k] \in {"stale", "shutdown", "wait"} => cmd[k] = "ensure"

\* A daemon is starting or stopping only while its command waits for it.
Attended ==
    \A d \in Daemons :
        /\ daemon[d] \in Starting => \E k \in Procs : pc[k] = "await" /\ child[k] = d
        /\ daemon[d] \in Stopping => \E k \in Procs : pc[k] = "wait"

\* A command that replaces the daemon has seen the old one go.
Replaces ==
    \A k \in Procs :
        /\ pc[k] \in {"wait", "spawn"} => \A d \in Daemons : daemon[d] # "serving"
        /\ pc[k] = "await" => /\ child[k] \in Daemons
                              /\ daemon[child[k]] \notin {"unborn", "exited"}
                              /\ \A d \in Daemons : daemon[d] = "serving" => d = child[k]

\* Unless the pid of a dead daemon is in use, the pid file keeps none from
\* starting.
NotRefused ==
    \A k \in Procs : /\ pc[k] = "await" => daemon[child[k]] # "refused"
                     /\ pc[k] = "failed" => child[k] \in Daemons /\ daemon[child[k]] = "crashed"

LifeInv == /\ TypeOK /\ PidWasWritten
           /\ calm => Turns
           /\ undisturbed => calm /\ OneCommand /\ Attended /\ Replaces
           /\ undisturbed /\ reused = {} => NotRefused

-----------------------------------------------------------------------------
(* Types. *)

LEMMA TypeStep == TypeOK /\ [Next]_vars => TypeOK'
<1> SUFFICES ASSUME TypeOK, [Next]_vars PROVE TypeOK'
  OBVIOUS
<1> USE DEF TypeOK, files, procs
<1>1. ASSUME NEW d \in Daemons, DaemonStep(d) PROVE TypeOK'
  <2>1. CASE CheckPid(d) \/ RemoveStalePid(d) \/ TruncatePid(d) \/ WritePid(d)
    BY <2>1 DEF Step, CheckPid, RemoveStalePid, TruncatePid, WritePid, Starting, Dead
  <2>2. CASE WriteBin(d)
    BY <2>2 DEF WriteBin, Step, Starting
  <2>3. CASE WriteBinFails(d)
    BY <2>3 DEF WriteBinFails, Starting
  <2>4. CASE Look(d) \/ Unlink(d) \/ Bind(d)
    BY <2>4 DEF Look, Unlink, Bind, Step, Starting, Dead
  <2>5. CASE StopAll(d) \/ RemovePid(d) \/ RemoveBin(d) \/ RemoveSocket(d)
    BY <2>5 DEF StopAll, RemovePid, RemoveBin, RemoveSocket, Step, Stopping, Dead
  <2> QED BY <1>1, <2>1, <2>2, <2>3, <2>4, <2>5 DEF DaemonStep
<1>2. ASSUME NEW d \in Daemons, Signal(d) \/ Crash(d) \/ ReusePid(d) PROVE TypeOK'
  BY <1>2 DEF Signal, Cancel, Crash, ReusePid, Stopping, Dead
<1>3. CASE Install
  BY <1>3, Versioned DEF Install
<1>4. ASSUME NEW k \in Procs, NEW c \in Commands, Begin(k, c) PROVE TypeOK'
  BY <1>4 DEF Begin
<1>5. ASSUME NEW k \in Procs, NEW d \in Daemons, Spawn(k, d) PROVE TypeOK'
  BY <1>5 DEF Spawn, Goto, Ended, Starting
<1>6. ASSUME NEW k \in Procs, PingAnswered(k) PROVE TypeOK'
  <2>1. \E p \in {"stale", "shutdown", "ok"} : Goto(k, p)
    BY <1>6 DEF PingAnswered
  <2> QED BY <1>6, <2>1 DEF PingAnswered, Goto, Ended
<1>7. ASSUME NEW k \in Procs, RequestShutdown(k) PROVE TypeOK'
  BY <1>7 DEF RequestShutdown, Cancel, Target, Goto, Ended, Stopping
<1>8. ASSUME NEW k \in Procs,
             \/ PingUnanswered(k) \/ CheckStale(k) \/ ShutdownNotRunning(k) \/ ShutdownFails(k)
             \/ Wait(k) \/ WaitTimesOut(k) \/ AwaitExit(k) \/ AwaitReady(k) \/ AwaitTimesOut(k)
      PROVE  TypeOK'
  <2>1. \E p \in Ended \cup {"spawn", "shutdown"} : Goto(k, p)
    BY <1>8 DEF PingUnanswered, CheckStale, ShutdownNotRunning, ShutdownFails, Wait,
                WaitTimesOut, AwaitExit, AwaitReady, AwaitTimesOut, Ended
  <2>2. UNCHANGED <<files, installed, reused, daemon, version, child, peer, calm>>
        /\ undisturbed' \in BOOLEAN
    BY <1>8 DEF PingUnanswered, CheckStale, ShutdownNotRunning, ShutdownFails, Wait,
                WaitTimesOut, AwaitExit, AwaitReady, AwaitTimesOut
  <2> QED BY <2>1, <2>2 DEF Goto, Ended
<1>9. CASE UNCHANGED vars
  BY <1>9 DEF vars
<1> QED BY <1>1, <1>2, <1>3, <1>4, <1>5, <1>6, <1>7, <1>8, <1>9 DEF Next, ProcStep

-----------------------------------------------------------------------------
(* Daemons take turns. *)

LEMMA PidStep == TypeOK /\ PidWasWritten /\ [Next]_vars => PidWasWritten'
<1> SUFFICES ASSUME TypeOK, PidWasWritten, [Next]_vars PROVE PidWasWritten'
  OBVIOUS
<1> USE DEF PidWasWritten, Unwritten, files
<1>1. ASSUME NEW d \in Daemons, DaemonStep(d) PROVE PidWasWritten'
  <2>1. CASE CheckPid(d) \/ RemoveStalePid(d) \/ TruncatePid(d) \/ WritePid(d)
    BY <2>1, NoDaemonNames DEF Step, CheckPid, RemoveStalePid, TruncatePid, WritePid, TypeOK
  <2>2. CASE WriteBin(d) \/ WriteBinFails(d) \/ Look(d) \/ Unlink(d) \/ Bind(d)
    BY <2>2 DEF WriteBin, WriteBinFails, Look, Unlink, Bind, Step, TypeOK
  <2>3. CASE StopAll(d) \/ RemovePid(d) \/ RemoveBin(d) \/ RemoveSocket(d)
    BY <2>3, NoDaemonNames DEF StopAll, RemovePid, RemoveBin, RemoveSocket, Step, TypeOK
  <2> QED BY <1>1, <2>1, <2>2, <2>3 DEF DaemonStep
<1>2. ASSUME NEW d \in Daemons, Signal(d) \/ Crash(d) \/ ReusePid(d) PROVE PidWasWritten'
  BY <1>2 DEF Signal, Cancel, Crash, ReusePid, TypeOK
<1>3. ASSUME NEW k \in Procs, NEW d \in Daemons, Spawn(k, d) PROVE PidWasWritten'
  BY <1>3 DEF Spawn, TypeOK
<1>4. ASSUME NEW k \in Procs, RequestShutdown(k) PROVE PidWasWritten'
  BY <1>4 DEF RequestShutdown, Cancel, Target, TypeOK
<1>5. CASE UNCHANGED <<files, daemon>>
  BY <1>5
<1> QED BY <1>1, <1>2, <1>3, <1>4, <1>5
        DEF Next, ProcStep, vars, Install, Begin, PingAnswered, PingUnanswered, CheckStale,
            ShutdownNotRunning, ShutdownFails, Wait, WaitTimesOut, AwaitExit, AwaitReady,
            AwaitTimesOut

LEMMA TurnsStep ==
    ASSUME TypeOK, calm, Turns, [Next]_vars, calm' PROVE Turns'
<1> USE DEF Turns, files
<1>1. ASSUME NEW d \in Daemons, DaemonStep(d) PROVE Turns'
  <2>1. InTransit(d) /\ ~WriteBinFails(d)
    BY <1>1 DEF DaemonStep, Step, CheckPid, RemoveStalePid, TruncatePid, WritePid, WriteBin,
                WriteBinFails, Look, Unlink, Bind, StopAll, RemovePid, RemoveBin, RemoveSocket,
                InTransit, Starting, Stopping
  <2>2. UNCHANGED version /\ \A e \in Daemons \ {d} : daemon'[e] = daemon[e] /\ ~InTransit(e)
    BY <1>1, <2>1 DEF DaemonStep, Step, CheckPid, RemoveStalePid, TruncatePid, WritePid, WriteBin,
                Look, Unlink, Bind, StopAll, RemovePid, RemoveBin, RemoveSocket,
                OneInTransit, TypeOK
  <2>3. ASSUME NEW e \in Daemons, daemon[e] = "serving" PROVE daemon[d] = "check" /\ pid_file = e
    BY <2>1, <2>3 DEF OthersOnlyCheck, FilesMatch, Registered
  <2>4. OneInTransit'
    BY <2>2 DEF OneInTransit, InTransit
  <2>5. CASE CheckPid(d)
    <3>1. /\ daemon[d] = "check" /\ UNCHANGED <<files>>
          /\ daemon'[d] \in {"truncate_pid", "remove_stale", "refused"}
          /\ pid_file \in Daemons /\ is_process_alive(pid_file) => daemon'[d] = "refused"
      BY <2>5 DEF CheckPid, Step, TypeOK
    <3>2. ASSUME NEW e \in Daemons, daemon[e] = "serving" PROVE daemon'[d] = "refused"
      BY <3>1, <3>2, <2>3 DEF is_process_alive, Live
    <3>3. OneServes' /\ OthersOnlyCheck'
      BY <3>1, <3>2, <2>2 DEF OneServes, OthersOnlyCheck, InTransit, Starting, Stopping
    <3>4. FilesMatch'
      BY <3>1, <2>2 DEF FilesMatch, Registered, Stopping
    <3> QED BY <2>4, <3>3, <3>4
  <2>6. CASE ~CheckPid(d)
    <3>1. daemon[d] # "check" /\ \A e \in Daemons \ {d} : daemon[e] # "serving"
      BY <1>1, <2>1, <2>3, <2>6 DEF DaemonStep, Step, RemoveStalePid, TruncatePid, WritePid,
            WriteBin, Look, Unlink, Bind, StopAll, RemovePid, RemoveBin, RemoveSocket
    <3>2. OneServes' /\ OthersOnlyCheck'
      BY <3>1, <2>2 DEF OneServes, OthersOnlyCheck, InTransit, Starting, Stopping
    <3>3. SUFFICES /\ daemon'[d] = "serving" => Registered(d)'
                   /\ daemon'[d] \in {"write_bin", "look", "unlink", "bind"} => pid_file' = d
                   /\ daemon'[d] \in {"look", "unlink", "bind"} => bin_file' = version'[d]
                   /\ daemon'[d] = "unlink" => socket' # None
                   /\ daemon'[d] = "bind" => socket' = None
                   /\ daemon'[d] \in Stopping => socket' = d
      <4>1. \A e \in Daemons \ {d} : daemon'[e] \notin Starting \cup Stopping \cup {"serving"}
        BY <3>1, <2>2 DEF InTransit
      <4>2. FilesMatch'
        BY <3>3, <4>1 DEF FilesMatch, Starting
      <4> QED BY <4>2, <2>4, <3>2
    <3>4. CASE RemoveStalePid(d) \/ TruncatePid(d) \/ WritePid(d)
      BY <3>4 DEF RemoveStalePid, TruncatePid, WritePid, Step, TypeOK, FilesMatch, Stopping
    <3>5. CASE WriteBin(d) \/ Look(d)
      BY <3>5 DEF WriteBin, Look, Step, TypeOK, FilesMatch, Stopping
    <3>6. CASE Unlink(d) \/ Bind(d)
      BY <3>6 DEF Unlink, Bind, Step, TypeOK, FilesMatch, Registered, Stopping
    <3>7. CASE StopAll(d) \/ RemovePid(d) \/ RemoveBin(d) \/ RemoveSocket(d)
      BY <3>7 DEF StopAll, RemovePid, RemoveBin, RemoveSocket, Step, TypeOK, FilesMatch, Stopping
    <3> QED BY <1>1, <2>1, <2>6, <3>4, <3>5, <3>6, <3>7 DEF DaemonStep
  <2> QED BY <2>5, <2>6
<1>2. ASSUME NEW d \in Daemons, Answers(d), Cancel(d), UNCHANGED <<files, version>> PROVE Turns'
  <2>1. /\ daemon[d] \in {"serving", "stopping"} /\ daemon'[d] = "stopping"
        /\ \A e \in Daemons \ {d} : daemon'[e] = daemon[e] /\ ~InTransit(e)
    BY <1>2 DEF Answers, Cancel, TypeOK
  <2>2. socket = d
    BY <2>1 DEF FilesMatch, Registered, Stopping
  <2>3. \A e \in Daemons \ {d} : daemon[e] # "serving"
    BY <2>1 DEF OneServes, OthersOnlyCheck, InTransit, Stopping
  <2>4. \A e \in Daemons \ {d} : daemon'[e] \notin Starting \cup Stopping \cup {"serving"}
    BY <2>1, <2>3 DEF InTransit
  <2>5. FilesMatch'
    BY <1>2, <2>1, <2>2, <2>4 DEF FilesMatch, Starting
  <2> QED BY <2>1, <2>4, <2>5 DEF OneInTransit, OneServes, OthersOnlyCheck, InTransit
<1>3. ASSUME NEW d \in Daemons, Crash(d) PROVE Turns'
  <2>1. /\ UNCHANGED <<files, version>> /\ daemon'[d] = "crashed"
        /\ \A e \in Daemons \ {d} : daemon'[e] = daemon[e]
    BY <1>3 DEF Crash, TypeOK
  <2>2. OneInTransit' /\ OneServes' /\ OthersOnlyCheck'
    BY <2>1 DEF OneInTransit, OneServes, OthersOnlyCheck, InTransit, Starting, Stopping
  <2>3. FilesMatch'
    BY <2>1 DEF FilesMatch, Registered, Stopping
  <2> QED BY <2>2, <2>3
<1>4. ASSUME NEW k \in Procs, NEW d \in Daemons, Spawn(k, d) PROVE Turns'
  <2>1. /\ UNCHANGED files /\ daemon'[d] = "check" /\ daemon[d] = "unborn"
        /\ \A e \in Daemons \ {d} : daemon'[e] = daemon[e] /\ version'[e] = version[e]
        /\ \A e \in Daemons : ~InTransit(e)
    BY <1>4 DEF Spawn, TypeOK
  <2>2. OneInTransit' /\ OneServes' /\ OthersOnlyCheck'
    BY <2>1 DEF OneInTransit, OneServes, OthersOnlyCheck, InTransit
  <2>3. FilesMatch'
    BY <2>1 DEF FilesMatch, Registered, Stopping
  <2> QED BY <2>2, <2>3
<1>5. CASE UNCHANGED <<files, daemon, version>>
  BY <1>5 DEF OneInTransit, OneServes, OthersOnlyCheck, FilesMatch, Registered, InTransit
<1>6. ASSUME NEW d \in Daemons, Signal(d) PROVE Turns'
  BY <1>2, <1>6, NoDaemonNames DEF Signal, Answers
<1>7. ASSUME NEW k \in Procs, RequestShutdown(k) PROVE Turns'
  <2>1. Target(k) \in Daemons
    BY <1>7 DEF RequestShutdown, Target, Answers, TypeOK
  <2> QED BY <1>2, <1>7, <2>1 DEF RequestShutdown
<1> QED BY <1>1, <1>3, <1>4, <1>5, <1>6, <1>7
        DEF Next, ProcStep, vars, Install, ReusePid, Begin, PingAnswered, PingUnanswered,
            CheckStale, ShutdownNotRunning, ShutdownFails, Wait, WaitTimesOut, AwaitExit,
            AwaitReady, AwaitTimesOut

-----------------------------------------------------------------------------
(* Commands that only start daemons. *)

Undisturbed == OneCommand /\ Attended /\ Replaces

\* A command that is neither waiting for its child nor for an old daemon to go
\* finds none starting or stopping.
LEMMA NoneInTransit ==
    ASSUME TypeOK, Undisturbed, NEW k \in Procs, Busy(k), pc[k] \notin {"await", "wait"}
    PROVE  \A d \in Daemons : ~InTransit(d)
  BY DEF Undisturbed, OneCommand, Attended, InTransit, Busy, Ended

\* The steps of a daemon.
LEMMA DaemonUndisturbed ==
    ASSUME TypeOK, calm, Turns, Undisturbed, NEW d \in Daemons, DaemonStep(d), undisturbed'
    PROVE  calm' /\ Undisturbed'
<1> USE DEF Undisturbed
<1>1. /\ UNCHANGED <<procs, calm>> /\ InTransit(d)
      /\ \A e \in Daemons \ {d} : daemon'[e] = daemon[e]
      /\ daemon[d] \in Starting => daemon'[d] \in Starting \cup {"serving", "refused"}
      /\ daemon[d] \in Stopping => daemon'[d] \in Stopping \cup {"exited"}
  BY DEF DaemonStep, Step, CheckPid, RemoveStalePid, TruncatePid, WritePid, WriteBin, WriteBinFails,
         Look, Unlink, Bind, StopAll, RemovePid, RemoveBin, RemoveSocket, InTransit, Starting,
         Stopping, TypeOK
<1>2. OneCommand'
  BY <1>1 DEF OneCommand, Busy, procs
<1>3. CASE daemon[d] \in Starting
  <2>1. PICK k \in Procs : pc[k] = "await" /\ child[k] = d
    BY <1>3 DEF Attended
  <2>2. \A j \in Procs : pc[j] \in {"await", "wait", "spawn"} => j = k
    BY <2>1 DEF OneCommand, Busy, Ended
  <2>3. Attended'
    BY <1>1, <1>3, <2>1 DEF Attended, procs, Starting, Stopping
  <2>4. \A e \in Daemons : daemon[e] # "serving"
    BY <2>1, <1>3 DEF Replaces, Starting
  <2>5. Replaces'
    BY <1>1, <1>3, <2>1, <2>2, <2>4 DEF Replaces, procs, Starting
  <2> QED BY <1>1, <1>2, <2>3, <2>5
<1>4. CASE daemon[d] \in Stopping
  <2>1. PICK k \in Procs : pc[k] = "wait"
    BY <1>4 DEF Attended
  <2>2. \A j \in Procs : pc[j] # "await"
    BY <2>1 DEF OneCommand, Busy, Ended
  <2>3. Attended'
    BY <1>1, <1>4, <2>1 DEF Attended, procs, Starting, Stopping
  <2>4. Replaces'
    BY <1>1, <1>4, <2>2 DEF Replaces, procs, Stopping
  <2> QED BY <1>1, <1>2, <2>3, <2>4
<1> QED BY <1>1, <1>3, <1>4 DEF InTransit

LEMMA UndisturbedStep ==
    ASSUME TypeOK, calm, Turns, undisturbed, Undisturbed, [Next]_vars, undisturbed'
    PROVE  calm' /\ Undisturbed'
<1> USE DEF Undisturbed
<1>1. ASSUME NEW d \in Daemons, DaemonStep(d) PROVE calm' /\ Undisturbed'
  BY <1>1, DaemonUndisturbed
<1>2. ASSUME NEW d \in Daemons, Crash(d) \/ ReusePid(d) \/ Install \/ Signal(d)
      PROVE  calm' /\ Undisturbed'
  <2>1. UNCHANGED <<procs, calm>> /\ \A e \in Daemons : daemon'[e] \in {daemon[e], "crashed"}
    BY <1>2 DEF Crash, ReusePid, Install, Signal, TypeOK
  <2> QED BY <2>1 DEF OneCommand, Attended, Replaces, Busy, procs, Starting, Stopping
<1>3. ASSUME NEW k \in Procs, NEW c \in Commands, Begin(k, c) PROVE calm' /\ Undisturbed'
  <2>1. /\ UNCHANGED <<daemon, calm>> /\ c \in {"start", "ensure"} /\ pc'[k] = "ping" /\ cmd'[k] = c
        /\ \A j \in Procs : ~Busy(j)
        /\ \A j \in Procs \ {k} : pc'[j] = pc[j] /\ cmd'[j] = cmd[j] /\ child'[j] = child[j]
    BY <1>3 DEF Begin, TypeOK
  <2>2. OneCommand'
    BY <2>1 DEF OneCommand, Busy, Ended
  <2>3. \A d \in Daemons : ~InTransit(d)
    BY <2>1 DEF Attended, InTransit, Busy, Ended
  <2> QED BY <2>1, <2>2, <2>3 DEF Attended, Replaces, InTransit, Busy, Ended
<1>4. ASSUME NEW k \in Procs, UNCHANGED <<child, calm, daemon>>, Busy(k), pc[k] # "wait",
             \A j \in Procs \ {k} : pc'[j] = pc[j] /\ cmd'[j] = cmd[j],
             \A d \in Daemons : daemon[d] \notin Starting,
             \/ pc'[k] \in Ended
             \/ pc'[k] \in {"stale", "shutdown"} /\ cmd'[k] = "ensure" /\ cmd[k] = "ensure"
             \/ /\ pc'[k] = "spawn" /\ cmd'[k] = cmd[k]
                /\ \A d \in Daemons : daemon[d] # "serving"
      PROVE  calm' /\ Undisturbed'
  <2>1. OneCommand'
    BY <1>4 DEF OneCommand, Busy, Ended
  <2>2. Attended'
    BY <1>4 DEF Attended, Starting, Stopping
  <2>3. Replaces'
    BY <1>4 DEF Replaces, Ended
  <2> QED BY <1>4, <2>1, <2>2, <2>3
<1>5. ASSUME NEW k \in Procs, PingAnswered(k) \/ PingUnanswered(k) \/ CheckStale(k)
                              \/ ShutdownNotRunning(k)
      PROVE  calm' /\ Undisturbed'
  <2>1. pc[k] \in {"ping", "stale", "shutdown"} /\ Busy(k) /\ UNCHANGED <<child, calm, daemon>>
        /\ \A j \in Procs \ {k} : pc'[j] = pc[j] /\ cmd'[j] = cmd[j]
    BY <1>5 DEF PingAnswered, PingUnanswered, CheckStale, ShutdownNotRunning, Goto, Busy, Ended,
                TypeOK
  <2>2. cmd[k] \in {"start", "ensure"} /\ (pc[k] # "ping" => cmd[k] = "ensure")
    BY <2>1 DEF OneCommand
  <2>3. \A d \in Daemons : daemon[d] \notin Starting
    BY <2>1, NoneInTransit DEF InTransit
  <2>4. CASE PingAnswered(k)
    <3>1. \/ pc'[k] = "ok"
          \/ pc'[k] = "stale" /\ cmd'[k] = "ensure" /\ cmd[k] = "ensure"
      BY <2>2, <2>4 DEF PingAnswered, Goto, TypeOK, Ended
    <3> QED BY <1>4, <2>1, <2>3, <3>1 DEF Ended
  <2>5. CASE PingUnanswered(k)
    <3>1. \A d \in Daemons : daemon[d] # "serving"
      BY <2>5, NoDaemonNames DEF PingUnanswered, Answers, FilesMatch, Registered, Turns
    <3>2. pc'[k] = "disabled" \/ (pc'[k] = "spawn" /\ cmd'[k] = cmd[k])
      <4>1. Goto(k, "spawn") \/ Goto(k, "disabled")
        BY <2>5 DEF PingUnanswered
      <4>2. Goto(k, "spawn") => pc'[k] = "spawn" /\ cmd'[k] = cmd[k]
        BY DEF Goto, TypeOK, Ended
      <4>3. Goto(k, "disabled") => pc'[k] = "disabled"
        BY DEF Goto, TypeOK
      <4> QED BY <4>1, <4>2, <4>3
    <3> QED BY <1>4, <2>1, <2>3, <3>1, <3>2 DEF Ended
  <2>6. CASE CheckStale(k)
    <3>1. \/ pc'[k] = "ok"
          \/ pc'[k] = "shutdown" /\ cmd'[k] = "ensure" /\ cmd[k] = "ensure"
      BY <2>2, <2>6 DEF CheckStale, Goto, TypeOK, Ended
    <3> QED BY <1>4, <2>1, <2>3, <3>1 DEF Ended
  <2>7. CASE ShutdownNotRunning(k)
    <3>1. pc'[k] = "ok"
      BY <2>2, <2>7 DEF ShutdownNotRunning, Goto, TypeOK
    <3> QED BY <1>4, <2>1, <2>3, <3>1 DEF Ended
  <2> QED BY <1>5, <2>4, <2>5, <2>6, <2>7
<1>6. ASSUME NEW k \in Procs, RequestShutdown(k) PROVE calm' /\ Undisturbed'
  <2> DEFINE t == Target(k)
  <2>1. /\ pc[k] = "shutdown" /\ Busy(k) /\ cmd[k] = "ensure"
    BY <1>6 DEF RequestShutdown, Busy, Ended, OneCommand
  <2>2. \A d \in Daemons : ~InTransit(d)
    BY <2>1, NoneInTransit
  <2>3. t \in Daemons /\ daemon[t] = "serving"
    BY <1>6, <2>2 DEF RequestShutdown, Target, Answers, TypeOK, InTransit, Stopping
  <2>4. Cancel(t) /\ Goto(k, "wait") /\ child' = child
    BY <1>6 DEF RequestShutdown
  <2> HIDE DEF t
  <2>5. /\ calm' /\ daemon'[t] = "stopping" /\ \A d \in Daemons \ {t} : daemon'[d] = daemon[d]
        /\ \A d \in Daemons \ {t} : daemon[d] # "serving"
    BY <2>2, <2>3, <2>4 DEF Cancel, TypeOK, Turns, OneServes
  <2>6. /\ pc'[k] = "wait" /\ cmd'[k] = "ensure"
        /\ \A j \in Procs \ {k} : pc'[j] = pc[j] /\ cmd'[j] = cmd[j] /\ ~Busy(j)
    BY <2>1, <2>4 DEF Goto, TypeOK, Ended, OneCommand
  <2>7. OneCommand'
    BY <2>6 DEF OneCommand, Busy, Ended
  <2>8. Attended'
    BY <2>2, <2>5, <2>6 DEF Attended, InTransit, Starting
  <2>9. Replaces'
    BY <2>5, <2>6 DEF Replaces, Busy, Ended
  <2> QED BY <2>5, <2>7, <2>8, <2>9
<1>7. ASSUME NEW k \in Procs, Wait(k) PROVE calm' /\ Undisturbed'
  <2>1. pc[k] = "wait" /\ Busy(k) /\ cmd[k] = "ensure" /\ socket = None
        /\ UNCHANGED <<child, calm, daemon>> /\ Goto(k, "spawn")
    BY <1>7 DEF Wait, Gone, Busy, Ended, OneCommand
  <2>2. \A d \in Daemons : ~InTransit(d)
    BY <2>1, NoDaemonNames DEF Attended, InTransit, OneCommand, Busy, Ended, Turns, FilesMatch
  <2>3. \A d \in Daemons : daemon[d] # "serving"
    BY <2>1 DEF Replaces
  <2>4. /\ pc'[k] = "spawn" /\ cmd'[k] = "ensure"
        /\ \A j \in Procs \ {k} : pc'[j] = pc[j] /\ cmd'[j] = cmd[j] /\ ~Busy(j)
    BY <2>1 DEF Goto, TypeOK, Ended, OneCommand
  <2>5. OneCommand'
    BY <2>4 DEF OneCommand, Busy, Ended
  <2>6. Attended'
    BY <2>1, <2>2 DEF Attended, InTransit
  <2>7. Replaces'
    BY <2>1, <2>3, <2>4 DEF Replaces, Busy, Ended
  <2> QED BY <2>1, <2>5, <2>6, <2>7
<1>8. ASSUME NEW k \in Procs, NEW d \in Daemons, Spawn(k, d) PROVE calm' /\ Undisturbed'
  <2>1. pc[k] = "spawn" /\ Busy(k) /\ daemon'[d] = "check"
        /\ \A e \in Daemons \ {d} : daemon'[e] = daemon[e]
    BY <1>8 DEF Spawn, Busy, Ended, TypeOK
  <2>2. \A e \in Daemons : ~InTransit(e) /\ daemon[e] # "serving"
    BY <2>1, NoneInTransit DEF Replaces
  <2>3. /\ pc'[k] = "await" /\ cmd'[k] = cmd[k] /\ child'[k] = d
        /\ \A j \in Procs \ {k} : pc'[j] = pc[j] /\ cmd'[j] = cmd[j] /\ ~Busy(j)
    BY <1>8, <2>1 DEF Spawn, Goto, TypeOK, Ended, OneCommand
  <2>4. calm'
    BY <1>8, <2>2 DEF Spawn
  <2>5. OneCommand'
    BY <2>1, <2>3 DEF OneCommand, Busy, Ended
  <2>6. Attended'
    BY <2>1, <2>2, <2>3 DEF Attended, InTransit, Stopping
  <2>7. Replaces'
    BY <2>1, <2>2, <2>3 DEF Replaces, Busy, Ended
  <2> QED BY <2>4, <2>5, <2>6, <2>7
<1>9. ASSUME NEW k \in Procs, AwaitExit(k) \/ AwaitReady(k) PROVE calm' /\ Undisturbed'
  <2>1. pc[k] = "await" /\ Busy(k) /\ UNCHANGED <<child, calm, daemon>>
        /\ child[k] \in Daemons /\ pc'[k] \in Ended
        /\ \A j \in Procs \ {k} : pc'[j] = pc[j] /\ cmd'[j] = cmd[j]
    <3>1. pc[k] = "await" /\ Busy(k) /\ UNCHANGED <<child, calm, daemon>> /\ child[k] \in Daemons
      BY <1>9 DEF AwaitExit, AwaitReady, Busy, Ended, Replaces
    <3>2. CASE AwaitExit(k)
      BY <3>1, <3>2 DEF AwaitExit, Goto, Ended, TypeOK
    <3>3. CASE AwaitReady(k)
      BY <3>1, <3>3 DEF AwaitReady, Goto, Ended, TypeOK
    <3> QED BY <1>9, <3>1, <3>2, <3>3
  <2>2. \A d \in Daemons : daemon[d] \in Starting => d = child[k]
    BY <2>1 DEF Attended, OneCommand, Busy, Ended
  <2>3. \A d \in Daemons : daemon[d] \notin Stopping
    BY <2>1 DEF Attended, OneCommand, Busy, Ended
  <2>4. daemon[child[k]] \notin Starting
    <3>1. CASE AwaitExit(k)
      BY <3>1 DEF AwaitExit, Dead, Starting
    <3>2. CASE AwaitReady(k)
      <4>1. socket \in Daemons /\ daemon[socket] = "serving"
        BY <3>2, <2>3 DEF AwaitReady, Answers, TypeOK, Stopping
      <4> QED BY <2>1, <4>1 DEF Replaces, Starting
    <3> QED BY <1>9, <3>1, <3>2
  <2> QED BY <1>4, <2>1, <2>2, <2>4
<1>10. ASSUME NEW k \in Procs, ShutdownFails(k) \/ WaitTimesOut(k) \/ AwaitTimesOut(k)
       PROVE  calm' /\ Undisturbed'
  BY <1>10 DEF ShutdownFails, WaitTimesOut, AwaitTimesOut
<1>11. CASE Install \/ UNCHANGED vars
  <2>1. UNCHANGED <<pc, cmd, child, daemon, calm>>
    BY <1>11 DEF Install, vars, procs
  <2> QED BY <2>1 DEF OneCommand, Attended, Replaces, Busy
<1> QED BY <1>1, <1>2, <1>3, <1>5, <1>6, <1>7, <1>8, <1>9, <1>10, <1>11 DEF Next, ProcStep

\* Whatever files crashed daemons have left, a start gets past them.
LEMMA NotRefusedStep ==
    ASSUME TypeOK, PidWasWritten, calm, Turns, undisturbed, Undisturbed, reused = {}, NotRefused,
           [Next]_vars, undisturbed'
    PROVE  NotRefused'
<1> USE DEF Undisturbed
<1>1. ASSUME NEW d \in Daemons, DaemonStep(d) PROVE NotRefused'
  <2>1. UNCHANGED procs /\ InTransit(d) /\ \A e \in Daemons \ {d} : daemon'[e] = daemon[e]
    BY <1>1 DEF DaemonStep, Step, CheckPid, RemoveStalePid, TruncatePid, WritePid, WriteBin,
          WriteBinFails, Look, Unlink, Bind, StopAll, RemovePid, RemoveBin, RemoveSocket, InTransit,
          Starting, Stopping, TypeOK
  <2>2. ASSUME CheckPid(d), pid_file \in Daemons PROVE ~is_process_alive(pid_file)
    <3>1. daemon[d] = "check" /\ d # pid_file
      BY <2>2 DEF CheckPid, Step, PidWasWritten, Unwritten
    <3>2. ~InTransit(pid_file)
      BY <2>1, <2>2, <3>1 DEF Turns, OneInTransit
    <3>3. PICK k \in Procs : pc[k] = "await" /\ child[k] = d
      BY <3>1 DEF Attended, Starting
    <3>4. daemon[pid_file] # "serving"
      BY <2>2, <3>1, <3>3 DEF Replaces
    <3> QED BY <3>2, <3>4 DEF is_process_alive, Live
  <2>3. daemon'[d] # "refused"
    <3>1. CASE CheckPid(d)
      BY <3>1, <2>2 DEF CheckPid, Step, TypeOK
    <3>2. CASE Unlink(d) \/ Bind(d)
      BY <3>2 DEF Unlink, Bind, Step, TypeOK, Turns, FilesMatch
    <3>3. CASE RemoveStalePid(d) \/ TruncatePid(d) \/ WritePid(d) \/ WriteBin(d)
               \/ WriteBinFails(d) \/ Look(d) \/ StopAll(d) \/ RemovePid(d) \/ RemoveBin(d)
               \/ RemoveSocket(d)
      BY <3>3 DEF RemoveStalePid, TruncatePid, WritePid, WriteBin, WriteBinFails, Look, StopAll,
                  RemovePid, RemoveBin, RemoveSocket, Step, TypeOK
    <3> QED BY <1>1, <3>1, <3>2, <3>3 DEF DaemonStep
  <2>4. daemon[d] # "crashed"
    BY <2>1 DEF InTransit, Starting, Stopping
  <2> QED BY <2>1, <2>3, <2>4 DEF NotRefused, Replaces, procs
<1>2. ASSUME NEW d \in Daemons, Crash(d) PROVE NotRefused'
  <2>1. UNCHANGED procs /\ daemon'[d] = "crashed" /\ \A e \in Daemons \ {d} : daemon'[e] = daemon[e]
    BY <1>2 DEF Crash, TypeOK
  <2> QED BY <2>1 DEF NotRefused, Replaces, procs
<1>3. ASSUME NEW k \in Procs, NEW c \in Commands, Begin(k, c) PROVE NotRefused'
  <2>1. /\ UNCHANGED daemon /\ pc'[k] \in {"ping", "shutdown"}
        /\ \A j \in Procs \ {k} : pc'[j] = pc[j] /\ child'[j] = child[j]
    BY <1>3 DEF Begin, TypeOK
  <2> QED BY <2>1 DEF NotRefused
<1>4. ASSUME NEW k \in Procs, RequestShutdown(k) PROVE NotRefused'
  <2> DEFINE t == Target(k)
  <2>1. t \in Daemons /\ daemon[t] \in {"serving", "stopping"} /\ Cancel(t)
    BY <1>4 DEF RequestShutdown, Target, Answers, TypeOK
  <2> HIDE DEF t
  <2>2. daemon'[t] = "stopping" /\ \A d \in Daemons \ {t} : daemon'[d] = daemon[d]
    BY <2>1 DEF Cancel, TypeOK
  <2>3. /\ UNCHANGED child /\ pc'[k] = "wait" /\ \A j \in Procs \ {k} : pc'[j] = pc[j]
    BY <1>4 DEF RequestShutdown, Goto, TypeOK
  <2> QED BY <2>1, <2>2, <2>3 DEF NotRefused, Replaces
<1>5. ASSUME NEW k \in Procs, NEW d \in Daemons, Spawn(k, d) PROVE NotRefused'
  <2>1. /\ daemon[d] = "unborn" /\ daemon'[d] = "check"
        /\ \A e \in Daemons \ {d} : daemon'[e] = daemon[e]
        /\ pc'[k] = "await" /\ child'[k] = d
        /\ \A j \in Procs \ {k} : pc'[j] = pc[j] /\ child'[j] = child[j]
    BY <1>5 DEF Spawn, Goto, TypeOK
  <2> QED BY <2>1 DEF NotRefused, Replaces
<1>6. ASSUME NEW k \in Procs, AwaitExit(k) PROVE NotRefused'
  <2>1. child[k] \in Daemons /\ daemon[child[k]] = "crashed"
    BY <1>6 DEF AwaitExit, Dead, Replaces, NotRefused
  <2>2. UNCHANGED <<daemon, child>> /\ \A j \in Procs \ {k} : pc'[j] = pc[j]
    BY <1>6 DEF AwaitExit, Goto, TypeOK
  <2> QED BY <2>1, <2>2 DEF NotRefused
<1>7. ASSUME NEW k \in Procs, UNCHANGED <<daemon, child>>, \A j \in Procs \ {k} : pc'[j] = pc[j],
             pc'[k] \notin {"await", "failed"}
      PROVE  NotRefused'
  BY <1>7 DEF NotRefused
<1>8. ASSUME NEW k \in Procs, PingAnswered(k) \/ PingUnanswered(k) \/ CheckStale(k)
                              \/ ShutdownNotRunning(k) \/ Wait(k) \/ AwaitReady(k)
      PROVE  NotRefused'
  <2>1. UNCHANGED <<daemon, child>> /\ \A j \in Procs \ {k} : pc'[j] = pc[j]
    BY <1>8 DEF PingAnswered, PingUnanswered, CheckStale, ShutdownNotRunning, Wait, AwaitReady,
                Goto, TypeOK
  <2>2. \E p \in {"stale", "shutdown", "ok", "spawn", "disabled"} : Goto(k, p)
    BY <1>8 DEF PingAnswered, PingUnanswered, CheckStale, ShutdownNotRunning, Wait, AwaitReady
  <2>3. pc'[k] \notin {"await", "failed"}
    BY <2>2 DEF Goto, TypeOK
  <2> QED BY <2>1, <2>3, <1>7
<1>9. ASSUME NEW k \in Procs, ShutdownFails(k) \/ WaitTimesOut(k) \/ AwaitTimesOut(k)
      PROVE  NotRefused'
  BY <1>9 DEF ShutdownFails, WaitTimesOut, AwaitTimesOut
<1>10. ASSUME NEW d \in Daemons, Signal(d) PROVE NotRefused'
  BY <1>10 DEF Signal
<1>11. CASE UNCHANGED <<daemon, procs>>
  BY <1>11 DEF NotRefused, procs
<1> QED BY <1>1, <1>2, <1>3, <1>4, <1>5, <1>6, <1>8, <1>9, <1>10, <1>11
        DEF Next, ProcStep, vars, Install, ReusePid

-----------------------------------------------------------------------------
(* The theorems. *)

LEMMA HistoryStep ==
    ASSUME [Next]_vars
    PROVE  (calm' => calm) /\ (undisturbed' => undisturbed) /\ (reused' = {} => reused = {})
<1> USE DEF Next, DaemonStep, Step, CheckPid, RemoveStalePid, TruncatePid, WritePid, WriteBin,
        WriteBinFails, Look, Unlink, Bind, StopAll, RemovePid, RemoveBin, RemoveSocket, Signal,
        Cancel, Crash, ReusePid, Install, Begin, ProcStep, PingAnswered, PingUnanswered,
        CheckStale, RequestShutdown, ShutdownNotRunning, ShutdownFails, Wait, WaitTimesOut,
        Spawn, AwaitExit, AwaitReady, AwaitTimesOut, vars
<1>1. ASSUME calm' PROVE calm
  BY <1>1
<1>2. ASSUME undisturbed' PROVE undisturbed
  BY <1>2
<1>3. ASSUME reused' = {} PROVE reused = {}
  BY <1>3
<1> QED BY <1>1, <1>2, <1>3

\* LifeInv is inductive.
THEOREM LifeInvariant == Spec => []LifeInv
<1>1. Init => LifeInv
  <2> SUFFICES ASSUME Init PROVE LifeInv
    OBVIOUS
  <2>1. TypeOK
    BY Versioned DEF Init, TypeOK, Ended
  <2>2. PidWasWritten
    BY NoDaemonNames DEF Init, PidWasWritten
  <2>3. Turns
    BY DEF Init, Turns, OneInTransit, OneServes, OthersOnlyCheck, FilesMatch, InTransit, Starting,
           Stopping
  <2>4. calm /\ OneCommand /\ Attended /\ Replaces /\ NotRefused
    BY DEF Init, OneCommand, Attended, Replaces, NotRefused, Busy, Ended, Starting, Stopping
  <2> QED BY <2>1, <2>2, <2>3, <2>4 DEF LifeInv
<1>2. LifeInv /\ [Next]_vars => LifeInv'
  <2> SUFFICES ASSUME LifeInv, [Next]_vars PROVE LifeInv'
    OBVIOUS
  <2>1. TypeOK' /\ PidWasWritten'
    BY TypeStep, PidStep DEF LifeInv
  <2>2. ASSUME calm' PROVE Turns'
    BY <2>2, HistoryStep, TurnsStep DEF LifeInv
  <2>3. ASSUME undisturbed' PROVE calm' /\ OneCommand' /\ Attended' /\ Replaces'
    BY <2>3, HistoryStep, UndisturbedStep DEF LifeInv, Undisturbed
  <2>4. ASSUME undisturbed', reused' = {} PROVE NotRefused'
    BY <2>4, HistoryStep, NotRefusedStep DEF LifeInv, Undisturbed
  <2> QED BY <2>1, <2>2, <2>3, <2>4 DEF LifeInv
<1> QED BY <1>1, <1>2, PTL DEF Spec

\* Every variable of the daemon's life cycle has its type.
THEOREM LifecycleTypeCorrect == Spec => []TypeOK
<1>1. LifeInv => TypeOK
  BY DEF LifeInv
<1> QED BY <1>1, LifeInvariant, PTL

\* While nobody starts or stops a daemon with another one on its way, a serving
\* daemon is the only one and all three files are its own, whoever crashed before.
THEOREM TheFilesTell == Spec => []ServingIsKnown
<1>1. LifeInv => ServingIsKnown
  BY DEF LifeInv, Turns, OneServes, FilesMatch, Registered, ServingIsKnown
<1> QED BY <1>1, LifeInvariant, PTL

\* Starting and upgrading the daemon, one command at a time, keeps to that.
THEOREM UpgradesKeepCalm == Spec => []UpgradeIsCalm
<1>1. LifeInv => UpgradeIsCalm
  BY DEF LifeInv, UpgradeIsCalm
<1> QED BY <1>1, LifeInvariant, PTL

\* Then a start fails only if the daemon it spawned crashes.
THEOREM StartsGetPast == Spec => []StartGetsPast
<1>1. LifeInv => StartGetsPast
  BY DEF LifeInv, NotRefused, StartGetsPast
<1> QED BY <1>1, LifeInvariant, PTL

=============================================================================
