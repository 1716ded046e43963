--------------------------- MODULE DaemonLifecycle ---------------------------
(***************************************************************************)
(* How kild-daemon starts, is found, is replaced and goes away: the three  *)
(* files that stand for it (daemon.pid, daemon.bin, daemon.sock), the      *)
(* start and the clean-up of run_server, and the commands that start and   *)
(* stop it: `kild daemon start`, `restart`, `stop`, and the automatic      *)
(* start of every other command (ensure_daemon_running).                   *)
(*                                                                         *)
(* No lock protects the files.  Every access to one of them is a step, so  *)
(* any number of commands and daemons interleave, and a daemon may crash   *)
(* (or fail to bind its TCP port) between any two steps and leave what it  *)
(* has written.  A daemon is named by its pid; what it serves is           *)
(* DaemonStore.                                                            *)
(***************************************************************************)
EXTENDS Naturals, FiniteSets

CONSTANTS Procs,       \* `kild` processes
          Daemons,     \* daemon processes ever spawned (a bound)
          None,        \* no file, no daemon
          Empty,       \* a pid file that is truncated and not yet written
          MaxVersion   \* bound: versions of the binary ever installed

ASSUME NoDaemonNames == None \notin Daemons /\ Empty \notin Daemons /\ None # Empty
ASSUME Versioned == MaxVersion \in Nat /\ None \notin Nat

VARIABLES pid_file,    \* daemon.pid: whose pid it holds
          bin_file,    \* daemon.bin: the version of the binary it names
          socket,      \* daemon.sock: whose listener it leads to
          installed,   \* the version of the binary on disk
          reused,      \* dead daemons whose pid another program has got
          daemon,      \* what each daemon does next
          version,     \* the version each daemon runs
          pc,          \* what each process does next, or how its command ended
          cmd,         \* the command it runs
          child,       \* the daemon it has spawned
          peer,        \* the daemon its pooled connection leads to
          calm,        \* history: no daemon was started or told to stop while
                       \* another one was starting or stopping, and every
                       \* daemon could write its bin file
          undisturbed  \* history: only commands that start a daemon, one at a
                       \* time, no signal, no time-out, no failed write

files == <<pid_file, bin_file, socket>>
procs == <<pc, cmd, child, peer>>
vars == <<files, installed, reused, daemon, version, procs, calm, undisturbed>>

-----------------------------------------------------------------------------
Starting == {"check", "remove_stale", "truncate_pid", "write_pid", "write_bin",
             "look", "unlink", "bind"}
Stopping == {"stopping", "remove_pid", "remove_bin", "remove_socket"}
Dead == {"exited", "refused", "crashed"}

InTransit(d) == daemon[d] \in Starting \cup Stopping
Live(d) == daemon[d] = "serving" \/ InTransit(d)

\* is_process_alive: kill(pid, 0) finds whoever has the pid.
is_process_alive(d) == Live(d) \/ d \in reused

\* Its accept loop runs, or has been told to stop and has not noticed yet.
Answers(d) == d # None /\ daemon[d] \in {"serving", "stopping"}

\* A connection to it is accepted, by the kernel at least.
Listens(d) == d # None /\ Live(d)

Ended == {"ok", "failed", "disabled"}
Commands == {"start", "foreground", "restart", "stop", "ensure"}

Busy(k) == pc[k] \notin Ended

Init ==
    /\ pid_file = None /\ bin_file = None /\ socket = None
    /\ installed = 0
    /\ reused = {}
    /\ daemon = [d \in Daemons |-> "unborn"]
    /\ version = [d \in Daemons |-> 0]
    /\ pc = [k \in Procs |-> "ok"]
    /\ cmd = [k \in Procs |-> "none"]
    /\ child = [k \in Procs |-> None]
    /\ peer = [k \in Procs |-> None]
    /\ calm = TRUE
    /\ undisturbed = TRUE

-----------------------------------------------------------------------------
(* run_server. *)

Step(d, from, to) ==
    /\ daemon[d] = from
    /\ daemon' = [daemon EXCEPT ![d] = to]
    /\ UNCHANGED <<installed, reused, version, procs, undisturbed>>

\* Mutant: a pid file is taken for stale without asking for the process.
CheckNobody(d) ==
    /\ Step(d, "check", IF pid_file \notin Daemons THEN "truncate_pid"
                        ELSE "remove_stale")
    /\ UNCHANGED <<files, calm>>

\* check_daemon_running reads the pid file.  An unreadable one is no daemon.
CheckPid(d) ==
    /\ Step(d, "check", IF pid_file \notin Daemons THEN "truncate_pid"
                        ELSE IF is_process_alive(pid_file) THEN "refused"
                        ELSE "remove_stale")
    /\ UNCHANGED <<files, calm>>

\* The file of a dead process is removed, by its path.
RemoveStalePid(d) ==
    /\ Step(d, "remove_stale", "truncate_pid")
    /\ pid_file' = None
    /\ UNCHANGED <<bin_file, socket, calm>>

\* write_pid_file: fs::write truncates, then writes.
TruncatePid(d) ==
    /\ Step(d, "truncate_pid", "write_pid")
    /\ pid_file' = Empty
    /\ UNCHANGED <<bin_file, socket, calm>>

WritePid(d) ==
    /\ Step(d, "write_pid", "write_bin")
    /\ pid_file' = d
    /\ UNCHANGED <<bin_file, socket, calm>>

WriteBin(d) ==
    /\ Step(d, "write_bin", "look")
    /\ bin_file' = version[d]
    /\ UNCHANGED <<pid_file, socket, calm>>

\* A failure is only logged.
WriteBinFails(d) ==
    /\ daemon[d] = "write_bin"
    /\ daemon' = [daemon EXCEPT ![d] = "look"]
    /\ calm' = FALSE /\ undisturbed' = FALSE
    /\ UNCHANGED <<files, installed, reused, version, procs>>

\* Mutant: a socket file that is there is taken for a running daemon.
LookAndLeave(d) ==
    /\ Step(d, "look", IF socket = None THEN "bind" ELSE "refused")
    /\ UNCHANGED <<files, calm>>

\* socket_path.exists()
Look(d) ==
    /\ Step(d, "look", IF socket = None THEN "bind" ELSE "unlink")
    /\ UNCHANGED <<files, calm>>

\* Removing it fails when it has gone meanwhile, which ends the daemon.
Unlink(d) ==
    /\ Step(d, "unlink", IF socket = None THEN "refused" ELSE "bind")
    /\ socket' = None
    /\ UNCHANGED <<pid_file, bin_file, calm>>

\* So does binding a path where something is.
Bind(d) ==
    /\ Step(d, "bind", IF socket = None THEN "serving" ELSE "refused")
    /\ socket' = IF socket = None THEN d ELSE socket
    /\ UNCHANGED <<pid_file, bin_file, calm>>

\* The loop ends, stop_all runs, and cleanup removes the three files, whoever
\* wrote them.
StopAll(d) ==
    /\ Step(d, "stopping", "remove_pid")
    /\ UNCHANGED <<files, calm>>

RemovePid(d) ==
    /\ Step(d, "remove_pid", "remove_bin")
    /\ pid_file' = None
    /\ UNCHANGED <<bin_file, socket, calm>>

RemoveBin(d) ==
    /\ Step(d, "remove_bin", "remove_socket")
    /\ bin_file' = None
    /\ UNCHANGED <<pid_file, socket, calm>>

RemoveSocket(d) ==
    /\ Step(d, "remove_socket", "exited")
    /\ socket' = None
    /\ UNCHANGED <<pid_file, bin_file, calm>>

\* Somebody tells d to stop, over a connection or by a signal.
Cancel(d) ==
    /\ daemon' = [daemon EXCEPT ![d] = "stopping"]
    /\ calm' = (calm /\ \A e \in Daemons \ {d} : ~InTransit(e))

\* SIGTERM or SIGINT, once the handler is installed.
Signal(d) ==
    /\ daemon[d] = "serving"
    /\ Cancel(d)
    /\ undisturbed' = FALSE
    /\ UNCHANGED <<files, installed, reused, version, procs>>

\* It panics, is killed, or the TCP listener cannot be set up.
Crash(d) ==
    /\ Live(d)
    /\ daemon' = [daemon EXCEPT ![d] = "crashed"]
    /\ UNCHANGED <<files, installed, reused, version, procs, calm, undisturbed>>

\* The operating system gives the pid of a dead daemon to another program.
ReusePid(d) ==
    /\ daemon[d] \in Dead
    /\ reused' = reused \cup {d}
    /\ UNCHANGED <<files, installed, daemon, version, procs, calm, undisturbed>>

\* A new binary is installed.
Install ==
    /\ installed < MaxVersion
    /\ installed' = installed + 1
    /\ UNCHANGED <<files, reused, daemon, version, procs, calm, undisturbed>>

-----------------------------------------------------------------------------
(* Commands. *)

\* The command goes on, or has ended and forgets.
Goto(k, next) ==
    /\ pc' = [pc EXCEPT ![k] = next]
    /\ cmd' = [cmd EXCEPT ![k] = IF next \in Ended THEN "none" ELSE @]

Unborn == {d \in Daemons : daemon[d] = "unborn"}

\* A person or a script runs a command, or a kild command needs the daemon.
Begin(k, c) ==
    /\ ~Busy(k)
    /\ Cardinality(Unborn) > Cardinality({j \in Procs : Busy(j)})
    /\ pc' = [pc EXCEPT ![k] = IF c = "stop" THEN "shutdown" ELSE "ping"]
    /\ cmd' = [cmd EXCEPT ![k] = c]
    /\ child' = [child EXCEPT ![k] = None]
    /\ peer' = [peer EXCEPT ![k] = None]
    /\ undisturbed' = (undisturbed /\ c \in {"start", "ensure"}
                                   /\ \A j \in Procs : ~Busy(j))
    /\ UNCHANGED <<files, installed, reused, daemon, version, calm>>

\* ping_daemon: an answer within 2 s.
PingAnswered(k) ==
    /\ pc[k] = "ping"
    /\ Answers(socket)
    /\ peer' = [peer EXCEPT ![k] = socket]
    /\ Goto(k, CASE cmd[k] = "ensure"  -> "stale"
                 [] cmd[k] = "restart" -> "shutdown"
                 [] OTHER              -> "ok")
    /\ UNCHANGED <<files, installed, reused, daemon, version, child, calm, undisturbed>>

\* No socket, nobody listening, or no answer in time.  Only ensure asks the
\* configuration whether it may start a daemon.
PingUnanswered(k) ==
    /\ pc[k] = "ping"
    /\ \/ Goto(k, "spawn")
       \/ cmd[k] = "ensure" /\ Goto(k, "disabled")
    /\ undisturbed' = (undisturbed /\ ~Answers(socket))
    /\ UNCHANGED <<files, installed, reused, daemon, version, child, peer, calm>>

\* is_daemon_stale: a missing bin file means it is not.
CheckStale(k) ==
    /\ pc[k] = "stale"
    /\ Goto(k, IF bin_file \in {None, installed} THEN "ok" ELSE "shutdown")
    /\ UNCHANGED <<files, installed, reused, daemon, version, child, peer, calm,
                   undisturbed>>

\* request_shutdown goes over the pooled connection if that is alive, else over
\* a new one.
Target(k) == IF Answers(peer[k]) THEN peer[k] ELSE socket

RequestShutdown(k) ==
    /\ pc[k] = "shutdown"
    /\ Answers(Target(k))
    /\ Cancel(Target(k))
    /\ peer' = [peer EXCEPT ![k] = None]
    /\ Goto(k, "wait")
    /\ UNCHANGED <<files, installed, reused, version, child, undisturbed>>

\* NotRunning: restart goes on, stop is done.  ensure takes every error for "a
\* daemon exists".
ShutdownNotRunning(k) ==
    /\ pc[k] = "shutdown"
    /\ ~Listens(Target(k))
    /\ Goto(k, IF cmd[k] = "restart" THEN "spawn" ELSE "ok")
    /\ UNCHANGED <<files, installed, reused, daemon, version, child, peer, calm,
                   undisturbed>>

\* The request is lost with the connection or not answered in time.
ShutdownFails(k) ==
    /\ pc[k] = "shutdown"
    /\ Listens(Target(k))
    /\ Goto(k, IF cmd[k] = "ensure" THEN "ok" ELSE "failed")
    /\ undisturbed' = FALSE
    /\ UNCHANGED <<files, installed, reused, daemon, version, child, peer, calm>>

\* Mutant: ensure waits for the pid file only, like the others.
PidIsGone(k) == k \in Procs /\ pid_file = None

\* restart and stop wait for the pid file to go, stop_stale_daemon for the
\* socket too.
Gone(k) == pid_file = None /\ (cmd[k] = "ensure" => socket = None)

Wait(k) ==
    /\ pc[k] = "wait"
    /\ Gone(k)
    /\ Goto(k, IF cmd[k] = "stop" THEN "ok" ELSE "spawn")
    /\ UNCHANGED <<files, installed, reused, daemon, version, child, peer, calm,
                   undisturbed>>

\* After 5 s.
WaitTimesOut(k) ==
    /\ pc[k] = "wait"
    /\ ~Gone(k)
    /\ Goto(k, IF cmd[k] = "ensure" THEN "ok" ELSE "failed")
    /\ undisturbed' = FALSE
    /\ UNCHANGED <<files, installed, reused, daemon, version, child, peer, calm>>

Spawn(k, d) ==
    /\ pc[k] = "spawn"
    /\ daemon[d] = "unborn"
    /\ daemon' = [daemon EXCEPT ![d] = "check"]
    /\ version' = [version EXCEPT ![d] = installed]
    /\ child' = [child EXCEPT ![k] = d]
    /\ peer' = [peer EXCEPT ![k] = None]
    /\ Goto(k, "await")
    /\ calm' = (calm /\ \A e \in Daemons : ~InTransit(e))
    /\ UNCHANGED <<files, installed, reused, undisturbed>>

\* The poll finds that the child has exited.  `start --foreground` has waited
\* for just that.
AwaitExit(k) ==
    /\ pc[k] = "await"
    /\ daemon[child[k]] \in Dead
    /\ Goto(k, IF cmd[k] = "foreground" /\ daemon[child[k]] = "exited"
               THEN "ok" ELSE "failed")
    /\ UNCHANGED <<files, installed, reused, daemon, version, child, peer, calm,
                   undisturbed>>

\* The poll finds a socket and a ping is answered, by whatever daemon.
AwaitReady(k) ==
    /\ pc[k] = "await"
    /\ cmd[k] # "foreground"
    /\ Live(child[k])
    /\ Answers(socket)
    /\ Goto(k, "ok")
    /\ UNCHANGED <<files, installed, reused, daemon, version, child, peer, calm,
                   undisturbed>>

\* After 5 s; the child goes on.
AwaitTimesOut(k) ==
    /\ pc[k] = "await"
    /\ cmd[k] # "foreground"
    /\ Live(child[k])
    /\ Goto(k, "failed")
    /\ undisturbed' = FALSE
    /\ UNCHANGED <<files, installed, reused, daemon, version, child, peer, calm>>

-----------------------------------------------------------------------------
DaemonStep(d) ==
    \/ CheckPid(d) \/ RemoveStalePid(d) \/ TruncatePid(d) \/ WritePid(d)
    \/ WriteBin(d) \/ WriteBinFails(d) \/ Look(d) \/ Unlink(d) \/ Bind(d)
    \/ StopAll(d) \/ RemovePid(d) \/ RemoveBin(d) \/ RemoveSocket(d)

ProcStep(k) ==
    \/ PingAnswered(k) \/ PingUnanswered(k) \/ CheckStale(k)
    \/ RequestShutdown(k) \/ ShutdownNotRunning(k) \/ ShutdownFails(k)
    \/ Wait(k) \/ WaitTimesOut(k)
    \/ \E d \in Daemons : Spawn(k, d)
    \/ AwaitExit(k) \/ AwaitReady(k) \/ AwaitTimesOut(k)

Next ==
    \/ \E d \in Daemons : DaemonStep(d) \/ Signal(d) \/ Crash(d) \/ ReusePid(d)
    \/ \E k \in Procs : ProcStep(k) \/ \E c \in Commands : Begin(k, c)
    \/ Install

Spec == Init /\ [][Next]_vars

-----------------------------------------------------------------------------
(* Properties. *)

\* Every variable has its type.
TypeOK ==
    /\ pid_file \in Daemons \cup {None, Empty}
    /\ bin_file \in (0 .. MaxVersion) \cup {None}
    /\ socket \in Daemons \cup {None}
    /\ installed \in 0 .. MaxVersion
    /\ reused \subseteq Daemons
    /\ daemon \in [Daemons -> Starting \cup Stopping \cup Dead \cup {"unborn", "serving"}]
    /\ version \in [Daemons -> 0 .. MaxVersion]
    /\ pc \in [Procs -> Ended \cup {"ping", "stale", "shutdown", "wait", "spawn", "await"}]
    /\ cmd \in [Procs -> Commands \cup {"none"}]
    /\ child \in [Procs -> Daemons \cup {None}]
    /\ peer \in [Procs -> Daemons \cup {None}]
    /\ calm \in BOOLEAN /\ undisturbed \in BOOLEAN

\* As long as nobody starts or stops a daemon while another one is starting or
\* stopping, the pid file does its work: a serving daemon is the only one, the
\* pid file names it, the socket leads to it and the bin file has its version
\* (which is what is_daemon_stale relies on), through crashes at any point and
\* redundant starts.
ServingIsKnown ==
    calm => \A d \in Daemons : daemon[d] = "serving" =>
        /\ \A e \in Daemons \ {d} : daemon[e] # "serving"
        /\ pid_file = d
        /\ socket = d
        /\ bin_file = version[d]

\* Commands that start a daemon or replace an outdated one, one at a time and
\* with no time-out, keep to that condition: an outdated daemon is out of the
\* way (pid file and socket gone) before its successor is spawned.
UpgradeIsCalm ==
    undisturbed => calm

\* Such a command fails only if the daemon it has spawned crashes, or if the
\* stale pid file of a crashed one names a pid that is in use again: whatever
\* files crashed daemons have left, the next start gets past them.
StartGetsPast ==
    undisturbed /\ reused = {} =>
        \A k \in Procs : pc[k] = "failed" => daemon[child[k]] = "crashed"

=============================================================================
