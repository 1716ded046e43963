------------------------------ MODULE ShimPanes ------------------------------
(***************************************************************************)
(* The panes of one kild: the registry ~/.kild/shim/<session>/panes.json   *)
(* that the agents' `tmux` commands (kild-tmux-shim) keep, the daemon       *)
(* sessions of the panes, and what kild-core does to both when the kild is *)
(* created, destroyed, or a teammate is stopped.                           *)
(*                                                                         *)
(* Shim commands hold a flock on panes.lock from load to save.  kild-core  *)
(* takes no lock, and it removes the directory with the lock file in it:   *)
(* whoever holds or waits for a lock on the removed file has a lock of its *)
(* own.  dir counts the directories there have been, to tell their locks   *)
(* apart.                                                                  *)
(*                                                                         *)
(* The daemon session of pane %n is <session>_shim_n: n stands for both.   *)
(* Titles, styles, the hidden flag and tmux session names are left out:    *)
(* the commands that set them load and save.                               *)
(***************************************************************************)
EXTENDS Naturals

CONSTANTS Shims,        \* `tmux` processes
          MaxPanes,     \* bound: pane ids given out in one registry
          MaxWindows,   \* bound: windows in one registry
          MaxDirs,      \* bound: directories ever made
          NoPane,       \* not in the registry
          NoFile,       \* no panes.json
          Torn          \* a panes.json that is truncated and not yet written

ASSUME Bounds == MaxPanes \in Nat \ {0} /\ MaxWindows \in Nat \ {0} /\ MaxDirs \in Nat

Ids == 0 .. MaxPanes - 1
Windows == 0 .. MaxWindows - 1

\* PaneRegistry: a window for each pane, and the panes of each window.
Registry == [next : 0 .. MaxPanes, panes : [Ids -> Windows \cup {NoPane}],
             windows : 1 .. MaxWindows, pane_ids : [Windows -> SUBSET Ids]]

ASSUME NoneDistinct == NoPane \notin Nat /\ NoFile \notin Registry /\ Torn \notin Registry
                       /\ NoFile # Torn

VARIABLES file,      \* panes.json
          dir,       \* which directory is there
          dirs,      \* how many there have been
          pty,       \* the panes that have a session in the daemon, its
                     \* process alive or not
          pc,        \* what each shim does next
          cmd,       \* its command
          target,    \* the pane it kills, the window it splits
          opened,    \* the directory whose lock file it has opened
          mem,       \* the registry it has loaded
          core,      \* what kild create or kild destroy does next
          left,      \* the panes destroy has still to destroy
          alone,     \* history: create and destroy never overlapped a shim
          sound      \* history: no process died half way, every request was
                     \* answered and every file could be written

shim == <<pc, cmd, target, opened, mem>>
kild == <<core, left>>
vars == <<file, dir, dirs, pty, shim, kild, alone, sound>>

-----------------------------------------------------------------------------
(* The registry. *)

\* init_pane_registry: the leader is %0 in window 0.
InitialRegistry ==
    [next |-> 1, panes |-> [i \in Ids |-> IF i = 0 THEN 0 ELSE NoPane],
     windows |-> 1, pane_ids |-> [w \in Windows |-> IF w = 0 THEN {0} ELSE {}]]

\* A pane that is not listed is taken to be in window 0.
WindowOf(r, i) == IF r.panes[i] = NoPane THEN 0 ELSE r.panes[i]

WithWindow(r) == [r EXCEPT !.windows = @ + 1]

\* create_pty_pane's changes.
WithPane(r, w) ==
    [next     |-> r.next + 1,
     panes    |-> [r.panes EXCEPT ![r.next] = w],
     windows  |-> r.windows,
     pane_ids |-> [r.pane_ids EXCEPT ![w] = @ \cup {r.next}]]

\* Mutant: the window keeps the pane.
WithoutPaneEntry(r, i) == [r EXCEPT !.panes[i] = NoPane]

\* remove_pane
WithoutPane(r, i) ==
    [next     |-> r.next,
     panes    |-> [r.panes EXCEPT ![i] = NoPane],
     windows  |-> r.windows,
     pane_ids |-> [r.pane_ids EXCEPT ![r.panes[i]] = @ \ {i}]]

\* What command c on pane or window i makes of registry r.
Result(c, i, r) ==
    CASE c = "split"  -> WithPane(r, i)
      [] c = "window" -> WithPane(WithWindow(r), r.windows)
      [] c = "kill"   -> WithoutPane(r, i)
      [] OTHER        -> r

Creates == {"split", "window"}
\* "change" stands for select-pane, set-option, break-pane and join-pane, "read"
\* for send-keys, capture-pane, list-panes, has-session and the like.
Commands == Creates \cup {"kill", "change", "read"}

Init ==
    /\ file = NoFile
    /\ dir = 0 /\ dirs = 0
    /\ pty = {}
    /\ pc = [s \in Shims |-> "idle"]
    /\ cmd = [s \in Shims |-> "read"]
    /\ target = [s \in Shims |-> 0]
    /\ opened = [s \in Shims |-> 0]
    /\ mem = [s \in Shims |-> NoFile]
    /\ core = "none" /\ left = {}
    /\ alone = TRUE /\ sound = TRUE

-----------------------------------------------------------------------------
(* Shim commands. *)

Choose(s, next, what) ==
    /\ pc' = [pc EXCEPT ![s] = next]
    /\ target' = [target EXCEPT ![s] = what]

Goto(s, next) == pc' = [pc EXCEPT ![s] = next] /\ UNCHANGED <<cmd, target, opened, mem>>

\* The command ends, with success or with an error; the lock is released.
Return(s) ==
    /\ pc' = [pc EXCEPT ![s] = "idle"]
    /\ cmd' = [cmd EXCEPT ![s] = "read"]
    /\ target' = [target EXCEPT ![s] = 0]
    /\ opened' = [opened EXCEPT ![s] = 0]
    /\ mem' = [mem EXCEPT ![s] = NoFile]

\* create_dir_all: the directory that is there, or a new one.
EnsureDir ==
    /\ dir # 0 \/ dirs < MaxDirs
    /\ dirs' = IF dir = 0 THEN dirs + 1 ELSE dirs
    /\ dir' = IF dir = 0 THEN dirs + 1 ELSE dir

\* Something in a pane calls tmux.  acquire_lock makes what is missing, for
\* readers too, and opens the lock file.
OpenLock(s, c) ==
    /\ pc[s] = "idle"
    /\ pty # {}
    /\ EnsureDir
    /\ pc' = [pc EXCEPT ![s] = "lock"]
    /\ cmd' = [cmd EXCEPT ![s] = c]
    /\ opened' = [opened EXCEPT ![s] = dir']
    /\ alone' = (alone /\ core \in {"none", "live"})
    /\ UNCHANGED <<file, pty, target, mem, kild, sound>>

Holding == {"create", "destroy", "save", "write"}

\* Mutant: the load takes a shared lock.
LockIsShared(s) == pc[s] = "lock"

\* flock: nobody else holds the lock of the same file.
LockIsFree(s) == \A r \in Shims \ {s} : pc[r] \in Holding => opened[r] # opened[s]

\* load_and_lock for a command that changes something.  i is the pane it names.
Load(s, i) ==
    /\ pc[s] = "lock"
    /\ LockIsFree(s)
    /\ file \notin {NoFile, Torn}
    /\ \/ /\ cmd[s] = "split"
          /\ Choose(s, "create", WindowOf(file, i))
       \/ /\ cmd[s] = "kill"
          /\ file.panes[i] # NoPane
          /\ Choose(s, "destroy", i)
       \/ /\ cmd[s] = "window"
          /\ Choose(s, "create", 0)
       \/ /\ cmd[s] = "change"
          /\ Choose(s, "save", 0)
    /\ mem' = [mem EXCEPT ![s] = file]
    /\ UNCHANGED <<file, dir, dirs, pty, cmd, opened, kild, alone, sound>>

\* load_shared is the whole of a command that only reads; and a pane that is not
\* there ends the command.
LoadOnly(s) ==
    /\ pc[s] = "lock"
    /\ LockIsFree(s)
    /\ file \notin {NoFile, Torn}
    /\ \/ cmd[s] = "read"
       \/ cmd[s] = "kill" /\ \E i \in Ids : file.panes[i] = NoPane
    /\ Return(s)
    /\ UNCHANGED <<file, dir, dirs, pty, kild, alone, sound>>

\* No file, or nothing in it that parses.
LoadFails(s) ==
    /\ pc[s] = "lock"
    /\ LockIsFree(s)
    /\ file \in {NoFile, Torn}
    /\ Return(s)
    /\ UNCHANGED <<file, dir, dirs, pty, kild, alone, sound>>

\* The bounds of the model; past them a create is refused.
RoomFor(s) ==
    /\ mem[s].next < MaxPanes
    /\ cmd[s] = "window" => mem[s].windows < MaxWindows

\* ipc::create_session.  The daemon refuses an id it has.
CreateSession(s) ==
    /\ pc[s] = "create"
    /\ RoomFor(s)
    /\ mem[s].next \notin pty
    /\ pty' = pty \cup {mem[s].next}
    /\ Goto(s, "save")
    /\ UNCHANGED <<file, dir, dirs, kild, alone, sound>>

\* Refused, or it failed: the registry on disk stays as it is.
CreateSessionFails(s) ==
    /\ pc[s] = "create"
    /\ Return(s)
    /\ UNCHANGED <<file, dir, dirs, pty, kild, alone, sound>>

\* The session is created and the answer is lost or late.
CreateSessionUnanswered(s) ==
    /\ pc[s] = "create"
    /\ RoomFor(s)
    /\ mem[s].next \notin pty
    /\ pty' = pty \cup {mem[s].next}
    /\ Return(s)
    /\ sound' = FALSE
    /\ UNCHANGED <<file, dir, dirs, kild, alone>>

\* Mutant: after any error the pane is taken for dead.
DestroySessionIgnored(s) ==
    /\ pc[s] = "destroy"
    /\ Goto(s, "save")
    /\ UNCHANGED <<file, dir, dirs, pty, kild, alone, sound>>

\* ipc::destroy_session for kill-pane.  A session that is gone, or a daemon that
\* is not there, will do too.
DestroySession(s) ==
    /\ pc[s] = "destroy"
    /\ pty' = pty \ {target[s]}
    /\ Goto(s, "save")
    /\ UNCHANGED <<file, dir, dirs, kild, alone, sound>>

\* Any other error ends the command before the pane is removed.
DestroySessionFails(s) ==
    /\ pc[s] = "destroy"
    /\ Return(s)
    /\ UNCHANGED <<file, dir, dirs, pty, kild, alone, sound>>

\* File::create truncates the file, and makes one in a directory without.
SaveTruncates(s) ==
    /\ pc[s] = "save"
    /\ dir # 0
    /\ file' = Torn
    /\ pc' = [pc EXCEPT ![s] = "write"]
    /\ opened' = [opened EXCEPT ![s] = dir]
    /\ UNCHANGED <<cmd, target, mem, dir, dirs, pty, kild, alone, sound>>

SaveFails(s) ==
    /\ pc[s] = "save"
    /\ Return(s)
    /\ sound' = FALSE
    /\ UNCHANGED <<file, dir, dirs, pty, kild, alone>>

\* A file that was removed meanwhile is written in vain.
SaveWrites(s) ==
    /\ pc[s] = "write"
    /\ file' = IF opened[s] = dir THEN Result(cmd[s], target[s], mem[s]) ELSE file
    /\ Return(s)
    /\ UNCHANGED <<dir, dirs, pty, kild, alone, sound>>

\* The shim is killed, or the disk is full.
Die(s) ==
    /\ pc[s] \in Holding
    /\ Return(s)
    /\ sound' = FALSE
    /\ UNCHANGED <<file, dir, dirs, pty, kild, alone>>

-----------------------------------------------------------------------------
(* kild-core. *)

ShimsIdle == \A s \in Shims : pc[s] = "idle"

\* kild create spawns the leader, and then makes the registry.
SpawnLeader ==
    /\ core = "none"
    /\ 0 \notin pty
    /\ pty' = pty \cup {0}
    /\ core' = "init"
    /\ alone' = (alone /\ ShimsIdle)
    /\ UNCHANGED <<file, dir, dirs, shim, left, sound>>

InitPaneRegistry ==
    /\ core = "init"
    /\ EnsureDir
    /\ file' = InitialRegistry
    /\ core' = "live"
    /\ UNCHANGED <<pty, shim, left, alone, sound>>

\* A failure is only reported.
InitPaneRegistryFails ==
    /\ core = "init"
    /\ core' = "live"
    /\ sound' = FALSE
    /\ UNCHANGED <<file, dir, dirs, pty, shim, left, alone>>

\* stop_teammate: reads the registry without the lock and leaves it as it is.
StopTeammate(i) ==
    /\ i # 0
    /\ core = "live"
    /\ file \notin {NoFile, Torn}
    /\ file.panes[i] # NoPane
    /\ pty' = pty \ {i}
    /\ UNCHANGED <<file, dir, dirs, shim, kild, alone, sound>>

\* Mutant: only the panes in the leader's window.
ChildPanesOfMain == IF file \in {NoFile, Torn} THEN {}
                    ELSE {i \in Ids \ {0} : file.panes[i] = 0}

\* The children the registry lists; none when it cannot be read.
ChildPanes == IF file \in {NoFile, Torn} THEN {}
              ELSE {i \in Ids \ {0} : file.panes[i] # NoPane}

\* kild destroy has destroyed the leader and reads the registry.
CleanupReads ==
    /\ core = "live"
    /\ pty' = pty \ {0}
    /\ left' = ChildPanes
    /\ core' = "cleanup"
    /\ alone' = (alone /\ ShimsIdle)
    /\ UNCHANGED <<file, dir, dirs, shim, sound>>

CleanupDestroys(i) ==
    /\ core = "cleanup"
    /\ i \in left
    /\ left' = left \ {i}
    /\ \/ pty' = pty \ {i} /\ UNCHANGED sound
       \/ sound' = FALSE /\ UNCHANGED pty
    /\ UNCHANGED <<file, dir, dirs, shim, core, alone>>

\* remove_dir_all
CleanupRemovesDir ==
    /\ core = "cleanup"
    /\ left = {}
    /\ dir' = 0
    /\ file' = NoFile
    /\ core' = "none"
    /\ UNCHANGED <<dirs, pty, shim, left, alone, sound>>

-----------------------------------------------------------------------------
(* The daemon. *)

\* It stops or crashes, and its PTYs with it.  Until it runs again a create
\* fails, and a destroy finds nothing.
DaemonStops ==
    /\ pty' = {}
    /\ UNCHANGED <<file, dir, dirs, shim, kild, alone, sound>>

Next ==
    \/ \E s \in Shims :
          \/ \E c \in Commands : OpenLock(s, c)
          \/ \E i \in Ids : Load(s, i)
          \/ LoadOnly(s) \/ LoadFails(s)
          \/ CreateSession(s) \/ CreateSessionFails(s) \/ CreateSessionUnanswered(s)
          \/ DestroySession(s) \/ DestroySessionFails(s)
          \/ SaveTruncates(s) \/ SaveWrites(s) \/ SaveFails(s)
          \/ Die(s)
    \/ SpawnLeader \/ InitPaneRegistry \/ InitPaneRegistryFails
    \/ CleanupReads \/ CleanupRemovesDir
    \/ \E i \in Ids : StopTeammate(i) \/ CleanupDestroys(i)
    \/ DaemonStops

Spec == Init /\ [][Next]_vars

-----------------------------------------------------------------------------
(* Properties. *)

\* Every variable has its type.
TypeOK ==
    /\ file \in Registry \cup {NoFile, Torn}
    /\ dir \in 0 .. MaxDirs /\ dirs \in 0 .. MaxDirs
    /\ pty \subseteq Ids
    /\ pc \in [Shims -> Holding \cup {"idle", "lock"}]
    /\ cmd \in [Shims -> Commands]
    /\ target \in [Shims -> Ids \cup Windows]
    /\ opened \in [Shims -> 0 .. MaxDirs]
    /\ mem \in [Shims -> Registry \cup {NoFile}]
    /\ core \in {"none", "init", "live", "cleanup"}
    /\ left \subseteq Ids
    /\ alone \in BOOLEAN /\ sound \in BOOLEAN

Valid(r) ==
    /\ \A i \in Ids : r.panes[i] # NoPane =>
          /\ i < r.next
          /\ r.panes[i] < r.windows
          /\ i \in r.pane_ids[r.panes[i]]
    /\ \A w \in Windows : \A i \in r.pane_ids[w] : r.panes[i] = w

\* Whatever commands run at once, die or lose the race with kild-core, a
\* registry that can be read passes validate(), which every load calls and
\* without which no shim command works any more; and no id it lists will be
\* given out again.
RegistryIsValid == file \notin {NoFile, Torn} => Valid(file)

\* While create and destroy keep out of the way, a command that has loaded the
\* registry finds it unchanged when it saves: no pane, window or flag that
\* another one saved is overwritten.
NoLostUpdate ==
    alone => \A s \in Shims :
        pc[s] \in {"create", "destroy", "save"} => file = mem[s]

\* If moreover nothing fails half way, every pane session the daemon has is
\* listed in the registry or about to be, so that destroy leaves none behind,
\* and the id the next split takes is free.
EveryPaneIsListed ==
    alone /\ sound /\ core \in {"none", "live"} => \A i \in pty \ {0} :
        \/ file \notin {NoFile, Torn} /\ file.panes[i] # NoPane
        \/ \E s \in Shims : /\ pc[s] \in {"save", "write"}
                            /\ Result(cmd[s], target[s], mem[s]).panes[i] # NoPane

=============================================================================
