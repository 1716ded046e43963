---------------------------- MODULE SessionFiles ----------------------------
(***************************************************************************)
(* The sessions directory, which any number of kild processes read and      *)
(* write without a lock: per kild <safe_id>/kild.json (or <safe_id>.json    *)
(* from an older version, moved when it is met), the temp file that every   *)
(* writer of that kild renames over it, and one branch_index.json with one  *)
(* temp file for all writers.  The commands create, open or stop ("update"), *)
(* the status patch, destroy, list and two strategies of cleanup are broken *)
(* into their file operations.                                              *)
(*                                                                         *)
(* A session is abstracted to its port range: the branch is BranchOf of the *)
(* kild, and agents and statuses are the business of KildSessions.  Kilds   *)
(* of two projects may have the same branch.  A torn or missing index reads *)
(* as an empty one.  The sidecar files, --main kilds, git branches and the  *)
(* checks that make cleanup skip a worktree are left out.                   *)
(***************************************************************************)
EXTENDS PortRanges, FiniteSets, Functions

CONSTANTS Procs, Kilds, Branches,
          BranchOf,       \* the branch a kild was created for
          OldRanges,      \* port ranges of the kilds there are at first
          NoKild, NoBranch,
          NoFile,         \* nothing there
          Torn,           \* truncated, or written by two at once
          MaxCommands     \* bound: commands that ever begin

Indexes == [Branches -> Kilds \cup {NoKild}]
Empty == [b \in Branches |-> NoKild]

ASSUME SessionsAssumption ==
    /\ IsFiniteSet(Kilds)
    /\ BranchOf \in [Kilds -> Branches] /\ OldRanges \subseteq Ranges
    /\ NoKild \notin Kilds /\ NoBranch \notin Branches
    /\ NoFile \notin Ranges /\ Torn \notin Ranges /\ NoFile # Torn
    /\ Exhausted # NoFile /\ MaxCommands \in Nat

VARIABLES flat,       \* <safe_id>.json
          file,       \* <safe_id>/kild.json
          tmp,        \* <safe_id>/kild.json.tmp
          dir,        \* the kilds that have a directory <safe_id>
          index,      \* branch_index.json
          worktree,   \* the kilds whose worktree is there
          pc, cmd,    \* what each process does next, and in which command
          branch,     \* the name it was given
          kild,       \* the kild it works on
          range,      \* the session it has read or made
          scan,       \* what it reads the directory for
          todo,       \* entries of read_dir it has not looked at
          seen,       \* sessions it has loaded
          picked,     \* the kild of the index entry, or those to clean up
          map,        \* the index it has loaded
          fd,         \* where the temp file it has open is now
          begun,      \* how many commands have begun
          raced,      \* history: two commands met in one of the ways of Clash
          saved,      \* history: the kilds that were saved and not removed
          pruned      \* history: those whose worktree a user removed

disk == <<flat, file, tmp, dir, index, worktree>>
args == <<cmd, branch, kild, range>>
reading == <<scan, todo, seen, picked>>
writing == <<map, fd>>
history == <<raced, saved, pruned>>
vars == <<disk, pc, args, reading, writing, begun, history>>

Commands == {"create", "update", "patch", "destroy", "list", "orphans", "stale"}

Init ==
    /\ \E old, new \in [Kilds -> OldRanges \cup {NoFile}] :
          /\ \A k \in Kilds : old[k] = NoFile \/ new[k] = NoFile
          /\ \A k, l \in Kilds : \A r \in {old[k], new[k]} \cap Ranges, q \in {old[l], new[l]} \cap Ranges :
                k # l => BranchOf[k] # BranchOf[l] /\ ~Overlap(r, q)
          /\ flat = old /\ file = new
          /\ dir = {k \in Kilds : new[k] # NoFile}
    /\ tmp = [k \in Kilds |-> NoFile]
    /\ index = Empty
    /\ saved = {k \in Kilds : file[k] # NoFile \/ flat[k] # NoFile}
    /\ worktree \in SUBSET saved /\ pruned = saved \ worktree
    /\ pc = [p \in Procs |-> "idle"]
    /\ cmd = [p \in Procs |-> "list"]
    /\ branch = [p \in Procs |-> NoBranch]
    /\ kild = [p \in Procs |-> NoKild]
    /\ range = [p \in Procs |-> NoFile]
    /\ scan = [p \in Procs |-> "none"]
    /\ todo = [p \in Procs |-> {}]
    /\ seen = [p \in Procs |-> {}]
    /\ picked = [p \in Procs |-> {}]
    /\ map = [p \in Procs |-> Empty]
    /\ fd = [p \in Procs |-> "none"]
    /\ begun = 0 /\ raced = FALSE

-----------------------------------------------------------------------------
(* How two commands can harm each other. *)

Busy(p) == pc[p] # "idle"

\* p has read the session of kild k and will write what it read, or was made for
\* k and will save.
Holds(p, k) ==
    \/ kild[p] = k /\ pc[p] \in {"mkdir", "truncate", "write", "rename"}
    \/ /\ cmd[p] = "update" /\ scan[p] = "find"
       /\ kild[p] = k \/ \E r \in Ranges : <<k, r>> \in seen[p]

\* create looks at the files, makes the worktree and saves: two of them, or one
\* and a cleanup that looks for worktrees without a session, must not overlap.
ClashOfCommands(p, c) ==
    \E q \in Procs \ {p} : /\ Busy(q) /\ "create" \in {c, cmd[q]}
                           /\ {c, cmd[q]} \subseteq {"create", "orphans", "stale"}

\* A legacy file moves while another process has it on its list.
ClashOfMigration(p, k) == \E q \in Procs \ {p} : <<k, "flat">> \in todo[q]

\* A second process opens the temp file of a kild.
ClashOfWriters(p, k) ==
    \E q \in Procs \ {p} : kild[q] = k /\ pc[q] \in {"write", "rename"}

\* A kild goes while another process holds a copy of its session.
ClashOfRemoval(p, k) == \E q \in Procs \ {p} : Holds(q, k)

-----------------------------------------------------------------------------
(* Commands: begin, end, crash. *)

Goto(p, next) == pc' = [pc EXCEPT ![p] = next]

\* The process ends: with success, with an error, or killed at any point.
Exit(p) ==
    /\ pc' = [pc EXCEPT ![p] = "idle"]
    /\ cmd' = [cmd EXCEPT ![p] = "list"]
    /\ branch' = [branch EXCEPT ![p] = NoBranch]
    /\ kild' = [kild EXCEPT ![p] = NoKild]
    /\ range' = [range EXCEPT ![p] = NoFile]
    /\ scan' = [scan EXCEPT ![p] = "none"]
    /\ todo' = [todo EXCEPT ![p] = {}]
    /\ seen' = [seen EXCEPT ![p] = {}]
    /\ picked' = [picked EXCEPT ![p] = {}]
    /\ map' = [map EXCEPT ![p] = Empty]

Return(p) == Exit(p) /\ fd' = [fd EXCEPT ![p] = "none"]

Begin(p, c, b, k, next, what) ==
    /\ ~Busy(p) /\ begun < MaxCommands
    /\ begun' = begun + 1
    /\ Goto(p, next)
    /\ cmd' = [cmd EXCEPT ![p] = c]
    /\ branch' = [branch EXCEPT ![p] = b]
    /\ kild' = [kild EXCEPT ![p] = k]
    /\ scan' = [scan EXCEPT ![p] = what]
    /\ raced' = (raced \/ ClashOfCommands(p, c))
    /\ UNCHANGED <<disk, range, todo, seen, picked, writing, saved, pruned>>

Create(p) == \E k \in Kilds : Begin(p, "create", BranchOf[k], k, "lookup", "find")
Update(p) == \E b \in Branches : Begin(p, "update", b, NoKild, "lookup", "find")
Destroy(p) == \E b \in Branches : Begin(p, "destroy", b, NoKild, "lookup", "find")
Patch(p) == \E k \in Kilds : Begin(p, "patch", NoBranch, k, "read", "none")
List(p) == Begin(p, "list", NoBranch, NoKild, "read_dir", "list")
CleanUpOrphans(p) == Begin(p, "orphans", NoBranch, NoKild, "worktrees", "orphans")
CleanUpStale(p) == Begin(p, "stale", NoBranch, NoKild, "read_dir", "stale")

\* A temp file that is left behind is truncated by the next writer before anyone
\* looks at it: it stands for none.
Die(p) ==
    /\ Busy(p) /\ Return(p)
    /\ tmp' = [k \in Kilds |-> IF kild[p] = k /\ pc[p] \in {"write", "rename"} /\ ~ClashOfWriters(p, k)
                               THEN NoFile ELSE tmp[k]]
    /\ UNCHANGED <<flat, file, dir, index, worktree, history>>

-----------------------------------------------------------------------------
(* find_session_by_name, load_sessions_from_files and the scans of cleanup. *)

\* The command goes on with the session it was asked for.
Found(p, k, r) ==
    \/ (cmd[p] = "create" /\ Return(p))                     \* AlreadyExists
    \/ /\ cmd[p] \in {"update", "destroy"}
       /\ Goto(p, IF cmd[p] = "update" THEN "mkdir" ELSE "remove")
       /\ kild' = [kild EXCEPT ![p] = k]
       /\ range' = [range EXCEPT ![p] = IF cmd[p] = "update" THEN r ELSE NoFile]
       /\ scan' = [scan EXCEPT ![p] = "none"]
       /\ seen' = [seen EXCEPT ![p] = {}]
       /\ picked' = [picked EXCEPT ![p] = {}]
       /\ map' = [map EXCEPT ![p] = Empty]
       /\ fd' = [fd EXCEPT ![p] = "none"]
       /\ UNCHANGED <<cmd, branch, todo>>

NotFound(p) ==
    \/ /\ cmd[p] = "create" /\ Goto(p, "read_dir")
       /\ scan' = [scan EXCEPT ![p] = "ports"]
       /\ UNCHANGED <<args, todo, seen, picked, writing>>
    \/ cmd[p] # "create" /\ Return(p)

\* Mutant: what the index does not know is not there.
LookupTrustsIndex(p) ==
    /\ pc[p] = "lookup"
    /\ LET k == index[branch[p]]
       IN  IF k = NoKild THEN NotFound(p)
           ELSE /\ Goto(p, "check") /\ picked' = [picked EXCEPT ![p] = {k}]
                /\ UNCHANGED <<args, scan, todo, seen, writing>>
    /\ UNCHANGED <<disk, history>>

Lookup(p) ==
    /\ pc[p] = "lookup"
    /\ LET k == index[branch[p]]
       IN  IF k = NoKild THEN Goto(p, "read_dir") /\ UNCHANGED picked
           ELSE Goto(p, "check") /\ picked' = [picked EXCEPT ![p] = {k}]
    /\ UNCHANGED <<disk, args, scan, todo, seen, writing, history>>

Check(p) ==
    /\ pc[p] = "check"
    /\ \E k \in picked[p] :
          IF file[k] \in Ranges THEN Found(p, k, file[k])
          ELSE /\ Goto(p, "read_dir") /\ picked' = [picked EXCEPT ![p] = {}]
               /\ UNCHANGED <<args, scan, todo, seen, writing>>
    /\ UNCHANGED <<disk, history>>

\* Mutant: the old layout is forgotten.
NewEntries == {<<k, "dir">> : k \in dir}

Entries == {<<k, "flat">> : k \in {l \in Kilds : flat[l] # NoFile}} \cup {<<k, "dir">> : k \in dir}

ReadDir(p) ==
    /\ pc[p] = "read_dir"
    /\ Goto(p, "entry")
    /\ todo' = [todo EXCEPT ![p] = Entries]
    /\ seen' = [seen EXCEPT ![p] = {}]
    /\ UNCHANGED <<disk, args, scan, picked, writing, history>>

\* migrate_session_if_needed
Migrate(p, k) ==
    /\ dir' = dir \cup {k}
    /\ file' = [file EXCEPT ![k] = flat[k]]
    /\ flat' = [flat EXCEPT ![k] = NoFile]
    /\ raced' = (raced \/ ClashOfMigration(p, k))
    /\ UNCHANGED <<tmp, index, worktree, saved, pruned>>

\* The loaded sessions that the command looks at afterwards.
Wanted(p, k) == scan[p] \in {"ports", "orphans"} \/ (scan[p] = "find" /\ BranchOf[k] = branch[p])

\* An entry of the directory.  load_sessions_from_files moves a legacy file and
\* passes one that has been moved meanwhile; cleanup reads both layouts as they
\* are.  A torn file is skipped by all.
LoadEntry(p) ==
    /\ pc[p] = "entry"
    /\ \E e \in todo[p] :
          LET k == e[1]
              content == IF e[2] = "dir" THEN file[k] ELSE flat[k]
          IN  /\ todo' = [todo EXCEPT ![p] = @ \ {e}]
              /\ seen' = IF content \in Ranges /\ Wanted(p, k)
                         THEN [seen EXCEPT ![p] = @ \cup {<<k, content>>}] ELSE seen
              /\ picked' = IF scan[p] = "stale" /\ content \in Ranges /\ k \notin worktree
                           THEN [picked EXCEPT ![p] = @ \cup {k}] ELSE picked
              /\ IF scan[p] \in {"find", "ports", "list"} /\ e[2] = "flat" /\ flat[k] # NoFile
                 THEN Migrate(p, k) ELSE UNCHANGED <<disk, history>>
    /\ UNCHANGED <<pc, args, scan, writing>>

Loaded(p) == pc[p] = "entry" /\ todo[p] = {}

\* The first session of that name that the scan met; the index is repaired.
FindByScan(p) ==
    /\ Loaded(p) /\ scan[p] = "find"
    /\ IF seen[p] = {} THEN NotFound(p)
       ELSE \E s \in seen[p] : /\ Goto(p, "index")
                             /\ kild' = [kild EXCEPT ![p] = s[1]]
                             /\ range' = [range EXCEPT ![p] = s[2]]
                             /\ UNCHANGED <<cmd, branch, reading, writing>>
    /\ UNCHANGED <<disk, history>>

Listed(p) == Loaded(p) /\ scan[p] = "list" /\ Return(p) /\ UNCHANGED <<disk, history>>

-----------------------------------------------------------------------------
(* create: ports, worktree, and an agent that may fail to start. *)

AllocatePorts(p) ==
    /\ Loaded(p) /\ scan[p] = "ports"
    /\ \E t \in Bijection(1 .. Cardinality(seen[p]), seen[p]) :
          LET s == [i \in DOMAIN t |-> t[i][2]]
              r == find_next_available_range(s)
          IN  /\ Sorted(s)
              /\ IF r = Exhausted THEN Return(p)
                 ELSE /\ Goto(p, "worktree")
                      /\ range' = [range EXCEPT ![p] = r]
                      /\ scan' = [scan EXCEPT ![p] = "none"]
                      /\ seen' = [seen EXCEPT ![p] = {}]
                      /\ UNCHANGED <<cmd, branch, kild, todo, picked, writing>>
    /\ UNCHANGED <<disk, history>>

CreateWorktree(p) ==
    /\ pc[p] = "worktree"
    /\ IF kild[p] \in worktree THEN Return(p) /\ UNCHANGED <<worktree, pruned>>   \* WorktreeAlreadyExists
       ELSE /\ worktree' = worktree \cup {kild[p]}
            /\ pruned' = pruned \ {kild[p]}
            /\ Goto(p, "mkdir") /\ UNCHANGED <<args, reading, writing>>
    /\ UNCHANGED <<flat, file, tmp, dir, index, raced, saved>>

SpawnFails(p) ==
    /\ pc[p] = "mkdir" /\ Return(p) /\ UNCHANGED <<disk, history>>

-----------------------------------------------------------------------------
(* save_session_to_file and patch_session_json_fields. *)

ReadToPatch(p) ==
    /\ pc[p] = "read"
    /\ LET k == kild[p]
           old == file[k] = NoFile /\ flat[k] # NoFile
           content == IF old THEN flat[k] ELSE file[k]
       IN  /\ IF old THEN Migrate(p, k) ELSE UNCHANGED <<disk, history>>
           /\ IF content \in Ranges
              THEN /\ range' = [range EXCEPT ![p] = content]
                   /\ Goto(p, "truncate") /\ UNCHANGED <<cmd, branch, kild, reading, writing>>
              ELSE Return(p)

MakeDir(p) ==
    /\ pc[p] = "mkdir"
    /\ dir' = dir \cup {kild[p]}
    /\ Goto(p, "truncate")
    /\ UNCHANGED <<flat, file, tmp, index, worktree, args, reading, writing, history>>

\* Mutant: the file is written in place.
TruncateInPlace(p) ==
    /\ pc[p] = "truncate"
    /\ IF kild[p] \in dir
       THEN /\ tmp' = [tmp EXCEPT ![kild[p]] = Torn]
            /\ file' = [file EXCEPT ![kild[p]] = Torn]
            /\ fd' = [fd EXCEPT ![p] = "tmp"]
            /\ raced' = (raced \/ ClashOfWriters(p, kild[p]))
            /\ Goto(p, "write") /\ UNCHANGED <<args, reading, map>>
       ELSE Return(p) /\ UNCHANGED <<tmp, file, raced>>
    /\ UNCHANGED <<flat, dir, index, worktree, saved, pruned>>

\* fs::write opens the temp file and truncates it ...
Truncate(p) ==
    /\ pc[p] = "truncate"
    /\ IF kild[p] \in dir
       THEN /\ tmp' = [tmp EXCEPT ![kild[p]] = Torn]
            /\ fd' = [fd EXCEPT ![p] = "tmp"]
            /\ raced' = (raced \/ ClashOfWriters(p, kild[p]))
            /\ Goto(p, "write") /\ UNCHANGED <<args, reading, map>>
       ELSE Return(p) /\ UNCHANGED <<tmp, raced>>
    /\ UNCHANGED <<flat, file, dir, index, worktree, saved, pruned>>

\* What a file holds after one process has written mine where another may have
\* written what is there, and blank is a file that cannot be read.
Written(mine, there, blank) == IF there = blank THEN {mine} ELSE {mine, blank}

\* ... and fills it, wherever it has been moved to: what two writers put into
\* one file may be the text of neither.
Write(p) ==
    /\ pc[p] = "write"
    /\ LET k == kild[p]
       IN  \/ /\ fd[p] = "tmp" /\ UNCHANGED file
              /\ \E c \in Written(range[p], tmp[k], Torn) : tmp' = [tmp EXCEPT ![k] = c]
           \/ /\ fd[p] = "live" /\ UNCHANGED tmp
              /\ \E c \in Written(range[p], file[k], Torn) : file' = [file EXCEPT ![k] = c]
           \/ fd[p] = "gone" /\ UNCHANGED <<tmp, file>>
    /\ Goto(p, "rename")
    /\ UNCHANGED <<flat, dir, index, worktree, args, reading, writing, history>>

\* cleanup_temp_file removes what is at the name.
WriteFails(p) ==
    /\ pc[p] = "write"
    /\ tmp' = [tmp EXCEPT ![kild[p]] = NoFile]
    /\ Exit(p)
    /\ fd' = [q \in Procs |-> IF q = p THEN "none"
                              ELSE IF kild[q] = kild[p] /\ pc[q] = "write" /\ fd[q] = "tmp" THEN "gone"
                              ELSE fd[q]]
    /\ UNCHANGED <<flat, file, dir, index, worktree, history>>

Rename(p) ==
    /\ pc[p] = "rename"
    /\ LET k == kild[p]
       IN  IF tmp[k] = NoFile
           THEN Return(p) /\ UNCHANGED <<tmp, file, saved>>       \* its temp file is gone
           ELSE /\ file' = [file EXCEPT ![k] = tmp[k]]
                /\ tmp' = [tmp EXCEPT ![k] = NoFile]
                /\ saved' = IF cmd[p] = "patch" THEN saved ELSE saved \cup {k}
                /\ IF cmd[p] = "patch" THEN Exit(p)
                   ELSE /\ Goto(p, "index") /\ range' = [range EXCEPT ![p] = NoFile]
                        /\ UNCHANGED <<cmd, branch, kild, reading, map>>
                /\ fd' = [q \in Procs |-> IF q = p THEN "none"
                                          ELSE IF kild[q] = k /\ pc[q] = "write"
                                               THEN IF fd[q] = "tmp" THEN "live" ELSE "gone"
                                          ELSE fd[q]]
    /\ UNCHANGED <<flat, dir, index, worktree, raced, pruned>>

-----------------------------------------------------------------------------
(* update_branch_index and purge_session_id_from_branch_index, best effort. *)

\* What follows: the command that searched goes on, cleanup takes the next.
Indexed(p) ==
    \/ scan[p] = "find" /\ Found(p, kild[p], range[p])
    \/ /\ scan[p] = "stale" /\ Goto(p, "clean")
       /\ map' = [map EXCEPT ![p] = Empty]
       /\ kild' = [kild EXCEPT ![p] = NoKild]
       /\ UNCHANGED <<cmd, branch, range, reading, fd>>
    \/ scan[p] = "none" /\ Return(p)

Purges(p) == scan[p] = "stale" \/ (cmd[p] = "destroy" /\ scan[p] = "none")

LoadIndex(p) ==
    /\ pc[p] = "index"
    /\ LET m == IF Purges(p) THEN [b \in Branches |-> IF index[b] = kild[p] THEN NoKild ELSE index[b]]
                ELSE [index EXCEPT ![BranchOf[kild[p]]] = kild[p]]
       IN  IF Purges(p) /\ m = index THEN Indexed(p)
           ELSE /\ Goto(p, "store")
                /\ map' = [map EXCEPT ![p] = m]
                /\ UNCHANGED <<args, reading, fd>>
    /\ UNCHANGED <<disk, history>>

\* write_branch_index, with one temp file for all: two at once may leave a torn
\* index, and an error is only logged.
StoreIndex(p) ==
    /\ pc[p] = "store"
    /\ \/ index' \in {map[p], index}
       \/ /\ \E q \in Procs \ {p} : pc[q] = "store"
          /\ index' = Empty
    /\ Indexed(p)
    /\ UNCHANGED <<flat, file, tmp, dir, worktree, history>>

-----------------------------------------------------------------------------
(* destroy and cleanup. *)

RemoveWorktree(p) ==
    /\ pc[p] = "remove"
    /\ worktree' = worktree \ {kild[p]}
    /\ pruned' = pruned \cup {kild[p]}
    /\ Goto(p, "unlink")
    /\ UNCHANGED <<flat, file, tmp, dir, index, args, reading, writing, raced, saved>>

RemoveWorktreeFails(p) == pc[p] = "remove" /\ Return(p) /\ UNCHANGED <<disk, history>>

\* Mutant: only kild.json is removed.
RemoveKildJson(p) ==
    /\ pc[p] = "unlink"
    /\ LET k == kild[p]
       IN  /\ IF k \in dir
              THEN dir' = dir \ {k} /\ file' = [file EXCEPT ![k] = NoFile] /\ UNCHANGED flat
              ELSE flat' = [flat EXCEPT ![k] = NoFile] /\ UNCHANGED <<dir, file>>
           /\ saved' = saved \ {k}
           /\ raced' = (raced \/ ClashOfRemoval(p, k))
    /\ Goto(p, "index")
    /\ UNCHANGED <<tmp, fd, index, worktree, args, reading, map, pruned>>

\* remove_session_file: the directory with all that is in it, else the old file.
RemoveFile(p) ==
    /\ pc[p] = "unlink"
    /\ LET k == kild[p]
       IN  /\ IF k \in dir
              THEN /\ dir' = dir \ {k}
                   /\ file' = [file EXCEPT ![k] = NoFile]
                   /\ tmp' = [tmp EXCEPT ![k] = NoFile]
                   /\ fd' = [q \in Procs |-> IF kild[q] = k /\ pc[q] = "write" THEN "gone" ELSE fd[q]]
                   /\ UNCHANGED flat
              ELSE flat' = [flat EXCEPT ![k] = NoFile] /\ UNCHANGED <<dir, file, tmp, fd>>
           /\ saved' = saved \ {k}
           /\ raced' = (raced \/ ClashOfRemoval(p, k))
    /\ Goto(p, "index")
    /\ UNCHANGED <<index, worktree, args, reading, map, pruned>>

\* cleanup --orphans: the worktrees first, then the sessions.
ListWorktrees(p) ==
    /\ pc[p] = "worktrees"
    /\ picked' = [picked EXCEPT ![p] = worktree]
    /\ Goto(p, "read_dir")
    /\ UNCHANGED <<disk, args, scan, todo, seen, writing, history>>

Untracked(p) ==
    /\ Loaded(p) /\ scan[p] = "orphans"
    /\ picked' = [picked EXCEPT ![p] = @ \ {s[1] : s \in seen[p]}]
    /\ seen' = [seen EXCEPT ![p] = {}]
    /\ Goto(p, "sweep")
    /\ UNCHANGED <<disk, args, scan, todo, writing, history>>

\* Each is removed, or skipped for what is in it or runs in it.
Sweep(p) ==
    /\ pc[p] = "sweep"
    /\ \E k \in picked[p] :
          /\ worktree' \in {worktree, worktree \ {k}}
          /\ picked' = [picked EXCEPT ![p] = @ \ {k}]
    /\ UNCHANGED <<flat, file, tmp, dir, index, pc, args, scan, todo, seen, writing, history>>

\* cleanup --no-pid, --stopped: the sessions whose worktree is missing.
StaleFound(p) ==
    /\ Loaded(p) /\ scan[p] = "stale"
    /\ Goto(p, "clean")
    /\ UNCHANGED <<disk, args, reading, writing, history>>

\* If the worktree is there after all it goes too, or the kild is skipped.
Clean(p) ==
    /\ pc[p] = "clean"
    /\ \E k \in picked[p] :
          LET content == IF file[k] # NoFile THEN file[k] ELSE flat[k]
          IN  /\ picked' = [picked EXCEPT ![p] = @ \ {k}]
              /\ \/ /\ content \in Ranges /\ k \in worktree
                    /\ UNCHANGED <<worktree, pc, kild>>
                 \/ /\ worktree' = IF content \in Ranges THEN worktree \ {k} ELSE worktree
                    /\ kild' = [kild EXCEPT ![p] = k]
                    /\ Goto(p, "unlink")
    /\ UNCHANGED <<flat, file, tmp, dir, index, cmd, branch, range, scan, todo, seen, writing, history>>

Cleaned(p) ==
    /\ pc[p] \in {"sweep", "clean"} /\ picked[p] = {}
    /\ Return(p) /\ UNCHANGED <<disk, history>>

-----------------------------------------------------------------------------
Step(p) ==
    \/ Die(p)
    \/ Lookup(p) \/ Check(p) \/ ReadDir(p) \/ LoadEntry(p) \/ FindByScan(p) \/ Listed(p)
    \/ AllocatePorts(p) \/ CreateWorktree(p) \/ SpawnFails(p)
    \/ ReadToPatch(p) \/ MakeDir(p) \/ Truncate(p) \/ Write(p) \/ WriteFails(p) \/ Rename(p)
    \/ LoadIndex(p) \/ StoreIndex(p)
    \/ RemoveWorktree(p) \/ RemoveWorktreeFails(p) \/ RemoveFile(p)
    \/ ListWorktrees(p) \/ Untracked(p) \/ Sweep(p) \/ StaleFound(p) \/ Clean(p) \/ Cleaned(p)

\* The bound is reached.
Rest == begun = MaxCommands /\ (\A p \in Procs : ~Busy(p)) /\ UNCHANGED vars

Next ==
    \/ \E p \in Procs : \/ Create(p) \/ Update(p) \/ Patch(p) \/ Destroy(p) \/ List(p)
                         \/ CleanUpOrphans(p) \/ CleanUpStale(p)
                         \/ (Step(p) /\ UNCHANGED begun)
    \/ Rest

Spec == Init /\ [][Next]_vars

-----------------------------------------------------------------------------
\* What is saved for a kild, in either layout.
Session(k) == IF file[k] # NoFile THEN file[k] ELSE flat[k]

Contents == Ranges \cup {NoFile, Torn}

TypeOK ==
    /\ flat \in [Kilds -> Ranges \cup {NoFile}]
    /\ file \in [Kilds -> Contents] /\ tmp \in [Kilds -> Contents]
    /\ \A k \in Kilds : file[k] # NoFile \/ tmp[k] # NoFile => k \in dir
    /\ dir \subseteq Kilds /\ worktree \subseteq Kilds
    /\ index \in Indexes
    /\ pc \in [Procs -> {"idle", "lookup", "check", "read_dir", "entry", "worktree", "mkdir",
                         "read", "truncate", "write", "rename", "index", "store", "remove", "unlink",
                         "worktrees", "sweep", "clean"}]
    /\ cmd \in [Procs -> Commands]
    /\ branch \in [Procs -> Branches \cup {NoBranch}]
    /\ kild \in [Procs -> Kilds \cup {NoKild}]
    /\ range \in [Procs -> Ranges \cup {NoFile}]
    /\ scan \in [Procs -> {"none", "find", "ports", "list", "orphans", "stale"}]
    /\ todo \in [Procs -> SUBSET (Kilds \X {"flat", "dir"})]
    /\ seen \in [Procs -> SUBSET (Kilds \X Ranges)]
    /\ picked \in [Procs -> SUBSET Kilds]
    /\ map \in [Procs -> Indexes]
    /\ fd \in [Procs -> {"none", "tmp", "live", "gone"}]
    /\ begun \in 0 .. MaxCommands
    /\ raced \in BOOLEAN /\ saved \subseteq Kilds /\ pruned \subseteq Kilds

\* A kild that was saved and not removed can be read, by every reader at every
\* moment and after a crash at any point: session_files.rs and patching.rs
\* write a temp file and rename it.
SavedIsReadable == ~raced => \A k \in saved : Session(k) \in Ranges

\* A branch name stands for one kild, of any project: create looks for the name
\* first, and finds it whatever the index says.
OneKildPerBranch ==
    ~raced => \A k, l \in saved : BranchOf[k] = BranchOf[l] => k = l

\* The last port is given to nobody: calculate_proposed_end stops before it, so
\* that only a session that some other program wrote could have it.
TopIsFree == \A r \in OldRanges : r[2] # Width - 1

\* The port ranges of two kilds have no port in common: create allocates from
\* what it loaded, and the sum that could wrap never does.
PortsDisjoint ==
    ~raced /\ TopIsFree =>
        \A k, l \in saved : k # l /\ {Session(k), Session(l)} \subseteq Ranges
                              => ~Overlap(Session(k), Session(l))

\* cleanup removes no worktree that a saved kild has.
CleanupSparesKilds == ~raced => saved \subseteq worktree \cup pruned
=============================================================================
