--------------------------- MODULE ShimPanes_proofs ---------------------------
(***************************************************************************)
(* Proofs about ShimPanes, for any number of shims, panes and windows.     *)
(*                                                                         *)
(* Typed and Valid registries come from what a shim has in hand between    *)
(* load and save (Commits).  The rest rests on the lock: as long as create *)
(* and destroy keep out of the way, all shims use one directory            *)
(* (OneDirectory), one of them at a time is between load and save          *)
(* (OneHolder), and the file is what it has loaded.                        *)
(***************************************************************************)
EXTENDS ShimPanes, TLAPS

-----------------------------------------------------------------------------
(* The invariant. *)

\* What a shim between load and save is about to do fits the registry it has
\* loaded.
Commits ==
    \A s \in Shims : pc[s] \in Holding =>
        /\ mem[s] \in Registry /\ Valid(mem[s])
        /\ cmd[s] \in Creates \cup {"kill", "change"}
        /\ pc[s] = "create" => cmd[s] \in Creates
        /\ pc[s] = "destroy" => cmd[s] = "kill"
        /\ cmd[s] = "split" => target[s] \in Windows /\ target[s] < mem[s].windows
        /\ cmd[s] = "kill" => target[s] \in Ids
        /\ pc[s] \in {"save", "write"} /\ cmd[s] \in Creates => RoomFor(s)

Shape == TypeOK /\ Commits /\ RegistryIsValid

\* While create and destroy keep apart from the shims.
KeptApart == core \in {"init", "cleanup"} => ShimsIdle

OneDirectory == \A s \in Shims : pc[s] # "idle" => opened[s] = dir /\ dir # 0

OneHolder == \A s, r \in Shims : pc[s] \in Holding /\ pc[r] \in Holding => s = r

Current ==
    \A s \in Shims :
        /\ pc[s] \in {"create", "destroy", "save"} => file = mem[s]
        /\ pc[s] = "write" => file = Torn

Lock == alone => KeptApart /\ OneDirectory /\ OneHolder /\ Current

\* A pane that kill-pane is about to remove has lost its PTY.
Killed == \A s \in Shims :
              pc[s] \in {"save", "write"} /\ cmd[s] = "kill" => target[s] \notin pty

\* No PTY is forgotten at any phase of the kild.
Known ==
    /\ core = "none" => pty = {} /\ ShimsIdle
    /\ core = "init" => pty \subseteq {0}
    /\ core = "cleanup" => pty \subseteq left

ShimInv == /\ Shape /\ Lock
           /\ alone => Killed
           /\ alone /\ sound => Known
           /\ EveryPaneIsListed

-----------------------------------------------------------------------------
(* The registry. *)

\* Adding a pane to a window there is keeps a registry well-formed and valid.
LEMMA WithPaneIsValid ==
    ASSUME NEW r \in Registry, Valid(r), NEW w \in Windows,
           r.next < MaxPanes, w < r.windows
    PROVE  WithPane(r, w) \in Registry /\ Valid(WithPane(r, w))
<1> DEFINE n == WithPane(r, w)
<1>1. r.next \in Ids /\ r.panes[r.next] = NoPane
  BY Bounds, NoneDistinct DEF Registry, Valid, Ids
<1>2. n.next = r.next + 1 /\ n.windows = r.windows
  BY DEF WithPane, Registry
<1>3. n.panes \in [Ids -> Windows \cup {NoPane}] /\ n.panes[r.next] = w
      /\ \A i \in Ids \ {r.next} : n.panes[i] = r.panes[i]
  BY <1>1 DEF WithPane, Registry
<1>4. n.pane_ids \in [Windows -> SUBSET Ids]
      /\ \A v \in Windows : n.pane_ids[v] = IF v = w THEN r.pane_ids[v] \cup {r.next}
                                                     ELSE r.pane_ids[v]
  BY <1>1 DEF WithPane, Registry
<1>5. n \in Registry
  <2>1. n = [next |-> n.next, panes |-> n.panes, windows |-> n.windows,
             pane_ids |-> n.pane_ids]
    BY DEF WithPane
  <2>2. n.next \in 0 .. MaxPanes /\ n.windows \in 1 .. MaxWindows
    BY <1>2, Bounds DEF Registry
  <2> QED BY <2>1, <2>2, <1>3, <1>4 DEF Registry
<1>6. ASSUME NEW i \in Ids, n.panes[i] # NoPane
      PROVE  i < n.next /\ n.panes[i] < n.windows /\ i \in n.pane_ids[n.panes[i]]
  <2>1. CASE i = r.next
    <3>1. i \in n.pane_ids[w]
      BY <2>1, <1>4
    <3> QED BY <3>1, <2>1, <1>2, <1>3, Bounds DEF Registry
  <2>2. CASE i # r.next
    <3>1. n.panes[i] = r.panes[i] /\ r.panes[i] \in Windows
      BY <2>2, <1>3, <1>6 DEF Registry
    <3>2. i < r.next /\ r.panes[i] < r.windows /\ i \in r.pane_ids[r.panes[i]]
      BY <3>1, <1>6 DEF Valid
    <3>3. i \in n.pane_ids[r.panes[i]]
      BY <3>1, <3>2, <1>4
    <3> QED BY <3>1, <3>2, <3>3, <1>2, Bounds DEF Registry, Ids
  <2> QED BY <2>1, <2>2
<1>7. ASSUME NEW v \in Windows, NEW i \in n.pane_ids[v]
      PROVE  n.panes[i] = v
  <2>1. CASE i = r.next
    <3>1. r.next \notin r.pane_ids[v]
      BY <1>1, NoneDistinct DEF Valid, Windows
    <3> QED BY <3>1, <2>1, <1>3, <1>4, <1>7
  <2>2. CASE i # r.next
    <3>1. i \in r.pane_ids[v] /\ i \in Ids
      BY <2>2, <1>4, <1>7 DEF Registry
    <3> QED BY <3>1, <2>2, <1>3 DEF Valid
  <2> QED BY <2>1, <2>2
<1> QED BY <1>5, <1>6, <1>7 DEF Valid

LEMMA WithWindowIsValid ==
    ASSUME NEW r \in Registry, Valid(r), r.windows < MaxWindows
    PROVE  /\ WithWindow(r) \in Registry /\ Valid(WithWindow(r))
           /\ r.windows \in Windows /\ r.windows < WithWindow(r).windows
           /\ WithWindow(r).next = r.next
<1> DEFINE n == WithWindow(r)
<1>1. n = [next |-> r.next, panes |-> r.panes, windows |-> r.windows + 1,
           pane_ids |-> r.pane_ids]
  BY DEF WithWindow, Registry
<1>2. n \in Registry
  BY <1>1, Bounds DEF Registry
<1>3. \A i \in Ids : r.panes[i] # NoPane => r.panes[i] \in Windows
  BY DEF Registry
<1>4. Valid(n)
  BY <1>1, <1>3, Bounds DEF Valid, Registry, Windows
<1> QED BY <1>1, <1>2, <1>4, Bounds DEF Registry, Windows

LEMMA WithoutPaneIsValid ==
    ASSUME NEW r \in Registry, Valid(r), NEW i \in Ids
    PROVE  WithoutPane(r, i) \in Registry /\ Valid(WithoutPane(r, i))
<1> DEFINE n == WithoutPane(r, i)
<1>1. n = [next |-> r.next, panes |-> [r.panes EXCEPT ![i] = NoPane],
           windows |-> r.windows,
           pane_ids |-> [r.pane_ids EXCEPT ![r.panes[i]] = @ \ {i}]]
  BY DEF WithoutPane
<1>2. /\ r.panes \in [Ids -> Windows \cup {NoPane}] /\ r.pane_ids \in [Windows -> SUBSET Ids]
      /\ r.next \in 0 .. MaxPanes /\ r.windows \in 1 .. MaxWindows
  BY DEF Registry
<1>3. n.panes[i] = NoPane /\ \A j \in Ids \ {i} : n.panes[j] = r.panes[j]
  BY <1>1, <1>2
<1>4. \A w \in Windows : n.pane_ids[w] = IF w = r.panes[i] THEN r.pane_ids[w] \ {i}
                                                           ELSE r.pane_ids[w]
  <2>1. n.pane_ids = [r.pane_ids EXCEPT ![r.panes[i]] = r.pane_ids[r.panes[i]] \ {i}]
    BY <1>1
  <2> QED BY <2>1, <1>2
<1>10. n \in Registry
  <2>1. n.panes \in [Ids -> Windows \cup {NoPane}]
    BY <1>1, <1>2
  <2>2. n.pane_ids = [r.pane_ids EXCEPT ![r.panes[i]] = r.pane_ids[r.panes[i]] \ {i}]
    BY <1>1
  <2>3. n.pane_ids \in [Windows -> SUBSET Ids]
    <3>1. r.panes[i] \in Windows => r.pane_ids[r.panes[i]] \ {i} \in SUBSET Ids
      BY <1>2
    <3> QED BY <3>1, <2>2, <1>2
  <2>4. n = [next |-> r.next, panes |-> n.panes, windows |-> r.windows, pane_ids |-> n.pane_ids]
    BY <1>1
  <2> HIDE DEF n
  <2> QED BY <2>1, <2>3, <2>4, <1>2 DEF Registry
<1>5. ASSUME NEW j \in Ids, n.panes[j] # NoPane
      PROVE  j < n.next /\ n.panes[j] < n.windows /\ j \in n.pane_ids[n.panes[j]]
  <2>1. j # i /\ n.panes[j] = r.panes[j] /\ r.panes[j] \in Windows
    BY <1>3, <1>5 DEF Registry
  <2>2. j < r.next /\ r.panes[j] < r.windows /\ j \in r.pane_ids[r.panes[j]]
    BY <2>1, <1>5 DEF Valid
  <2> QED BY <2>1, <2>2, <1>4, <1>1
<1>6. ASSUME NEW w \in Windows, NEW j \in n.pane_ids[w]
      PROVE  n.panes[j] = w
  <2>1. j \in r.pane_ids[w] /\ j \in Ids
    BY <1>4, <1>6 DEF Registry
  <2>2. r.panes[j] = w
    BY <2>1 DEF Valid
  <2>3. j # i
    BY <2>2, <1>4, <1>6
  <2> QED BY <2>1, <2>2, <2>3, <1>3
<1> QED BY <1>10, <1>5, <1>6 DEF Valid

LEMMA InitialIsValid == InitialRegistry \in Registry /\ Valid(InitialRegistry)
<1>1. InitialRegistry \in Registry
  BY Bounds DEF InitialRegistry, Registry, Ids, Windows
<1>2. Valid(InitialRegistry)
  <2>1. /\ \A i \in Ids : InitialRegistry.panes[i] = IF i = 0 THEN 0 ELSE NoPane
        /\ \A w \in Windows : InitialRegistry.pane_ids[w] = IF w = 0 THEN {0} ELSE {}
        /\ InitialRegistry.next = 1 /\ InitialRegistry.windows = 1
    BY DEF InitialRegistry
  <2>2. 0 \in Windows /\ 0 \in Ids
    BY Bounds DEF Windows, Ids
  <2>3. \A i \in Ids : InitialRegistry.panes[i] # NoPane =>
            /\ i < 1 /\ InitialRegistry.panes[i] < 1
            /\ i \in InitialRegistry.pane_ids[InitialRegistry.panes[i]]
    BY <2>1, <2>2
  <2>4. \A w \in Windows : \A i \in InitialRegistry.pane_ids[w] : InitialRegistry.panes[i] = w
    BY <2>1, <2>2
  <2> QED BY <2>1, <2>3, <2>4 DEF Valid
<1> QED BY <1>1, <1>2

\* What a shim saves is well-formed and valid.
LEMMA ResultIsValid ==
    ASSUME TypeOK, Commits, NEW s \in Shims, pc[s] \in {"save", "write"}
    PROVE  LET r == Result(cmd[s], target[s], mem[s]) IN r \in Registry /\ Valid(r)
<1>1. /\ mem[s] \in Registry /\ Valid(mem[s])
      /\ cmd[s] \in Creates \cup {"kill", "change"}
      /\ cmd[s] = "split" => target[s] \in Windows /\ target[s] < mem[s].windows
      /\ cmd[s] = "kill" => target[s] \in Ids
      /\ cmd[s] \in Creates => RoomFor(s)
  BY DEF Commits, Holding
<1>2. CASE cmd[s] = "split"
  <2>1. mem[s].next < MaxPanes
    BY <1>1, <1>2 DEF RoomFor, Creates
  <2> QED BY <1>1, <1>2, <2>1, WithPaneIsValid DEF Result
<1>3. CASE cmd[s] = "window"
  <2>1. mem[s].next < MaxPanes /\ mem[s].windows < MaxWindows
    BY <1>1, <1>3 DEF RoomFor, Creates
  <2> DEFINE m == WithWindow(mem[s])
  <2>2. m \in Registry /\ Valid(m) /\ mem[s].windows \in Windows
        /\ mem[s].windows < m.windows /\ m.next < MaxPanes
    BY <1>1, <2>1, WithWindowIsValid
  <2> HIDE DEF m
  <2>3. WithPane(m, mem[s].windows) \in Registry /\ Valid(WithPane(m, mem[s].windows))
    BY <2>2, WithPaneIsValid
  <2> QED BY <2>3, <1>3 DEF Result, m
<1>4. CASE cmd[s] = "kill"
  BY <1>1, <1>4, WithoutPaneIsValid DEF Result
<1>5. CASE cmd[s] = "change"
  BY <1>1, <1>5 DEF Result
<1> QED BY <1>1, <1>2, <1>3, <1>4, <1>5 DEF Creates

\* What a shim saves lists what it has loaded but for the pane it kills, and the
\* pane it has created.
LEMMA ResultLists ==
    ASSUME TypeOK, Commits, NEW s \in Shims, pc[s] \in {"create", "save", "write"},
           cmd[s] \in Creates => RoomFor(s)
    PROVE  LET r == Result(cmd[s], target[s], mem[s])
           IN  /\ \A i \in Ids : mem[s].panes[i] # NoPane /\ ~(cmd[s] = "kill" /\ i = target[s])
                                   => r.panes[i] # NoPane
               /\ cmd[s] \in Creates => mem[s].next \in Ids /\ r.panes[mem[s].next] # NoPane
<1>1. /\ mem[s] \in Registry
      /\ cmd[s] \in Creates \cup {"kill", "change"}
      /\ cmd[s] = "split" => target[s] \in Windows
      /\ cmd[s] = "kill" => target[s] \in Ids
  BY DEF Commits, Holding
<1>2. CASE cmd[s] = "split"
  <2>1. mem[s].next < MaxPanes
    BY <1>1, <1>2 DEF RoomFor, Creates
  <2>2. mem[s].next \in Ids /\ target[s] # NoPane
    BY <2>1, <1>1, <1>2, NoneDistinct, Bounds DEF Registry, Ids, Windows
  <2> QED BY <1>1, <1>2, <2>2 DEF Result, WithPane, Registry, Creates
<1>3. CASE cmd[s] = "window"
  <2>1. mem[s].next < MaxPanes
    BY <1>1, <1>3 DEF RoomFor, Creates
  <2>2. mem[s].next \in Ids /\ mem[s].windows # NoPane
    BY <2>1, <1>1, <1>3, NoneDistinct, Bounds DEF Registry, Ids
  <2> QED BY <1>1, <1>3, <2>2 DEF Result, WithPane, WithWindow, Registry, Creates
<1>4. CASE cmd[s] = "kill"
  BY <1>1, <1>4 DEF Result, WithoutPane, Registry, Creates
<1>5. CASE cmd[s] = "change"
  BY <1>1, <1>5 DEF Result, Creates
<1> QED BY <1>1, <1>2, <1>3, <1>4, <1>5 DEF Creates

-----------------------------------------------------------------------------
(* Types, what shims have in hand, and validity. *)

LEMMA InitShape == Init => Shape
<1> SUFFICES ASSUME Init PROVE Shape
  OBVIOUS
<1>1. TypeOK
  BY Bounds DEF Init, TypeOK, Ids, Windows, Commands, Creates
<1>2. Commits /\ RegistryIsValid
  BY DEF Init, Commits, RegistryIsValid, Holding
<1> QED BY <1>1, <1>2 DEF Shape

\* The end of a command forgets what it had in hand.
LEMMA ReturnTyped ==
    ASSUME TypeOK, Commits, NEW s \in Shims, Return(s)
    PROVE  /\ pc' \in [Shims -> Holding \cup {"idle", "lock"}] /\ cmd' \in [Shims -> Commands]
           /\ target' \in [Shims -> Ids \cup Windows] /\ opened' \in [Shims -> 0 .. MaxDirs]
           /\ mem' \in [Shims -> Registry \cup {NoFile}]
           /\ Commits'
<1>1. 0 \in Ids /\ 0 \in 0 .. MaxDirs
  BY Bounds DEF Ids
<1>2. /\ pc' \in [Shims -> Holding \cup {"idle", "lock"}] /\ cmd' \in [Shims -> Commands]
      /\ target' \in [Shims -> Ids \cup Windows] /\ opened' \in [Shims -> 0 .. MaxDirs]
      /\ mem' \in [Shims -> Registry \cup {NoFile}]
  BY <1>1 DEF TypeOK, Return, Commands
<1>3. \A r \in Shims : pc'[r] \in Holding =>
          /\ pc'[r] = pc[r] /\ cmd'[r] = cmd[r] /\ target'[r] = target[r] /\ mem'[r] = mem[r]
  BY DEF TypeOK, Return, Holding
<1>4. Commits'
  BY <1>3 DEF Commits, RoomFor
<1> QED BY <1>2, <1>4

LEMMA ShapeStep == Shape /\ [Next]_vars => Shape'
<1> SUFFICES ASSUME Shape, [Next]_vars PROVE Shape'
  OBVIOUS
<1> USE DEF Shape
<1>1. ASSUME NEW s \in Shims, NEW c \in Commands, OpenLock(s, c) PROVE Shape'
  <2>1. dir' \in 0 .. MaxDirs /\ dirs' \in 0 .. MaxDirs
    BY <1>1, Bounds DEF OpenLock, EnsureDir, TypeOK
  <2>2. TypeOK'
    BY <1>1, <2>1 DEF OpenLock, TypeOK, kild
  <2>3. Commits'
    BY <1>1 DEF OpenLock, Commits, TypeOK, Holding, RoomFor
  <2> QED BY <1>1, <2>2, <2>3 DEF RegistryIsValid, OpenLock
<1>2. ASSUME NEW s \in Shims, NEW i \in Ids, Load(s, i) PROVE Shape'
  <2>1. file \in Registry /\ Valid(file)
    BY <1>2 DEF Load, TypeOK, RegistryIsValid
  <2>2. WindowOf(file, i) \in Windows /\ WindowOf(file, i) < file.windows
    BY <2>1, Bounds DEF WindowOf, Registry, Valid, Windows
  <2>3. 0 \in Ids
    BY Bounds DEF Ids
  <2>4. TypeOK'
    BY <1>2, <2>1, <2>2, <2>3 DEF Load, Choose, TypeOK, kild, Holding
  <2>5. \A r \in Shims \ {s} : /\ pc'[r] = pc[r] /\ cmd'[r] = cmd[r]
                               /\ target'[r] = target[r] /\ mem'[r] = mem[r]
    BY <1>2 DEF Load, Choose, TypeOK
  <2>6. /\ pc'[s] \in {"create", "destroy", "save"} /\ cmd'[s] = cmd[s] /\ mem'[s] = file
        /\ \/ cmd[s] = "split" /\ pc'[s] = "create" /\ target'[s] = WindowOf(file, i)
           \/ cmd[s] = "kill" /\ pc'[s] = "destroy" /\ target'[s] = i
           \/ cmd[s] = "window" /\ pc'[s] = "create"
           \/ cmd[s] = "change" /\ pc'[s] = "save"
    BY <1>2 DEF Load, Choose, TypeOK
  <2>7. Commits'
    BY <2>1, <2>2, <2>5, <2>6 DEF Commits, RoomFor, Creates
  <2> QED BY <1>2, <2>4, <2>7 DEF RegistryIsValid, Load
<1>3. ASSUME NEW s \in Shims,
             LoadOnly(s) \/ LoadFails(s) \/ CreateSessionFails(s)
                         \/ DestroySessionFails(s) \/ SaveFails(s) \/ Die(s)
      PROVE  Shape'
  <2>1. Return(s) /\ UNCHANGED <<file, dir, dirs, pty, kild, alone>> /\ sound' \in BOOLEAN
    BY <1>3 DEF LoadOnly, LoadFails, CreateSessionFails, DestroySessionFails, SaveFails, Die,
                TypeOK
  <2>2. TypeOK' /\ Commits'
    BY <2>1, ReturnTyped DEF TypeOK, kild
  <2> QED BY <2>1, <2>2 DEF RegistryIsValid
<1>4. ASSUME NEW s \in Shims, CreateSession(s) PROVE Shape'
  <2>1. mem[s] \in Registry /\ mem[s].next \in Ids
    BY <1>4, Bounds DEF CreateSession, Commits, Holding, RoomFor, Registry, Ids
  <2>2. TypeOK'
    BY <1>4, <2>1 DEF CreateSession, Goto, TypeOK, kild, Holding
  <2>3. /\ UNCHANGED <<cmd, target, mem>> /\ pc[s] = "create" /\ pc'[s] = "save" /\ RoomFor(s)
        /\ \A r \in Shims \ {s} : pc'[r] = pc[r]
    BY <1>4 DEF CreateSession, Goto, TypeOK
  <2>4. Commits'
    BY <2>3 DEF Commits, Holding, RoomFor
  <2> QED BY <1>4, <2>2, <2>4 DEF RegistryIsValid, CreateSession
<1>5. ASSUME NEW s \in Shims, CreateSessionUnanswered(s) PROVE Shape'
  <2>1. mem[s] \in Registry /\ mem[s].next \in Ids
    BY <1>5, Bounds DEF CreateSessionUnanswered, Commits, Holding, RoomFor, Registry, Ids
  <2>2. TypeOK' /\ Commits'
    BY <1>5, <2>1, ReturnTyped DEF CreateSessionUnanswered, TypeOK, kild
  <2> QED BY <1>5, <2>2 DEF RegistryIsValid, CreateSessionUnanswered
<1>6. ASSUME NEW s \in Shims, DestroySession(s) PROVE Shape'
  <2>1. TypeOK'
    BY <1>6 DEF DestroySession, Goto, TypeOK, kild, Holding
  <2>2. /\ UNCHANGED <<cmd, target, mem>> /\ pc[s] = "destroy" /\ pc'[s] = "save"
        /\ \A r \in Shims \ {s} : pc'[r] = pc[r]
    BY <1>6 DEF DestroySession, Goto, TypeOK
  <2>3. Commits'
    BY <2>2 DEF Commits, Holding, RoomFor, Creates
  <2> QED BY <1>6, <2>1, <2>3 DEF RegistryIsValid, DestroySession
<1>7. ASSUME NEW s \in Shims, SaveTruncates(s) PROVE Shape'
  <2>1. TypeOK'
    BY <1>7 DEF SaveTruncates, TypeOK, kild, Holding
  <2>2. /\ UNCHANGED <<cmd, target, mem>> /\ pc[s] = "save" /\ pc'[s] = "write"
        /\ \A r \in Shims \ {s} : pc'[r] = pc[r]
    BY <1>7 DEF SaveTruncates, TypeOK
  <2>3. Commits'
    BY <2>2 DEF Commits, Holding, RoomFor
  <2> QED BY <1>7, <2>1, <2>3 DEF RegistryIsValid, SaveTruncates
<1>8. ASSUME NEW s \in Shims, SaveWrites(s) PROVE Shape'
  <2> DEFINE r == Result(cmd[s], target[s], mem[s])
  <2>1. r \in Registry /\ Valid(r)
    BY <1>8, ResultIsValid DEF SaveWrites
  <2> HIDE DEF r
  <2>2. file' \in {r, file} /\ Return(s)
    BY <1>8 DEF SaveWrites, r
  <2>3. TypeOK' /\ Commits'
    BY <1>8, <2>1, <2>2, ReturnTyped DEF SaveWrites, TypeOK, kild
  <2> QED BY <2>1, <2>2, <2>3 DEF RegistryIsValid
<1>9. ASSUME SpawnLeader \/ InitPaneRegistryFails \/ CleanupReads \/ DaemonStops
             \/ \E i \in Ids : StopTeammate(i) \/ CleanupDestroys(i)
      PROVE  Shape'
  <2>1. UNCHANGED <<file, dir, dirs, shim>>
    BY <1>9 DEF SpawnLeader, InitPaneRegistryFails, CleanupReads, DaemonStops, StopTeammate,
                CleanupDestroys
  <2>2. 0 \in Ids /\ ChildPanes \subseteq Ids
    BY Bounds DEF Ids, ChildPanes
  <2>3. pty' \subseteq Ids /\ left' \subseteq Ids /\ alone' \in BOOLEAN /\ sound' \in BOOLEAN
        /\ core' \in {"none", "init", "live", "cleanup"}
    BY <1>9, <2>2 DEF SpawnLeader, InitPaneRegistryFails, CleanupReads, DaemonStops, StopTeammate,
                CleanupDestroys, kild, ShimsIdle, TypeOK
  <2>4. TypeOK'
    BY <2>1, <2>3 DEF TypeOK, shim
  <2>5. Commits' /\ RegistryIsValid'
    BY <2>1 DEF Commits, RegistryIsValid, RoomFor, shim
  <2> QED BY <2>4, <2>5
<1>10. CASE InitPaneRegistry
  <2>1. dir' \in 0 .. MaxDirs /\ dirs' \in 0 .. MaxDirs
    BY <1>10, Bounds DEF InitPaneRegistry, EnsureDir, TypeOK
  <2>2. TypeOK'
    BY <1>10, <2>1, InitialIsValid DEF InitPaneRegistry, TypeOK, shim
  <2>3. Commits' /\ RegistryIsValid'
    BY <1>10, InitialIsValid DEF InitPaneRegistry, Commits, RegistryIsValid, RoomFor, shim
  <2> QED BY <2>2, <2>3
<1>11. CASE CleanupRemovesDir
  <2>1. TypeOK'
    BY <1>11, Bounds DEF CleanupRemovesDir, TypeOK, shim
  <2>2. Commits' /\ RegistryIsValid'
    BY <1>11 DEF CleanupRemovesDir, Commits, RegistryIsValid, RoomFor, shim
  <2> QED BY <2>1, <2>2
<1>12. CASE UNCHANGED vars
  BY <1>12 DEF vars, shim, kild, TypeOK, Commits, RegistryIsValid, RoomFor
<1> QED BY <1>1, <1>2, <1>3, <1>4, <1>5, <1>6, <1>7, <1>8, <1>9, <1>10, <1>11, <1>12 DEF Next

-----------------------------------------------------------------------------
(* The lock. *)

\* The locals of the other shims stay as they are.
Others(s) == \A r \in Shims \ {s} : /\ pc'[r] = pc[r] /\ cmd'[r] = cmd[r]
                                    /\ target'[r] = target[r] /\ opened'[r] = opened[r]
                                    /\ mem'[r] = mem[r]

LEMMA OthersStay ==
    ASSUME TypeOK, NEW s \in Shims,
           \/ \E c \in Commands : OpenLock(s, c)
           \/ \E i \in Ids : Load(s, i)
           \/ Return(s)
           \/ \E next \in {"save"} : Goto(s, next)
           \/ SaveTruncates(s)
    PROVE  Others(s)
  BY DEF TypeOK, OpenLock, Load, Choose, Return, Goto, SaveTruncates, Others

\* A command that ends leaves the lock to the others.
LEMMA ReturnReleases ==
    ASSUME TypeOK, Lock, alone, NEW s \in Shims, Return(s), dir' = dir,
           file' = file \/ pc[s] \in Holding, core' = core
    PROVE  Lock'
<1>1. Others(s) /\ pc'[s] = "idle"
  BY OthersStay DEF Return, TypeOK
<1>2. KeptApart'
  BY <1>1 DEF Lock, KeptApart, ShimsIdle, Others
<1>3. OneDirectory' /\ OneHolder'
  BY <1>1 DEF Lock, OneDirectory, OneHolder, Others, Holding
<1>4. ASSUME NEW r \in Shims, pc'[r] \in Holding PROVE r # s /\ file' = file
  BY <1>1, <1>4 DEF Lock, OneHolder, Others, Holding
<1>5. Current'
  BY <1>1, <1>4 DEF Lock, Current, Others, Holding
<1> QED BY <1>2, <1>3, <1>5 DEF Lock

LEMMA LockStep == Shape /\ Lock /\ [Next]_vars => Lock'
<1> SUFFICES ASSUME Shape, Lock, [Next]_vars, alone' PROVE Lock'
  BY DEF Lock
<1> USE DEF Shape
<1>0. CASE UNCHANGED vars
  BY <1>0 DEF vars, shim, kild, Lock, KeptApart, OneDirectory, OneHolder, Current, ShimsIdle
<1>1. ASSUME NEW s \in Shims, NEW c \in Commands, OpenLock(s, c) PROVE Lock'
  <2>1. alone /\ core \in {"none", "live"} /\ core' = core /\ file' = file
        /\ pc[s] = "idle" /\ pc'[s] = "lock" /\ opened'[s] = dir'
    BY <1>1 DEF OpenLock, kild, TypeOK
  <2>2. dir' # 0 /\ (dir # 0 => dir' = dir)
    BY <1>1, Bounds DEF OpenLock, EnsureDir, TypeOK
  <2>3. Others(s)
    BY <1>1, OthersStay
  <2>4. OneDirectory'
    BY <2>1, <2>2, <2>3 DEF Lock, OneDirectory, Others
  <2>5. KeptApart' /\ OneHolder' /\ Current'
    BY <2>1, <2>3 DEF Lock, KeptApart, OneHolder, Current, Others, Holding
  <2> QED BY <2>4, <2>5 DEF Lock
<1>2. ASSUME NEW s \in Shims, NEW i \in Ids, Load(s, i) PROVE Lock'
  <2>1. alone /\ UNCHANGED <<file, dir, core, opened>> /\ pc[s] = "lock"
        /\ pc'[s] \in {"create", "destroy", "save"} /\ mem'[s] = file /\ LockIsFree(s)
    BY <1>2 DEF Load, Choose, kild, TypeOK
  <2>2. Others(s)
    BY <1>2, OthersStay
  <2>3. \A r \in Shims \ {s} : pc[r] \notin Holding
    BY <2>1 DEF LockIsFree, Lock, OneDirectory, Holding
  <2>4. KeptApart' /\ OneDirectory' /\ OneHolder' /\ Current'
    BY <2>1, <2>2, <2>3 DEF Lock, KeptApart, ShimsIdle, OneDirectory, OneHolder, Current, Others, Holding
  <2> QED BY <2>4 DEF Lock
<1>3. ASSUME NEW s \in Shims,
             \/ LoadOnly(s) \/ LoadFails(s) \/ CreateSessionFails(s) \/ CreateSessionUnanswered(s)
             \/ DestroySessionFails(s) \/ SaveFails(s) \/ SaveWrites(s) \/ Die(s)
      PROVE  Lock'
  <2>1. Return(s) /\ UNCHANGED <<dir, core, alone>> /\ (file' = file \/ pc[s] \in Holding)
    BY <1>3 DEF LoadOnly, LoadFails, CreateSessionFails, CreateSessionUnanswered,
                DestroySessionFails, SaveFails, SaveWrites, Die, kild, Holding
  <2> QED BY <2>1, ReturnReleases
<1>4. ASSUME NEW s \in Shims, CreateSession(s) \/ DestroySession(s) PROVE Lock'
  <2>1. /\ alone /\ UNCHANGED <<file, dir, core, opened, mem>> /\ Goto(s, "save")
        /\ pc[s] \in {"create", "destroy"} /\ pc'[s] = "save"
    BY <1>4 DEF CreateSession, DestroySession, Goto, kild, TypeOK
  <2>2. Others(s)
    BY <2>1, OthersStay
  <2>3. KeptApart' /\ OneDirectory' /\ OneHolder' /\ Current'
    BY <2>1, <2>2 DEF Lock, KeptApart, ShimsIdle, OneDirectory, OneHolder, Current, Others, Holding
  <2> QED BY <2>3 DEF Lock
<1>5. ASSUME NEW s \in Shims, SaveTruncates(s) PROVE Lock'
  <2>1. /\ alone /\ UNCHANGED <<dir, core>> /\ file' = Torn
        /\ pc[s] = "save" /\ pc'[s] = "write" /\ dir # 0 /\ opened'[s] = dir
    BY <1>5 DEF SaveTruncates, kild, TypeOK
  <2>2. Others(s)
    BY <1>5, OthersStay
  <2>3. KeptApart' /\ OneDirectory' /\ OneHolder'
    BY <2>1, <2>2 DEF Lock, KeptApart, ShimsIdle, OneDirectory, OneHolder, Others, Holding
  <2>4. \A r \in Shims \ {s} : pc'[r] \notin Holding
    BY <2>1, <2>2 DEF Lock, OneHolder, Others, Holding
  <2>5. Current'
    BY <2>1, <2>4 DEF Current, Holding
  <2> QED BY <2>3, <2>5 DEF Lock
<1>6. CASE SpawnLeader \/ CleanupReads \/ InitPaneRegistry \/ InitPaneRegistryFails
           \/ CleanupRemovesDir \/ \E i \in Ids : CleanupDestroys(i)
  <2>1. ShimsIdle /\ UNCHANGED shim
    BY <1>6 DEF SpawnLeader, CleanupReads, InitPaneRegistry, InitPaneRegistryFails,
                CleanupRemovesDir, CleanupDestroys, Lock, KeptApart
  <2>2. ShimsIdle'
    BY <2>1 DEF ShimsIdle, shim
  <2> QED BY <2>2 DEF Lock, KeptApart, ShimsIdle, OneDirectory, OneHolder, Current, Holding
<1>7. CASE DaemonStops \/ \E i \in Ids : StopTeammate(i)
  <2>1. UNCHANGED <<file, dir, shim, core, alone>>
    BY <1>7 DEF DaemonStops, StopTeammate, kild
  <2> QED BY <2>1 DEF shim, Lock, KeptApart, OneDirectory, OneHolder, Current, ShimsIdle
<1> QED BY <1>0, <1>1, <1>2, <1>3, <1>4, <1>5, <1>6, <1>7 DEF Next

-----------------------------------------------------------------------------
(* PTYs and the panes listed. *)

\* A pane created for another command is not the one that kill-pane removes,
\* since only one of them holds the lock.
LEMMA KilledStep ==
    ASSUME Shape, Lock, alone, Killed, [Next]_vars, alone' PROVE Killed'
<1> USE DEF Shape
<1>1. ASSUME NEW s \in Shims,
             \/ \E c \in Commands : OpenLock(s, c)
             \/ \E i \in Ids : Load(s, i)
             \/ SaveTruncates(s)
      PROVE  Killed'
  <2>1. Others(s) /\ pty' = pty
    BY <1>1, OthersStay DEF OpenLock, Load, SaveTruncates
  <2>2. pc'[s] \in {"save", "write"} /\ cmd'[s] = "kill" => target'[s] \notin pty
    BY <1>1 DEF OpenLock, Load, Choose, SaveTruncates, TypeOK, Killed
  <2> QED BY <2>1, <2>2 DEF Killed, Others
<1>2. ASSUME NEW s \in Shims,
             \/ LoadOnly(s) \/ LoadFails(s) \/ CreateSessionFails(s)
             \/ DestroySessionFails(s) \/ SaveFails(s) \/ SaveWrites(s) \/ Die(s)
      PROVE  Killed'
  <2>1. Return(s) /\ pty' = pty
    BY <1>2 DEF LoadOnly, LoadFails, CreateSessionFails, DestroySessionFails, SaveFails,
                SaveWrites, Die
  <2>2. Others(s) /\ pc'[s] = "idle"
    BY <2>1, OthersStay DEF Return, TypeOK
  <2> QED BY <2>1, <2>2 DEF Killed, Others
<1>3. ASSUME NEW s \in Shims, CreateSession(s) \/ CreateSessionUnanswered(s) PROVE Killed'
  <2>1. Others(s) /\ pc[s] = "create"
    BY <1>3, OthersStay DEF CreateSession, CreateSessionUnanswered
  <2>2. \A r \in Shims \ {s} : pc'[r] \notin Holding
    BY <2>1 DEF Lock, OneHolder, Others, Holding
  <2>3. cmd[s] # "kill"
    BY <2>1 DEF Commits, Holding, Creates
  <2>4. pc'[s] = "idle" \/ cmd'[s] = cmd[s]
    BY <1>3 DEF CreateSession, CreateSessionUnanswered, Return, Goto, TypeOK
  <2> QED BY <2>2, <2>3, <2>4 DEF Killed, Holding
<1>4. ASSUME NEW s \in Shims, DestroySession(s) PROVE Killed'
  <2>1. Others(s) /\ pty' = pty \ {target[s]} /\ target' = target
    BY <1>4, OthersStay DEF DestroySession, Goto
  <2> QED BY <2>1 DEF Killed, Others
<1>5. CASE SpawnLeader
  BY <1>5 DEF SpawnLeader, ShimsIdle, Killed, shim
<1>6. CASE \/ InitPaneRegistry \/ InitPaneRegistryFails \/ CleanupReads \/ CleanupRemovesDir
           \/ DaemonStops \/ \E i \in Ids : StopTeammate(i) \/ CleanupDestroys(i)
  <2>1. UNCHANGED shim /\ pty' \subseteq pty
    BY <1>6 DEF InitPaneRegistry, InitPaneRegistryFails, CleanupReads, CleanupRemovesDir,
                DaemonStops, StopTeammate, CleanupDestroys
  <2> QED BY <2>1 DEF Killed, shim
<1>7. CASE UNCHANGED vars
  BY <1>7 DEF Killed, vars, shim
<1> QED BY <1>1, <1>2, <1>3, <1>4, <1>5, <1>6, <1>7 DEF Next

\* destroy finds in the registry all that is left to destroy.
LEMMA KnownStep ==
    ASSUME Shape, Lock, alone, sound, Known, EveryPaneIsListed, [Next]_vars, alone', sound'
    PROVE  Known'
<1>1. ASSUME NEW s \in Shims,
             \/ \E c \in Commands : OpenLock(s, c)
             \/ \E i \in Ids : Load(s, i)
             \/ LoadOnly(s) \/ LoadFails(s)
             \/ CreateSession(s) \/ CreateSessionFails(s) \/ CreateSessionUnanswered(s)
             \/ DestroySession(s) \/ DestroySessionFails(s)
             \/ SaveTruncates(s) \/ SaveWrites(s) \/ SaveFails(s) \/ Die(s)
      PROVE  Known'
  <2>1. pc[s] # "idle" \/ pty # {}
    BY <1>1 DEF OpenLock, Load, LoadOnly, LoadFails, CreateSession, CreateSessionFails,
                CreateSessionUnanswered, DestroySession, DestroySessionFails, SaveTruncates,
                SaveWrites, SaveFails, Die, Holding
  <2>2. core' = core /\ (core \in {"none", "live"} \/ pc[s] # "idle")
    BY <1>1 DEF OpenLock, Load, LoadOnly, LoadFails, CreateSession, CreateSessionFails,
                CreateSessionUnanswered, DestroySession, DestroySessionFails, SaveTruncates,
                SaveWrites, SaveFails, Die, Holding, kild
  <2>3. core \notin {"init", "cleanup"}
    BY <2>2 DEF Lock, KeptApart, ShimsIdle
  <2>4. core # "none"
    BY <2>1 DEF Known, ShimsIdle
  <2> QED BY <2>2, <2>3, <2>4 DEF Known
<1>2. CASE SpawnLeader
  BY <1>2 DEF SpawnLeader, Known
<1>3. CASE InitPaneRegistry \/ InitPaneRegistryFails
  BY <1>3 DEF InitPaneRegistry, InitPaneRegistryFails, Known
<1>4. CASE CleanupReads
  <2>1. pty \ {0} \subseteq ChildPanes
    BY <1>4 DEF CleanupReads, EveryPaneIsListed, ShimsIdle, ChildPanes, Shape, TypeOK
  <2> QED BY <1>4, <2>1 DEF CleanupReads, Known
<1>5. CASE CleanupRemovesDir
  <2>1. pty = {} /\ ShimsIdle
    BY <1>5 DEF CleanupRemovesDir, Known, Lock, KeptApart
  <2> QED BY <1>5, <2>1 DEF CleanupRemovesDir, Known, ShimsIdle, shim
<1>6. ASSUME NEW i \in Ids, CleanupDestroys(i) PROVE Known'
  BY <1>6 DEF CleanupDestroys, Known
<1>7. CASE DaemonStops \/ \E i \in Ids : StopTeammate(i)
  BY <1>7 DEF DaemonStops, StopTeammate, Known, ShimsIdle, shim, kild
<1>8. CASE UNCHANGED vars
  BY <1>8 DEF vars, shim, kild, Known, ShimsIdle
<1> QED BY <1>1, <1>2, <1>3, <1>4, <1>5, <1>6, <1>7, <1>8 DEF Next

\* What keeps a pane listed: the file, or the shim that is saving.
Listed(i) == \/ file \notin {NoFile, Torn} /\ file.panes[i] # NoPane
             \/ \E s \in Shims : /\ pc[s] \in {"save", "write"}
                                 /\ Result(cmd[s], target[s], mem[s]).panes[i] # NoPane

\* A step that leaves the file and the shims that save as they are unlists none.
LEMMA ListedStays ==
    ASSUME TypeOK, NEW i \in Ids, Listed(i), file' = file,
           \/ UNCHANGED shim
           \/ \E s \in Shims : Others(s) /\ pc[s] \notin {"save", "write"}
    PROVE  Listed(i)'
<1>1. CASE UNCHANGED shim
  BY <1>1 DEF Listed, shim
<1>2. ASSUME NEW s \in Shims, Others(s), pc[s] \notin {"save", "write"} PROVE Listed(i)'
  BY <1>2 DEF Listed, Others
<1> QED BY <1>1, <1>2

LEMMA ListedStep ==
    ASSUME Shape, Lock, alone => Killed, alone /\ sound => Known, EveryPaneIsListed, [Next]_vars
    PROVE  EveryPaneIsListed'
<1> SUFFICES ASSUME alone', sound', core' \in {"none", "live"}, NEW i \in pty', i # 0
             PROVE  Listed(i)'
  BY DEF EveryPaneIsListed, Listed
<1> USE DEF Shape
<1>1. alone /\ sound
  BY DEF Next, OpenLock, Load, LoadOnly, LoadFails, CreateSession, CreateSessionFails,
         CreateSessionUnanswered, DestroySession, DestroySessionFails, SaveTruncates,
         SaveWrites, SaveFails, Die, SpawnLeader, InitPaneRegistry, InitPaneRegistryFails,
         StopTeammate, CleanupReads, CleanupDestroys, CleanupRemovesDir, DaemonStops, vars
<1>2. ASSUME i \in pty, core \in {"none", "live"} PROVE Listed(i) /\ i \in Ids
  BY <1>1, <1>2 DEF EveryPaneIsListed, Listed, TypeOK
<1>3. ASSUME NEW s \in Shims,
             \/ \E c \in Commands : OpenLock(s, c)
             \/ \E j \in Ids : Load(s, j)
             \/ LoadOnly(s) \/ LoadFails(s) \/ CreateSessionFails(s) \/ DestroySession(s)
             \/ DestroySessionFails(s)
      PROVE  Listed(i)'
  <2>1. /\ pty' \subseteq pty /\ file' = file /\ core' = core
        /\ pc[s] \in {"idle", "lock", "create", "destroy"}
    BY <1>3 DEF OpenLock, Load, LoadOnly, LoadFails, CreateSessionFails, DestroySession,
                DestroySessionFails, kild
  <2>2. Others(s)
    BY <1>3, OthersStay DEF LoadOnly, LoadFails, CreateSessionFails, DestroySession,
                            DestroySessionFails
  <2> QED BY <2>1, <2>2, <1>2, ListedStays
<1>4. ASSUME NEW s \in Shims, CreateSession(s) PROVE Listed(i)'
  <2>1. /\ pc[s] = "create" /\ pc'[s] = "save" /\ RoomFor(s) /\ file' = file /\ core' = core
        /\ pty' = pty \cup {mem[s].next} /\ UNCHANGED <<cmd, target, mem>> /\ Others(s)
    BY <1>4, OthersStay DEF CreateSession, Goto, TypeOK, kild
  <2>2. CASE i \in pty
    BY <2>1, <2>2, <1>2, ListedStays
  <2>3. CASE i = mem[s].next
    <3>1. cmd[s] \in Creates
      BY <2>1 DEF Commits, Holding
    <3>2. Result(cmd[s], target[s], mem[s]).panes[i] # NoPane
      BY <2>1, <2>3, <3>1, ResultLists
    <3> QED BY <3>2, <2>1 DEF Listed
  <2> QED BY <2>1, <2>2, <2>3
<1>5. ASSUME NEW s \in Shims, SaveTruncates(s) PROVE Listed(i)'
  <2>1. /\ pc[s] = "save" /\ pc'[s] = "write" /\ core' = core /\ i \in pty
        /\ UNCHANGED <<cmd, target, mem>> /\ Others(s)
    BY <1>5, OthersStay DEF SaveTruncates, TypeOK, kild
  <2>2. Listed(i) /\ i \in Ids
    BY <2>1, <1>2
  <2>3. CASE file \notin {NoFile, Torn} /\ file.panes[i] # NoPane
    <3>1. file = mem[s]
      BY <2>1, <1>1 DEF Lock, Current
    <3>2. ~(cmd[s] = "kill" /\ i = target[s])
      BY <2>1, <1>1 DEF Killed
    <3>3. cmd[s] \in Creates => RoomFor(s)
      BY <2>1 DEF Commits, Holding
    <3>4. Result(cmd[s], target[s], mem[s]).panes[i] # NoPane
      BY <2>1, <2>2, <2>3, <3>1, <3>2, <3>3, ResultLists
    <3> QED BY <3>4, <2>1 DEF Listed
  <2>4. ASSUME NEW r \in Shims, pc[r] \in {"save", "write"},
               Result(cmd[r], target[r], mem[r]).panes[i] # NoPane
        PROVE  Listed(i)'
    <3>1. pc'[r] \in {"save", "write"} /\ cmd'[r] = cmd[r] /\ target'[r] = target[r]
          /\ mem'[r] = mem[r]
      BY <2>1, <2>4 DEF Others
    <3> QED BY <3>1, <2>4 DEF Listed
  <2> QED BY <2>2, <2>3, <2>4 DEF Listed
<1>6. ASSUME NEW s \in Shims, SaveWrites(s) PROVE Listed(i)'
  <2> DEFINE new == Result(cmd[s], target[s], mem[s])
  <2>1. pc[s] = "write" /\ core' = core /\ i \in pty /\ file = Torn
    BY <1>6, <1>1 DEF SaveWrites, kild, Lock, Current
  <2>2. file' = new
    BY <1>6, <1>1, <2>1 DEF SaveWrites, Lock, OneDirectory
  <2>3. new.panes[i] # NoPane
    BY <2>1, <1>1, <1>2 DEF Listed, Lock, OneHolder, Holding
  <2>4. new \in Registry
    BY <2>1, ResultIsValid
  <2> HIDE DEF new
  <2> QED BY <2>2, <2>3, <2>4, NoneDistinct DEF Listed
<1>7. ASSUME NEW s \in Shims, CreateSessionUnanswered(s) \/ SaveFails(s) \/ Die(s)
      PROVE  Listed(i)'
  BY <1>7 DEF CreateSessionUnanswered, SaveFails, Die
<1>8. CASE DaemonStops \/ \E j \in Ids : StopTeammate(j)
  <2>1. pty' \subseteq pty /\ UNCHANGED <<file, shim, core>>
    BY <1>8 DEF DaemonStops, StopTeammate, kild
  <2> QED BY <2>1, <1>2, ListedStays
<1>9. CASE InitPaneRegistry \/ CleanupRemovesDir
  BY <1>1, <1>9 DEF InitPaneRegistry, CleanupRemovesDir, Known
<1>10. CASE SpawnLeader \/ InitPaneRegistryFails \/ CleanupReads
            \/ \E j \in Ids : CleanupDestroys(j)
  BY <1>10 DEF SpawnLeader, InitPaneRegistryFails, CleanupReads, CleanupDestroys
<1>11. CASE UNCHANGED vars
  <2>1. UNCHANGED <<pty, file, shim, core>>
    BY <1>11 DEF vars, kild
  <2> QED BY <2>1, <1>2, ListedStays
<1> QED BY <1>3, <1>4, <1>5, <1>6, <1>7, <1>8, <1>9, <1>10, <1>11 DEF Next

-----------------------------------------------------------------------------
(* The theorems. *)

\* ShimInv is inductive.
THEOREM ShimInvariant == Spec => []ShimInv
<1>1. Init => ShimInv
  <2> SUFFICES ASSUME Init PROVE ShimInv
    OBVIOUS
  <2>1. Lock /\ Killed /\ Known /\ EveryPaneIsListed
    BY DEF Init, Lock, KeptApart, OneDirectory, OneHolder, Current, Killed, Known,
           EveryPaneIsListed, ShimsIdle, Holding
  <2> QED BY <2>1, InitShape DEF ShimInv
<1>2. ShimInv /\ [Next]_vars => ShimInv'
  <2> SUFFICES ASSUME ShimInv, [Next]_vars PROVE ShimInv'
    OBVIOUS
  <2>1. Shape' /\ Lock'
    BY ShapeStep, LockStep DEF ShimInv
  <2>2. ASSUME alone' PROVE alone
    BY <2>2 DEF Next, OpenLock, Load, LoadOnly, LoadFails, CreateSession, CreateSessionFails,
             CreateSessionUnanswered, DestroySession, DestroySessionFails, SaveTruncates,
             SaveWrites, SaveFails, Die, SpawnLeader, InitPaneRegistry, InitPaneRegistryFails,
             StopTeammate, CleanupReads, CleanupDestroys, CleanupRemovesDir, DaemonStops, vars
  <2>6. ASSUME sound' PROVE sound
    BY <2>6 DEF Next, OpenLock, Load, LoadOnly, LoadFails, CreateSession, CreateSessionFails,
             CreateSessionUnanswered, DestroySession, DestroySessionFails, SaveTruncates,
             SaveWrites, SaveFails, Die, SpawnLeader, InitPaneRegistry, InitPaneRegistryFails,
             StopTeammate, CleanupReads, CleanupDestroys, CleanupRemovesDir, DaemonStops, vars
  <2>3. alone' => Killed'
    BY <2>2, KilledStep DEF ShimInv
  <2>4. alone' /\ sound' => Known'
    BY <2>2, <2>6, KnownStep DEF ShimInv
  <2>5. EveryPaneIsListed'
    BY ListedStep DEF ShimInv
  <2> QED BY <2>1, <2>3, <2>4, <2>5 DEF ShimInv
<1> QED BY <1>1, <1>2, PTL DEF Spec

\* Every variable of the pane registry's model has its type.
THEOREM PanesTypeCorrect == Spec => []TypeOK
<1>1. ShimInv => TypeOK
  BY DEF ShimInv, Shape
<1> QED BY <1>1, ShimInvariant, PTL

\* Whatever runs at once, dies or loses a race, a panes.json that can be read
\* passes the validate() that every load calls.
THEOREM RegistryStaysValid == Spec => []RegistryIsValid
<1>1. ShimInv => RegistryIsValid
  BY DEF ShimInv, Shape
<1> QED BY <1>1, ShimInvariant, PTL

\* While create and destroy keep out of the way, the flock from load to save
\* keeps every update of panes.json.
THEOREM NoUpdateIsLost == Spec => []NoLostUpdate
<1>1. ShimInv => NoLostUpdate
  BY DEF ShimInv, Lock, Current, NoLostUpdate
<1> QED BY <1>1, ShimInvariant, PTL

\* If moreover nothing fails half way, destroy finds every pane session in the
\* registry.
THEOREM PanesStayListed == Spec => []EveryPaneIsListed
<1>1. ShimInv => EveryPaneIsListed
  BY DEF ShimInv
<1> QED BY <1>1, ShimInvariant, PTL

=============================================================================
