------------------------- MODULE SessionFiles_proofs -------------------------
(***************************************************************************)
(* Proofs about SessionFiles and PortRanges, for any number of processes,   *)
(* kilds and commands and any size of the port space.                       *)
(*                                                                         *)
(* As long as no two commands have met in one of the ways of Clash          *)
(* (~raced), a saved kild has exactly one whole file, and what a process    *)
(* knows of the directory, from its copies of sessions to the entries it    *)
(* has still to look at, is true of the files it will act upon.             *)
(***************************************************************************)
EXTENDS SessionFiles, FiniteSetTheorems, WellFoundedInduction, TLAPS

-----------------------------------------------------------------------------
(* The invariant. *)

Searching == {"lookup", "check", "read_dir", "entry", "index", "store"}
Writing == {"write", "rename"}
Saving == {"mkdir", "truncate", "write", "rename"}

\* What each step of a command relies on.
Stage(p) ==
    /\ ~Busy(p) => /\ cmd[p] = "list" /\ scan[p] = "none" /\ kild[p] = NoKild
                   /\ seen[p] = {} /\ picked[p] = {}
    /\ pc[p] \in {"lookup", "check"} => scan[p] = "find"
    /\ pc[p] \in {"read_dir", "entry"} => scan[p] # "none"
    /\ pc[p] \in {"index", "store"} => /\ kild[p] \in Kilds
                                       /\ scan[p] \in {"none", "find", "stale"}
    /\ pc[p] \in {"worktree"} \cup Saving =>
          scan[p] = "none" /\ kild[p] \in Kilds /\ range[p] \in Ranges
    /\ pc[p] \in {"read", "remove", "unlink"} => kild[p] \in Kilds
    /\ pc[p] = "read" => cmd[p] = "patch" /\ scan[p] = "none"
    /\ pc[p] = "worktree" => cmd[p] = "create"
    /\ pc[p] = "mkdir" => cmd[p] \in {"create", "update"}
    /\ pc[p] \in Saving => cmd[p] \in {"create", "update", "patch"}
    /\ pc[p] = "remove" => cmd[p] = "destroy" /\ scan[p] = "none"
    /\ pc[p] = "unlink" => cmd[p] \in {"destroy", "stale"} /\ scan[p] \in {"none", "stale"}
    /\ pc[p] \in {"worktrees", "sweep"} => cmd[p] = "orphans"
    /\ pc[p] = "clean" => cmd[p] = "stale"
    /\ scan[p] = "find" => /\ cmd[p] \in {"create", "update", "destroy"}
                           /\ pc[p] \in Searching /\ branch[p] \in Branches
    /\ scan[p] = "find" /\ pc[p] \in {"index", "store"} => range[p] \in Ranges
    /\ scan[p] = "ports" => cmd[p] = "create" /\ pc[p] \in {"read_dir", "entry"}
    /\ scan[p] = "list" => cmd[p] = "list"
    /\ scan[p] = "orphans" <=> cmd[p] = "orphans"
    /\ scan[p] = "stale" <=> cmd[p] = "stale"
    /\ cmd[p] = "create" /\ pc[p] \notin {"index", "store"} =>
          kild[p] \in Kilds /\ branch[p] = BranchOf[kild[p]]
    /\ seen[p] # {} => /\ pc[p] \in {"entry", "index", "store"}
                       /\ scan[p] \in {"find", "ports", "orphans"}
    /\ pc[p] = "write" /\ fd[p] \in {"tmp", "live"} => kild[p] \in dir

\* One file for each saved kild, in one layout; none for another.
Stored(k) ==
    IF k \in saved
    THEN \/ file[k] \in Ranges /\ flat[k] = NoFile
         \/ file[k] = NoFile /\ flat[k] \in Ranges /\ k \notin dir
    ELSE file[k] = NoFile /\ flat[k] = NoFile

\* Commands that would clash do not overlap, and a temp file has one writer.
Apart ==
    \A p, q \in Procs : p # q =>
        /\ Busy(p) /\ Busy(q) /\ cmd[p] = "create" => cmd[q] \notin {"create", "orphans", "stale"}
        /\ ~(kild[p] = kild[q] /\ pc[p] \in Writing /\ pc[q] \in Writing)

\* p has r as the session of k and will write it back.
Copy(p, k, r) ==
    \/ kild[p] = k /\ range[p] = r /\ cmd[p] \in {"update", "patch"} /\ pc[p] \in Saving
    \/ /\ cmd[p] = "update" /\ scan[p] = "find"
       /\ \/ kild[p] = k /\ range[p] = r /\ pc[p] \in {"index", "store"}
          \/ <<k, r>> \in seen[p]

CopiesAreCurrent(p) ==
    \A k \in Kilds, r \in Ranges : Copy(p, k, r) => k \in saved /\ flat[k] = NoFile /\ file[k] = r

\* The temp file of a writer is its own.
Filling(p) ==
    /\ pc[p] = "write" => fd[p] = "tmp" /\ tmp[kild[p]] = Torn
    /\ pc[p] = "rename" => tmp[kild[p]] = range[p]

\* r can be the range of k, beside those of the other saved kilds.
Fits(k, r) == TopIsFree => /\ r[2] # Width - 1
                           /\ \A l \in saved \ {k} : ~Overlap(r, Session(l))

\* A create that is past its scans has a name, ports and a worktree of its own.
Making(p) ==
    cmd[p] = "create" =>
        /\ scan[p] = "ports" \/ pc[p] \in {"worktree"} \cup Saving =>
              \A l \in saved : BranchOf[l] # branch[p]
        /\ pc[p] \in {"worktree"} \cup Saving => Fits(kild[p], range[p])
        /\ pc[p] \in Saving => kild[p] \in worktree \cup pruned

\* A saved kild is still to be read, or has been.
Covered(p, l) ==
    \/ <<l, "dir">> \in todo[p] /\ file[l] # NoFile
    \/ <<l, "flat">> \in todo[p] /\ flat[l] # NoFile
    \/ \E r \in Ranges : <<l, r>> \in seen[p]

Agree(s, t) == IF s[1] = t[1] THEN s = t ELSE TopIsFree => ~Overlap(s[2], t[2])

\* A scan that nobody creates beside misses no kild, and what it has seen is a
\* picture of the directory as it was at the beginning.
Scanning(p) ==
    pc[p] = "entry" /\ cmd[p] \in {"create", "orphans"} =>
        /\ \A l \in saved : (scan[p] = "find" => BranchOf[l] = branch[p]) => Covered(p, l)
        /\ \A s \in seen[p] : /\ \A t \in seen[p] : Agree(s, t)
                              /\ \A l \in saved : Agree(s, <<l, Session(l)>>)
                              /\ TopIsFree => s[2][2] # Width - 1

\* What cleanup is about to remove.
Sweeping(p) ==
    /\ pc[p] = "sweep" => picked[p] \cap saved = {}
    /\ cmd[p] = "stale" => picked[p] \subseteq pruned

Knows(p) == CopiesAreCurrent(p) /\ Filling(p) /\ Making(p) /\ Scanning(p) /\ Sweeping(p)

\* What holds of the saved kilds.
KildsAreDistinct ==
    /\ \A k, l \in saved : BranchOf[k] = BranchOf[l] => k = l
    /\ \A k \in saved : Fits(k, Session(k))
    /\ saved \subseteq worktree \cup pruned

\* The files, and what every process in progress knows of them, are in order.
Sound ==
    /\ \A k \in Kilds : Stored(k)
    /\ Apart /\ KildsAreDistinct
    /\ \A p \in Procs : Knows(p)

\* The inductive invariant.
FilesInv ==
    /\ TypeOK /\ \A p \in Procs : Stage(p)
    /\ ~raced => Sound

-----------------------------------------------------------------------------
(* Allocation of ports. *)

\* A nonempty set of naturals has a least element.
LEMMA LeastNumber ==
    ASSUME NEW S \in SUBSET Nat, S # {}
    PROVE  \E m \in S : \A n \in S : m <= n
<1> DEFINE Less == {ss \in Nat \X Nat : ss[1] < ss[2]}
<1>1. IsWellFoundedOn(Less, Nat)
  BY NatLessThanWellFounded DEF OpToRel
<1> HIDE DEF Less
<1>2. PICK m \in S : \A n \in S : <<n, m>> \notin Less
  BY <1>1, WFMin
<1>3. \A n \in S : ~(n < m)
  BY <1>2 DEF Less
<1> QED BY <1>2, <1>3

\* Where the loop of find_next_available_range stops.
LastLook(s) ==
    CHOOSE k \in 1 .. Len(s) + 1 : EndsAt(s, k) /\ \A j \in 1 .. k - 1 : ~EndsAt(s, j)

\* The loop of find_next_available_range stops at a range, or after the last.
LEMMA LoopStops ==
    ASSUME NEW s \in Seq(Ranges)
    PROVE  LastLook(s) \in 1 .. Len(s) + 1 /\ EndsAt(s, LastLook(s))
<1> DEFINE E == {k \in 1 .. Len(s) + 1 : EndsAt(s, k)}
<1>1. Len(s) + 1 \in E /\ E \in SUBSET Nat
  BY DEF EndsAt
<1>2. PICK m \in E : \A n \in E : m <= n
  BY <1>1, LeastNumber
<1>3. m \in 1 .. Len(s) + 1 /\ EndsAt(s, m) /\ \A j \in 1 .. m - 1 : ~EndsAt(s, j)
  BY <1>2
<1> HIDE DEF E
<1> QED BY <1>3 DEF LastLook

LEMMA PortsTyped ==
    ASSUME NEW s \in Seq(Ranges), NEW i \in 1 .. Len(s) + 1
    PROVE  /\ CurrentPort(s, i) \in Ports
           /\ i # 1 /\ s[i - 1][2] # Width - 1 => CurrentPort(s, i) = s[i - 1][2] + 1
<1>1. CASE i = 1
  BY <1>1, PortsAssumption DEF CurrentPort
<1>2. CASE i # 1
  <2>1. i - 1 \in 1 .. Len(s) /\ s[i - 1] \in Ranges
    BY <1>2
  <2>2. s[i - 1][2] \in 0 .. Width - 1
    BY <2>1 DEF Ranges, Ports
  <2>3. \A x \in 0 .. Width - 1 :
           (x + 1) % Width \in 0 .. Width - 1 /\ (x # Width - 1 => (x + 1) % Width = x + 1)
    BY PortsAssumption
  <2> QED BY <1>2, <2>2, <2>3 DEF CurrentPort, Ports
<1> QED BY <1>1, <1>2

LEMMA ProposalTyped ==
    ASSUME NEW port \in Ports, ProposedEnd(port) # Exhausted
    PROVE  /\ ProposedEnd(port) = port + PortCount - 1 /\ <<port, ProposedEnd(port)>> \in Ranges
           /\ ProposedEnd(port) < Width - 1
<1>1. ProposedEnd(port) = port + PortCount - 1 /\ port + PortCount < Width
  BY PortsAssumption DEF ProposedEnd, Ports
<1> QED BY <1>1, PortsAssumption DEF Ports, Ranges

\* What create is given is a range, and never one with the last port:
\* allocated_end + 1 cannot overflow for a range that this code allocated.
THEOREM AllocatedRangeIsBelowTop ==
    ASSUME NEW s \in Seq(Ranges), find_next_available_range(s) # Exhausted
    PROVE  /\ find_next_available_range(s) \in Ranges
           /\ find_next_available_range(s)[2] # Width - 1
<1> DEFINE i == LastLook(s)
           port == CurrentPort(s, i)
<1>1. find_next_available_range(s)
        = IF ProposedEnd(port) = Exhausted THEN Exhausted ELSE <<port, ProposedEnd(port)>>
  BY DEF find_next_available_range, LastLook
<1>2. i \in 1 .. Len(s) + 1
  BY LoopStops
<1>3. port \in Ports
  BY <1>2, PortsTyped
<1> HIDE DEF port
<1>4. ProposedEnd(port) # Exhausted
  BY <1>1
<1>5. <<port, ProposedEnd(port)>> \in Ranges /\ ProposedEnd(port) < Width - 1
  BY <1>3, <1>4, ProposalTyped
<1>6. find_next_available_range(s) = <<port, ProposedEnd(port)>>
  BY <1>1, <1>4
<1>7. ProposedEnd(port) # Width - 1
  BY <1>3, <1>4, <1>5, ProposalTyped, PortsAssumption DEF Ports
<1> QED BY <1>5, <1>6, <1>7

LEMMA RangeTyped ==
    ASSUME NEW r \in Ranges
    PROVE  r[1] \in Int /\ r[2] \in Int /\ r[1] <= r[2]
BY PortsAssumption DEF Ranges, Ports

LEMMA OverlapIsSymmetric == ASSUME NEW r, NEW q PROVE Overlap(r, q) <=> Overlap(q, r)
BY DEF Overlap

LEMMA InOrder ==
    ASSUME NEW r \in Ranges, NEW q \in Ranges
    PROVE  /\ r[1] <= q[1] /\ ~Overlap(r, q) => r[2] < q[1]
           /\ r[2] < q[1] => ~Overlap(r, q)
BY RangeTyped DEF Overlap

\* find_next_available_range gives out no port of a range it was shown, whatever
\* gaps there are between them, as long as none has the last port.
THEOREM AllocatedRangeIsFree ==
    ASSUME NEW s \in Seq(Ranges), Sorted(s),
           \A i, j \in 1 .. Len(s) : i # j => ~Overlap(s[i], s[j]),
           \A i \in 1 .. Len(s) : s[i][2] # Width - 1,
           find_next_available_range(s) # Exhausted
    PROVE  \A i \in 1 .. Len(s) : ~Overlap(find_next_available_range(s), s[i])
<1> DEFINE n == LastLook(s)
           port == CurrentPort(s, n)
           r == find_next_available_range(s)
<1>1. r = IF ProposedEnd(port) = Exhausted THEN Exhausted ELSE <<port, ProposedEnd(port)>>
  BY DEF find_next_available_range, LastLook
<1>2. n \in 1 .. Len(s) + 1 /\ EndsAt(s, n)
  BY LoopStops
<1>3. port \in Ports /\ (n # 1 => port = s[n - 1][2] + 1)
  BY <1>2, PortsTyped
<1>4. n = Len(s) + 1 \/ ProposedEnd(port) < s[n][1]
  BY <1>1, <1>2 DEF EndsAt
<1> HIDE DEF port, n
<1>5. r \in Ranges
  BY AllocatedRangeIsBelowTop
<1>6. r # Exhausted
  OBVIOUS
<1> HIDE DEF r
<1>7. r[1] = port /\ r[2] = ProposedEnd(port)
  <2>1. r = <<port, ProposedEnd(port)>>
    BY <1>1, <1>6
  <2> QED BY <2>1
<1>8. \A i \in 1 .. Len(s) : s[i] \in Ranges
  OBVIOUS
<1>9. \A i, j \in 1 .. Len(s) : i < j => s[i][2] < s[j][1]
  BY <1>8, InOrder DEF Sorted
<1> SUFFICES ASSUME NEW i \in 1 .. Len(s)
             PROVE  ~Overlap(r, s[i])
  BY DEF r
<1>10. CASE i < n
  <2>1. n - 1 \in 1 .. Len(s) /\ r[1] = s[n - 1][2] + 1 /\ (i = n - 1 \/ i < n - 1)
    BY <1>2, <1>3, <1>7, <1>10
  <2>2. s[i][2] <= s[n - 1][2]
    <3>1. s[i][2] \in Int /\ s[n - 1][1] \in Int /\ s[n - 1][2] \in Int /\ s[n - 1][1] <= s[n - 1][2]
      BY <1>8, <2>1, RangeTyped
    <3>2. CASE i = n - 1
      BY <3>1, <3>2
    <3>3. CASE i < n - 1
      <4>1. s[i][2] < s[n - 1][1]
        BY <1>9, <2>1, <3>3
      <4> QED BY <3>1, <4>1
    <3> QED BY <2>1, <3>2, <3>3
  <2>3. s[i][2] < r[1]
    BY <1>5, <1>8, <2>1, <2>2, RangeTyped
  <2> QED BY <1>5, <1>8, <2>3, InOrder, OverlapIsSymmetric
<1>11. CASE n <= i
  <2>1. n \in 1 .. Len(s) /\ r[2] < s[n][1] /\ (n = i \/ n < i)
    BY <1>2, <1>4, <1>7, <1>11
  <2>2. s[n][1] <= s[i][1]
    BY <1>8, <2>1, RangeTyped DEF Sorted
  <2>3. r[2] \in Int /\ s[n][1] \in Int /\ s[i][1] \in Int
    BY <1>5, <1>8, <2>1, RangeTyped
  <2>4. r[2] < s[i][1]
    BY <2>1, <2>2, <2>3
  <2> QED BY <1>5, <1>8, <2>4, InOrder
<1> QED BY <1>2, <1>10, <1>11

-----------------------------------------------------------------------------
(* Types and stages. *)

LocalsTyped ==
    /\ pc \in [Procs -> {"idle", "lookup", "check", "read_dir", "entry", "worktree", "mkdir",
                         "read", "truncate", "write", "rename", "index", "store", "remove", "unlink",
                         "worktrees", "sweep", "clean"}]
    /\ cmd \in [Procs -> Commands]
    /\ branch \in [Procs -> Branches \cup {NoBranch}]
    /\ kild \in [Procs -> Kilds \cup {NoKild}]
    /\ range \in [Procs -> Ranges \cup {NoFile}]
    /\ scan \in [Procs -> {"none", "find", "ports", "list", "orphans", "stale"}]
    /\ todo \in [Procs -> SUBSET (Kilds \X {"flat", "dir"})]
    /\ seen \in [Procs -> SUBSET (Kilds \X Ranges)]
    /\ picked \in [Procs -> SUBSET Kilds]
    /\ map \in [Procs -> Indexes]
    /\ fd \in [Procs -> {"none", "tmp", "live", "gone"}]

DiskTyped ==
    /\ flat \in [Kilds -> Ranges \cup {NoFile}]
    /\ file \in [Kilds -> Contents] /\ tmp \in [Kilds -> Contents]
    /\ \A k \in Kilds : file[k] # NoFile \/ tmp[k] # NoFile => k \in dir
    /\ dir \subseteq Kilds /\ worktree \subseteq Kilds
    /\ index \in Indexes

HistoryTyped == raced \in BOOLEAN /\ saved \subseteq Kilds /\ pruned \subseteq Kilds

LEMMA TypeOKSplits == TypeOK <=> LocalsTyped /\ DiskTyped /\ HistoryTyped /\ begun \in 0 .. MaxCommands
BY DEF TypeOK, LocalsTyped, DiskTyped, HistoryTyped

\* The locals of the other processes stay as they are, but for their fd.
Others(p) ==
    \A q \in Procs \ {p} :
        /\ pc'[q] = pc[q] /\ cmd'[q] = cmd[q] /\ branch'[q] = branch[q] /\ kild'[q] = kild[q]
        /\ range'[q] = range[q] /\ scan'[q] = scan[q] /\ todo'[q] = todo[q]
        /\ seen'[q] = seen[q] /\ picked'[q] = picked[q]

Moves(p) == LocalsTyped' /\ Others(p) /\ Stage(p)'

LEMMA EmptyIsAnIndex == Empty \in Indexes
BY DEF Empty, Indexes

LEMMA ExitMoves ==
    ASSUME LocalsTyped, NEW p \in Procs, Exit(p), fd' \in [Procs -> {"none", "tmp", "live", "gone"}]
    PROVE  Moves(p) /\ pc'[p] = "idle" /\ cmd'[p] = "list" /\ seen'[p] = {} /\ scan'[p] = "none"
<1>1. /\ pc'[p] = "idle" /\ cmd'[p] = "list" /\ kild'[p] = NoKild /\ scan'[p] = "none" /\ seen'[p] = {}
      /\ picked'[p] = {} /\ Others(p)
  BY DEF Exit, Others, LocalsTyped
<1>2. LocalsTyped'
  BY EmptyIsAnIndex DEF Exit, LocalsTyped, Commands
<1>3. Stage(p)'
  BY <1>1 DEF Stage, Busy, Saving
<1> QED BY <1>1, <1>2, <1>3 DEF Moves

LEMMA ReturnMoves ==
    ASSUME LocalsTyped, NEW p \in Procs, Return(p)
    PROVE  /\ Moves(p) /\ pc'[p] = "idle" /\ cmd'[p] = "list" /\ seen'[p] = {} /\ scan'[p] = "none"
           /\ \A q \in Procs \ {p} : fd'[q] = fd[q]
<1>1. fd' \in [Procs -> {"none", "tmp", "live", "gone"}] /\ \A q \in Procs \ {p} : fd'[q] = fd[q]
  BY DEF Return, LocalsTyped
<1> QED BY <1>1, ExitMoves DEF Return

\* Where a command that was looking for a session goes on.
WentOn(p, k, r) ==
    /\ cmd[p] \in {"update", "destroy"} /\ cmd'[p] = cmd[p] /\ kild'[p] = k
    /\ pc'[p] = IF cmd[p] = "update" THEN "mkdir" ELSE "remove"
    /\ cmd[p] = "update" => range'[p] = r
    /\ scan'[p] = "none" /\ seen'[p] = {}

LEMMA FoundMoves ==
    ASSUME LocalsTyped, NEW p \in Procs, Stage(p), scan[p] = "find",
           NEW k \in Kilds, NEW r \in Ranges, Found(p, k, r)
    PROVE  /\ Moves(p) /\ (pc'[p] = "idle" \/ WentOn(p, k, r))
           /\ \A q \in Procs \ {p} : fd'[q] = fd[q]
<1>1. CASE cmd[p] = "create"
  BY <1>1, ReturnMoves DEF Found
<1>2. CASE cmd[p] # "create"
  <2>1. WentOn(p, k, r) /\ Others(p) /\ branch'[p] = branch[p]
        /\ \A q \in Procs \ {p} : fd'[q] = fd[q]
    BY <1>2 DEF Found, Goto, WentOn, Others, LocalsTyped
  <2>2. LocalsTyped'
    <3> DEFINE next == IF cmd[p] = "update" THEN "mkdir" ELSE "remove"
               held == IF cmd[p] = "update" THEN r ELSE NoFile
    <3>1. next \in {"mkdir", "remove"} /\ held \in Ranges \cup {NoFile}
      OBVIOUS
    <3>2. /\ pc' = [pc EXCEPT ![p] = next] /\ range' = [range EXCEPT ![p] = held]
          /\ kild' = [kild EXCEPT ![p] = k] /\ scan' = [scan EXCEPT ![p] = "none"]
          /\ seen' = [seen EXCEPT ![p] = {}] /\ picked' = [picked EXCEPT ![p] = {}]
          /\ map' = [map EXCEPT ![p] = Empty] /\ fd' = [fd EXCEPT ![p] = "none"]
          /\ UNCHANGED <<cmd, branch, todo>>
      BY <1>2 DEF Found, Goto
    <3> HIDE DEF next, held
    <3> QED BY <3>1, <3>2, EmptyIsAnIndex DEF LocalsTyped
  <2>3. Stage(p)'
    BY <2>1 DEF WentOn, Stage, Busy, Saving
  <2> QED BY <2>1, <2>2, <2>3 DEF Moves
<1> QED BY <1>1, <1>2

LEMMA NotFoundMoves ==
    ASSUME LocalsTyped, NEW p \in Procs, Stage(p), scan[p] = "find", pc[p] \in {"check", "entry", "lookup"},
           seen[p] = {}, NotFound(p)
    PROVE  /\ Moves(p)
           /\ \/ pc'[p] = "idle"
              \/ /\ cmd[p] = "create" /\ pc'[p] = "read_dir" /\ scan'[p] = "ports" /\ seen'[p] = {}
                 /\ cmd'[p] = cmd[p] /\ kild'[p] = kild[p] /\ branch'[p] = branch[p]
           /\ \A q \in Procs \ {p} : fd'[q] = fd[q]
<1>1. CASE cmd[p] # "create"
  BY <1>1, ReturnMoves DEF NotFound
<1>2. CASE cmd[p] = "create"
  <2>1. /\ cmd[p] = "create" /\ pc'[p] = "read_dir" /\ scan'[p] = "ports" /\ seen'[p] = {}
        /\ cmd'[p] = cmd[p] /\ kild'[p] = kild[p] /\ branch'[p] = branch[p]
        /\ Others(p) /\ \A q \in Procs \ {p} : fd'[q] = fd[q]
    BY <1>2 DEF NotFound, Goto, args, writing, Others, LocalsTyped
  <2>2. LocalsTyped'
    BY <1>2 DEF NotFound, Goto, args, writing, LocalsTyped
  <2>3. Stage(p)'
    BY <2>1 DEF Stage, Busy, Saving
  <2> QED BY <2>1, <2>2, <2>3 DEF Moves
<1> QED BY <1>1, <1>2

\* Only pc[p] and, where they are named, other locals of p change.
LEMMA LookupMoves ==
    ASSUME LocalsTyped, DiskTyped, NEW p \in Procs, Stage(p), Lookup(p)
    PROVE  /\ Moves(p) /\ pc'[p] \in {"read_dir", "check"} /\ cmd'[p] = cmd[p] /\ scan'[p] = "find"
           /\ kild'[p] = kild[p] /\ seen'[p] = seen[p]
           /\ UNCHANGED fd
<1>1. /\ pc'[p] \in {"read_dir", "check"} /\ Others(p)
      /\ UNCHANGED <<cmd, branch, kild, range, scan, todo, seen, map, fd>>
  BY DEF Lookup, Goto, args, writing, Others, LocalsTyped
<1>2. branch[p] \in Branches /\ index[branch[p]] \in Kilds \cup {NoKild}
  BY DEF Lookup, Stage, DiskTyped, Indexes
<1>3. LocalsTyped'
  BY <1>2 DEF Lookup, Goto, args, writing, LocalsTyped
<1>4. Stage(p)'
  BY <1>1 DEF Lookup, Stage, Busy, Saving, Searching
<1> QED BY <1>1, <1>3, <1>4 DEF Moves, Lookup, Stage

LEMMA CheckMoves ==
    ASSUME LocalsTyped, DiskTyped, NEW p \in Procs, Stage(p), Check(p)
    PROVE  /\ Moves(p) /\ \A q \in Procs \ {p} : fd'[q] = fd[q]
           /\ \/ pc'[p] = "idle"
              \/ \E k \in Kilds : file[k] \in Ranges /\ WentOn(p, k, file[k])
              \/ /\ pc'[p] = "read_dir" /\ cmd'[p] = cmd[p] /\ scan'[p] = "find"
                 /\ kild'[p] = kild[p] /\ seen'[p] = seen[p]
<1>1. PICK k \in Kilds :
         IF file[k] \in Ranges THEN Found(p, k, file[k])
         ELSE /\ Goto(p, "read_dir") /\ picked' = [picked EXCEPT ![p] = {}]
              /\ UNCHANGED <<args, scan, todo, seen, writing>>
  BY DEF Check, LocalsTyped
<1>2. scan[p] = "find"
  BY DEF Check, Stage
<1>3. CASE file[k] \in Ranges
  BY <1>1, <1>2, <1>3, FoundMoves
<1>4. CASE file[k] \notin Ranges
  <2>1. /\ pc'[p] = "read_dir" /\ Others(p)
        /\ UNCHANGED <<cmd, branch, kild, range, scan, todo, seen, map, fd>>
    BY <1>1, <1>4 DEF Goto, args, writing, Others, LocalsTyped
  <2>2. LocalsTyped'
    BY <1>1, <1>4 DEF Goto, args, writing, LocalsTyped
  <2>3. Stage(p)'
    BY <2>1 DEF Check, Stage, Busy, Saving, Searching
  <2> QED BY <1>2, <2>1, <2>2, <2>3 DEF Moves
<1> QED BY <1>3, <1>4

LEMMA ReadDirMoves ==
    ASSUME LocalsTyped, DiskTyped, NEW p \in Procs, Stage(p), ReadDir(p)
    PROVE  /\ Moves(p) /\ pc'[p] = "entry" /\ todo'[p] = Entries /\ seen'[p] = {}
           /\ cmd'[p] = cmd[p] /\ branch'[p] = branch[p] /\ kild'[p] = kild[p] /\ scan'[p] = scan[p]
           /\ picked'[p] = picked[p] /\ UNCHANGED fd
<1>1. /\ pc'[p] = "entry" /\ todo'[p] = Entries /\ seen'[p] = {} /\ Others(p)
      /\ UNCHANGED <<cmd, branch, kild, range, scan, picked, map, fd>>
  BY DEF ReadDir, Goto, args, writing, Others, LocalsTyped
<1>2. Entries \in SUBSET (Kilds \X {"flat", "dir"})
  BY DEF Entries, DiskTyped
<1>3. LocalsTyped'
  BY <1>2 DEF ReadDir, Goto, args, writing, LocalsTyped
<1>4. Stage(p)'
  BY <1>1 DEF ReadDir, Stage, Busy, Saving, Searching
<1> QED BY <1>1, <1>3, <1>4 DEF Moves

\* The entry e is read, and a legacy file may be moved.
Reads(p, e) ==
    LET k == e[1]
        content == IF e[2] = "dir" THEN file[k] ELSE flat[k]
    IN  /\ todo' = [todo EXCEPT ![p] = @ \ {e}]
        /\ seen' = IF content \in Ranges /\ Wanted(p, k)
                   THEN [seen EXCEPT ![p] = @ \cup {<<k, content>>}] ELSE seen
        /\ picked' = IF scan[p] = "stale" /\ content \in Ranges /\ k \notin worktree
                     THEN [picked EXCEPT ![p] = @ \cup {k}] ELSE picked
        /\ IF scan[p] \in {"find", "ports", "list"} /\ e[2] = "flat" /\ flat[k] # NoFile
           THEN Migrate(p, k) ELSE UNCHANGED <<disk, history>>

LEMMA LoadEntryMoves ==
    ASSUME LocalsTyped, DiskTyped, NEW p \in Procs, Stage(p), LoadEntry(p),
           NEW e \in todo[p], Reads(p, e)
    PROVE  /\ Moves(p) /\ UNCHANGED <<pc, args, scan, writing>>
           /\ e[1] \in Kilds /\ e[2] \in {"flat", "dir"} /\ e = <<e[1], e[2]>>
           /\ todo'[p] = todo[p] \ {e}
           /\ seen'[p] \in {seen[p], seen[p] \cup {<<e[1], IF e[2] = "dir" THEN file[e[1]] ELSE flat[e[1]]>>}}
<1>1. e \in Kilds \X {"flat", "dir"}
  BY DEF LocalsTyped
<1>2. UNCHANGED <<pc, cmd, branch, kild, range, scan, map, fd>> /\ pc[p] = "entry"
  BY DEF LoadEntry, args, writing
<1>3. /\ seen' = seen \/ \E r \in Ranges : /\ r = IF e[2] = "dir" THEN file[e[1]] ELSE flat[e[1]]
                                           /\ seen' = [seen EXCEPT ![p] = @ \cup {<<e[1], r>>}]
      /\ picked' = picked \/ picked' = [picked EXCEPT ![p] = @ \cup {e[1]}]
      /\ todo' = [todo EXCEPT ![p] = @ \ {e}]
  BY DEF Reads
<1>4. seen' = seen \/ scan[p] \in {"find", "ports", "orphans"}
  BY DEF Reads, Wanted
<1>5. Others(p)
  BY <1>2, <1>3 DEF Others, LocalsTyped
<1>6. LocalsTyped'
  <2>1. seen' \in [Procs -> SUBSET (Kilds \X Ranges)]
    BY <1>1, <1>3 DEF LocalsTyped
  <2>2. picked' \in [Procs -> SUBSET Kilds]
    BY <1>1, <1>3 DEF LocalsTyped
  <2>3. todo' \in [Procs -> SUBSET (Kilds \X {"flat", "dir"})]
    BY <1>1, <1>3 DEF LocalsTyped
  <2> QED BY <1>2, <2>1, <2>2, <2>3 DEF LocalsTyped
<1>7. Stage(p)'
  BY <1>2, <1>4 DEF Stage, Busy, Saving, Searching
<1> QED BY <1>1, <1>2, <1>3, <1>5, <1>6, <1>7 DEF Moves, args, writing, LocalsTyped

LEMMA FindByScanMoves ==
    ASSUME LocalsTyped, DiskTyped, NEW p \in Procs, Stage(p), FindByScan(p)
    PROVE  /\ Moves(p) /\ \A q \in Procs \ {p} : fd'[q] = fd[q]
           /\ \/ pc'[p] = "idle"
              \/ /\ cmd[p] = "create" /\ pc'[p] = "read_dir" /\ scan'[p] = "ports" /\ seen'[p] = {}
                 /\ cmd'[p] = cmd[p] /\ kild'[p] = kild[p] /\ branch'[p] = branch[p] /\ seen[p] = {}
              \/ /\ pc'[p] = "index" /\ cmd'[p] = cmd[p] /\ branch'[p] = branch[p]
                 /\ scan'[p] = "find" /\ seen'[p] = seen[p] /\ <<kild'[p], range'[p]>> \in seen[p]
<1>1. scan[p] = "find" /\ pc[p] = "entry"
  BY DEF FindByScan, Loaded
<1>2. CASE seen[p] = {}
  BY <1>1, <1>2, NotFoundMoves DEF FindByScan
<1>3. CASE seen[p] # {}
  <2>1. PICK s \in seen[p] : /\ Goto(p, "index")
                             /\ kild' = [kild EXCEPT ![p] = s[1]]
                             /\ range' = [range EXCEPT ![p] = s[2]]
                             /\ UNCHANGED <<cmd, branch, reading, writing>>
    BY <1>3 DEF FindByScan
  <2>2. s[1] \in Kilds /\ s[2] \in Ranges /\ s = <<s[1], s[2]>>
    BY DEF LocalsTyped
  <2>3. /\ pc'[p] = "index" /\ kild'[p] = s[1] /\ range'[p] = s[2] /\ Others(p)
        /\ UNCHANGED <<cmd, branch, scan, todo, seen, picked, map, fd>>
    BY <2>1 DEF Goto, reading, writing, Others, LocalsTyped
  <2>4. LocalsTyped'
    BY <2>1, <2>2 DEF Goto, reading, writing, LocalsTyped
  <2>5. Stage(p)'
    BY <1>1, <2>2, <2>3 DEF Stage, Busy, Saving, Searching
  <2> QED BY <1>1, <2>2, <2>3, <2>4, <2>5 DEF Moves
<1> QED BY <1>2, <1>3

\* The ranges of the sessions seen, sorted.
SeenRanges(p, t) == [i \in DOMAIN t |-> t[i][2]]

LEMMA SeenRangesTyped ==
    ASSUME LocalsTyped, NEW p \in Procs,
           NEW t \in Bijection(1 .. Cardinality(seen[p]), seen[p])
    PROVE  /\ SeenRanges(p, t) \in Seq(Ranges)
           /\ DOMAIN t = 1 .. Len(SeenRanges(p, t))
           /\ \A i \in DOMAIN t : t[i] \in seen[p] /\ SeenRanges(p, t)[i] = t[i][2]
           /\ \A i, j \in DOMAIN t : i # j => t[i] # t[j]
           /\ \A s \in seen[p] : \E i \in DOMAIN t : t[i] = s
<1>1. IsFiniteSet(Kilds \X Ranges)
  <2>1. IsFiniteSet(Ports)
    BY PortsAssumption, FS_Interval DEF Ports
  <2>2. IsFiniteSet(Ports \X Ports)
    BY <2>1, FS_Product
  <2>3. IsFiniteSet(Ranges)
    BY <2>2, FS_Subset DEF Ranges
  <2> QED BY <2>3, SessionsAssumption, FS_Product
<1>2. IsFiniteSet(seen[p])
  BY <1>1, FS_Subset DEF LocalsTyped
<1>3. Cardinality(seen[p]) \in Nat
  BY <1>2, FS_CardinalityType
<1>4. /\ t \in [1 .. Cardinality(seen[p]) -> seen[p]]
      /\ \A i, j \in 1 .. Cardinality(seen[p]) : i # j => t[i] # t[j]
      /\ \A s \in seen[p] : \E i \in 1 .. Cardinality(seen[p]) : t[i] = s
  BY Zenon DEF Bijection, Injection, IsInjective, Surjection
<1>5. \A x \in seen[p] : x[2] \in Ranges
  BY DEF LocalsTyped
<1>6. SeenRanges(p, t) \in [1 .. Cardinality(seen[p]) -> Ranges]
  BY <1>4, <1>5 DEF SeenRanges
<1>7. SeenRanges(p, t) \in Seq(Ranges) /\ Len(SeenRanges(p, t)) = Cardinality(seen[p])
  BY <1>3, <1>6
<1> QED BY <1>4, <1>7 DEF SeenRanges

LEMMA AllocatePortsMoves ==
    ASSUME LocalsTyped, DiskTyped, NEW p \in Procs, Stage(p), AllocatePorts(p)
    PROVE  /\ Moves(p) /\ \A q \in Procs \ {p} : fd'[q] = fd[q]
           /\ \/ pc'[p] = "idle" /\ cmd'[p] = "list" /\ scan'[p] = "none" /\ seen'[p] = {}
              \/ /\ pc'[p] = "worktree" /\ scan'[p] = "none" /\ seen'[p] = {}
                 /\ cmd'[p] = cmd[p] /\ kild'[p] = kild[p] /\ branch'[p] = branch[p]
                 /\ \E t \in Bijection(1 .. Cardinality(seen[p]), seen[p]) :
                       /\ Sorted(SeenRanges(p, t))
                       /\ range'[p] = find_next_available_range(SeenRanges(p, t))
                       /\ range'[p] # Exhausted
<1>1. PICK t \in Bijection(1 .. Cardinality(seen[p]), seen[p]) :
         LET r == find_next_available_range(SeenRanges(p, t))
         IN  /\ Sorted(SeenRanges(p, t))
             /\ IF r = Exhausted THEN Return(p)
                ELSE /\ Goto(p, "worktree")
                     /\ range' = [range EXCEPT ![p] = r]
                     /\ scan' = [scan EXCEPT ![p] = "none"]
                     /\ seen' = [seen EXCEPT ![p] = {}]
                     /\ UNCHANGED <<cmd, branch, kild, todo, picked, writing>>
  BY Zenon DEF AllocatePorts, SeenRanges
<1> DEFINE r == find_next_available_range(SeenRanges(p, t))
<1>2. r # Exhausted => r \in Ranges
  BY SeenRangesTyped, AllocatedRangeIsBelowTop
<1>3. pc[p] = "entry" /\ scan[p] = "ports"
  BY DEF AllocatePorts, Loaded
<1>4. Sorted(SeenRanges(p, t))
  BY <1>1
<1> HIDE DEF r
<1>5. CASE r = Exhausted
  BY <1>1, <1>5, ReturnMoves DEF r
<1>6. CASE r # Exhausted
  <2>1. /\ Goto(p, "worktree")
        /\ range' = [range EXCEPT ![p] = r]
        /\ scan' = [scan EXCEPT ![p] = "none"]
        /\ seen' = [seen EXCEPT ![p] = {}]
        /\ UNCHANGED <<cmd, branch, kild, todo, picked, writing>>
    BY <1>1, <1>6 DEF r
  <2>2. /\ pc'[p] = "worktree" /\ scan'[p] = "none" /\ seen'[p] = {} /\ range'[p] = r /\ Others(p)
        /\ UNCHANGED <<cmd, branch, kild, todo, picked, map, fd>>
    BY <2>1 DEF Goto, writing, Others, LocalsTyped
  <2>3. LocalsTyped'
    BY <1>2, <1>6, <2>1 DEF Goto, writing, LocalsTyped
  <2>4. Stage(p)'
    BY <1>2, <1>3, <1>6, <2>2 DEF Stage, Busy, Saving, Searching
  <2> QED BY <1>4, <1>6, <2>2, <2>3, <2>4 DEF Moves, r
<1> QED BY <1>5, <1>6

LEMMA CreateWorktreeMoves ==
    ASSUME LocalsTyped, DiskTyped, NEW p \in Procs, Stage(p), CreateWorktree(p)
    PROVE  /\ Moves(p) /\ \A q \in Procs \ {p} : fd'[q] = fd[q]
           /\ \/ pc'[p] = "idle" /\ cmd'[p] = "list" /\ scan'[p] = "none" /\ seen'[p] = {}
                 /\ UNCHANGED <<worktree, pruned>>
              \/ /\ pc'[p] = "mkdir" /\ UNCHANGED <<args, reading>>
                 /\ worktree' = worktree \cup {kild[p]} /\ pruned' = pruned \ {kild[p]}
<1>1. CASE kild[p] \in worktree
  BY <1>1, ReturnMoves DEF CreateWorktree
<1>2. CASE kild[p] \notin worktree
  <2>1. /\ pc'[p] = "mkdir" /\ Others(p) /\ UNCHANGED <<args, reading, map, fd>>
        /\ worktree' = worktree \cup {kild[p]} /\ pruned' = pruned \ {kild[p]}
    BY <1>2 DEF CreateWorktree, Goto, args, reading, writing, Others, LocalsTyped
  <2>2. LocalsTyped'
    BY <1>2 DEF CreateWorktree, Goto, args, reading, writing, LocalsTyped
  <2>3. Stage(p)'
    BY <2>1 DEF CreateWorktree, Stage, Busy, Saving, Searching, args, reading
  <2> QED BY <2>1, <2>2, <2>3 DEF Moves
<1> QED BY <1>1, <1>2

LEMMA ReadToPatchMoves ==
    ASSUME LocalsTyped, DiskTyped, NEW p \in Procs, Stage(p), ReadToPatch(p)
    PROVE  /\ Moves(p) /\ \A q \in Procs \ {p} : fd'[q] = fd[q]
           /\ \/ pc'[p] = "idle" /\ cmd'[p] = "list" /\ scan'[p] = "none" /\ seen'[p] = {}
              \/ /\ pc'[p] = "truncate" /\ UNCHANGED <<cmd, branch, kild, reading>>
                 /\ range'[p] \in Ranges
                 /\ range'[p] = IF file[kild[p]] = NoFile /\ flat[kild[p]] # NoFile
                                THEN flat[kild[p]] ELSE file[kild[p]]
<1> DEFINE r == IF file[kild[p]] = NoFile /\ flat[kild[p]] # NoFile THEN flat[kild[p]] ELSE file[kild[p]]
<1>1. IF r \in Ranges
      THEN /\ range' = [range EXCEPT ![p] = r]
           /\ Goto(p, "truncate") /\ UNCHANGED <<cmd, branch, kild, reading, writing>>
      ELSE Return(p)
  BY DEF ReadToPatch
<1>2. pc[p] = "read"
  BY DEF ReadToPatch
<1> HIDE DEF r
<1>3. CASE r \notin Ranges
  BY <1>1, <1>3, ReturnMoves
<1>4. CASE r \in Ranges
  <2>1. /\ pc'[p] = "truncate" /\ range'[p] = r /\ Others(p)
        /\ UNCHANGED <<cmd, branch, kild, reading, map, fd>>
    BY <1>1, <1>4 DEF Goto, reading, writing, Others, LocalsTyped
  <2>2. LocalsTyped'
    BY <1>1, <1>4 DEF Goto, reading, writing, LocalsTyped
  <2>3. Stage(p)'
    BY <1>2, <1>4, <2>1 DEF Stage, Busy, Saving, Searching, reading
  <2> QED BY <1>4, <2>1, <2>2, <2>3 DEF Moves, r
<1> QED BY <1>3, <1>4

LEMMA MakeDirMoves ==
    ASSUME LocalsTyped, DiskTyped, NEW p \in Procs, Stage(p), MakeDir(p)
    PROVE  Moves(p) /\ pc'[p] = "truncate" /\ UNCHANGED <<args, reading, fd>>
<1>1. pc'[p] = "truncate" /\ Others(p) /\ UNCHANGED <<args, reading, map, fd>>
  BY DEF MakeDir, Goto, args, reading, writing, Others, LocalsTyped
<1>2. LocalsTyped'
  BY <1>1 DEF MakeDir, Goto, args, reading, LocalsTyped
<1>3. Stage(p)'
  BY <1>1 DEF MakeDir, Stage, Busy, Saving, args, reading
<1> QED BY <1>1, <1>2, <1>3 DEF Moves

LEMMA TruncateMoves ==
    ASSUME LocalsTyped, DiskTyped, NEW p \in Procs, Stage(p), Truncate(p)
    PROVE  /\ Moves(p) /\ \A q \in Procs \ {p} : fd'[q] = fd[q]
           /\ \/ /\ pc'[p] = "idle" /\ cmd'[p] = "list" /\ scan'[p] = "none" /\ seen'[p] = {}
                 /\ UNCHANGED <<tmp, raced>>
              \/ /\ pc'[p] = "write" /\ UNCHANGED <<args, reading>> /\ fd'[p] = "tmp"
                 /\ kild[p] \in dir
                 /\ tmp' = [tmp EXCEPT ![kild[p]] = Torn]
                 /\ raced' = (raced \/ ClashOfWriters(p, kild[p]))
<1>1. CASE kild[p] \notin dir
  BY <1>1, ReturnMoves DEF Truncate
<1>2. CASE kild[p] \in dir
  <2>1. /\ pc'[p] = "write" /\ Others(p) /\ UNCHANGED <<args, reading, map>> /\ fd'[p] = "tmp"
        /\ \A q \in Procs \ {p} : fd'[q] = fd[q]
        /\ dir' = dir
    BY <1>2 DEF Truncate, Goto, args, reading, Others, LocalsTyped
  <2>2. LocalsTyped'
    BY <1>2 DEF Truncate, Goto, args, reading, LocalsTyped
  <2>3. Stage(p)'
    BY <1>2, <2>1 DEF Truncate, Stage, Busy, Saving, args, reading
  <2> QED BY <1>2, <2>1, <2>2, <2>3 DEF Moves, Truncate
<1> QED BY <1>1, <1>2

LEMMA WriteMoves ==
    ASSUME LocalsTyped, DiskTyped, NEW p \in Procs, Stage(p), Write(p)
    PROVE  Moves(p) /\ pc'[p] = "rename" /\ UNCHANGED <<args, reading, fd>>
<1>1. pc'[p] = "rename" /\ Others(p) /\ UNCHANGED <<args, reading, map, fd>>
  BY DEF Write, Goto, args, reading, writing, Others, LocalsTyped
<1>2. LocalsTyped'
  BY <1>1 DEF Write, Goto, args, reading, LocalsTyped
<1>3. Stage(p)'
  BY <1>1 DEF Write, Stage, Busy, Saving, args, reading
<1> QED BY <1>1, <1>2, <1>3 DEF Moves

LEMMA WriteFailsMoves ==
    ASSUME LocalsTyped, DiskTyped, NEW p \in Procs, Stage(p), WriteFails(p)
    PROVE  /\ Moves(p) /\ pc'[p] = "idle" /\ cmd'[p] = "list" /\ scan'[p] = "none" /\ seen'[p] = {}
           /\ \A q \in Procs \ {p} : fd'[q] = fd[q] \/ (fd'[q] = "gone" /\ kild[q] = kild[p] /\ pc[q] = "write")
<1>1. fd' \in [Procs -> {"none", "tmp", "live", "gone"}]
  BY DEF WriteFails, LocalsTyped
<1>2. \A q \in Procs \ {p} : fd'[q] = fd[q] \/ (fd'[q] = "gone" /\ kild[q] = kild[p] /\ pc[q] = "write")
  <2>1. fd' = [q \in Procs |-> IF q = p THEN "none"
                               ELSE IF kild[q] = kild[p] /\ pc[q] = "write" /\ fd[q] = "tmp" THEN "gone"
                               ELSE fd[q]]
    BY DEF WriteFails
  <2> QED BY <2>1
<1> QED BY <1>1, <1>2, ExitMoves DEF WriteFails

LEMMA RenameMoves ==
    ASSUME LocalsTyped, DiskTyped, NEW p \in Procs, Stage(p), Rename(p)
    PROVE  /\ Moves(p)
           /\ \/ pc'[p] = "idle" /\ cmd'[p] = "list" /\ scan'[p] = "none" /\ seen'[p] = {}
              \/ pc'[p] = "index" /\ UNCHANGED <<cmd, branch, kild, reading>>
           /\ \A q \in Procs \ {p} : \/ fd'[q] = fd[q]
                                     \/ /\ kild[q] = kild[p] /\ pc[q] = "write"
                                        /\ fd'[q] = "live" => fd[q] = "tmp"
                                        /\ fd'[q] # "tmp"
<1>1. CASE tmp[kild[p]] = NoFile
  BY <1>1, ReturnMoves DEF Rename
<1>2. CASE tmp[kild[p]] # NoFile
  <2>1. /\ fd' \in [Procs -> {"none", "tmp", "live", "gone"}]
        /\ \A q \in Procs \ {p} : \/ fd'[q] = fd[q]
                                  \/ /\ kild[q] = kild[p] /\ pc[q] = "write"
                                     /\ fd'[q] = "live" => fd[q] = "tmp"
                                     /\ fd'[q] # "tmp"
    BY <1>2 DEF Rename, LocalsTyped
  <2>2. CASE cmd[p] = "patch"
    BY <1>2, <2>1, <2>2, ExitMoves DEF Rename
  <2>3. CASE cmd[p] # "patch"
    <3>1. /\ Goto(p, "index") /\ range' = [range EXCEPT ![p] = NoFile]
          /\ UNCHANGED <<cmd, branch, kild, reading, map>>
      BY <1>2, <2>3 DEF Rename
    <3>2. pc'[p] = "index" /\ Others(p) /\ UNCHANGED <<cmd, branch, kild, reading, map>>
      BY <3>1 DEF Goto, reading, Others, LocalsTyped
    <3>3. LocalsTyped'
      BY <2>1, <3>1 DEF Goto, reading, LocalsTyped
    <3>4. Stage(p)'
      BY <2>3, <3>2 DEF Rename, Stage, Busy, Saving, reading
    <3> QED BY <2>1, <3>2, <3>3, <3>4 DEF Moves
  <2> QED BY <2>2, <2>3
<1> QED BY <1>1, <1>2

\* What a command goes on with when the index has been dealt with.
LEMMA IndexedMoves ==
    ASSUME LocalsTyped, DiskTyped, NEW p \in Procs, Stage(p), Indexed(p), pc[p] \in {"index", "store"}
    PROVE  /\ Moves(p) /\ \A q \in Procs \ {p} : fd'[q] = fd[q]
           /\ \/ pc'[p] = "idle" /\ cmd'[p] = "list" /\ scan'[p] = "none" /\ seen'[p] = {}
              \/ scan[p] = "find" /\ (pc'[p] = "idle" \/ WentOn(p, kild[p], range[p]))
              \/ pc'[p] = "clean" /\ UNCHANGED <<cmd, reading>>
<1>1. kild[p] \in Kilds /\ (scan[p] = "find" => range[p] \in Ranges)
  BY DEF Stage
<1>2. CASE scan[p] = "find"
  BY <1>1, <1>2, FoundMoves DEF Indexed
<1>3. CASE scan[p] = "stale"
  <2>1. pc'[p] = "clean" /\ Others(p) /\ UNCHANGED <<cmd, branch, range, reading, fd>>
    BY <1>3 DEF Indexed, Goto, Others, LocalsTyped, reading
  <2>2. LocalsTyped'
    BY <1>3, EmptyIsAnIndex DEF Indexed, Goto, reading, LocalsTyped
  <2>3. Stage(p)'
    BY <1>3, <2>1 DEF Stage, Busy, Saving, Searching, reading
  <2> QED BY <2>1, <2>2, <2>3 DEF Moves
<1>4. CASE scan[p] = "none"
  BY <1>4, ReturnMoves DEF Indexed
<1> QED BY <1>2, <1>3, <1>4 DEF Indexed

LEMMA LoadIndexMoves ==
    ASSUME LocalsTyped, DiskTyped, NEW p \in Procs, Stage(p), LoadIndex(p)
    PROVE  /\ Moves(p) /\ \A q \in Procs \ {p} : fd'[q] = fd[q]
           /\ \/ pc'[p] = "idle" /\ cmd'[p] = "list" /\ scan'[p] = "none" /\ seen'[p] = {}
              \/ scan[p] = "find" /\ (pc'[p] = "idle" \/ WentOn(p, kild[p], range[p]))
              \/ pc'[p] = "clean" /\ UNCHANGED <<cmd, reading>>
              \/ pc'[p] = "store" /\ UNCHANGED <<args, reading>>
<1> DEFINE m == IF Purges(p) THEN [b \in Branches |-> IF index[b] = kild[p] THEN NoKild ELSE index[b]]
                ELSE [index EXCEPT ![BranchOf[kild[p]]] = kild[p]]
<1>1. kild[p] \in Kilds /\ pc[p] = "index"
  BY DEF LoadIndex, Stage
<1>2. m \in Indexes
  BY <1>1, SessionsAssumption DEF DiskTyped, Indexes
<1>3. \/ Indexed(p)
      \/ Goto(p, "store") /\ map' = [map EXCEPT ![p] = m] /\ UNCHANGED <<args, reading, fd>>
  BY DEF LoadIndex
<1> HIDE DEF m
<1>4. CASE Indexed(p)
  BY <1>1, <1>4, IndexedMoves
<1>5. CASE Goto(p, "store") /\ map' = [map EXCEPT ![p] = m] /\ UNCHANGED <<args, reading, fd>>
  <2>1. pc'[p] = "store" /\ Others(p) /\ UNCHANGED <<args, reading, fd>>
    BY <1>5 DEF Goto, args, reading, Others, LocalsTyped
  <2>2. LocalsTyped'
    BY <1>2, <1>5 DEF Goto, args, reading, LocalsTyped
  <2>3. Stage(p)'
    BY <1>1, <2>1 DEF Stage, Busy, Saving, Searching, args, reading
  <2> QED BY <2>1, <2>2, <2>3 DEF Moves
<1> QED BY <1>3, <1>4, <1>5

LEMMA RemoveWorktreeMoves ==
    ASSUME LocalsTyped, DiskTyped, NEW p \in Procs, Stage(p), RemoveWorktree(p)
    PROVE  Moves(p) /\ pc'[p] = "unlink" /\ UNCHANGED <<args, reading, fd>>
<1>1. pc'[p] = "unlink" /\ Others(p) /\ UNCHANGED <<args, reading, map, fd>>
  BY DEF RemoveWorktree, Goto, args, reading, writing, Others, LocalsTyped
<1>2. LocalsTyped'
  BY <1>1 DEF RemoveWorktree, Goto, args, reading, LocalsTyped
<1>3. Stage(p)'
  BY <1>1 DEF RemoveWorktree, Stage, Busy, Saving, args, reading
<1> QED BY <1>1, <1>2, <1>3 DEF Moves

LEMMA RemoveFileMoves ==
    ASSUME LocalsTyped, DiskTyped, NEW p \in Procs, Stage(p), RemoveFile(p)
    PROVE  /\ Moves(p) /\ pc'[p] = "index" /\ UNCHANGED <<args, reading>>
           /\ \A q \in Procs \ {p} : fd'[q] = fd[q] \/ (fd'[q] = "gone" /\ kild[q] = kild[p] /\ pc[q] = "write")
           /\ \A q \in Procs \ {p} : kild[p] \in dir /\ kild[q] = kild[p] /\ pc[q] = "write" => fd'[q] = "gone"
<1>1. pc'[p] = "index" /\ Others(p) /\ UNCHANGED <<args, reading, map>> /\ pc' = [pc EXCEPT ![p] = "index"]
  BY DEF RemoveFile, Goto, args, reading, Others, LocalsTyped
<1>2. /\ \A q \in Procs \ {p} : fd'[q] = fd[q] \/ (fd'[q] = "gone" /\ kild[q] = kild[p] /\ pc[q] = "write")
      /\ \A q \in Procs \ {p} : kild[p] \in dir /\ kild[q] = kild[p] /\ pc[q] = "write" => fd'[q] = "gone"
  <2>1. \/ /\ kild[p] \in dir
           /\ fd' = [q \in Procs |-> IF kild[q] = kild[p] /\ pc[q] = "write" THEN "gone" ELSE fd[q]]
        \/ kild[p] \notin dir /\ fd' = fd
    BY DEF RemoveFile
  <2> QED BY <2>1
<1>3. fd' \in [Procs -> {"none", "tmp", "live", "gone"}]
  BY DEF RemoveFile, LocalsTyped
<1>4. LocalsTyped'
  BY <1>1, <1>3 DEF args, reading, LocalsTyped
<1>5. Stage(p)'
  BY <1>1 DEF RemoveFile, Stage, Busy, Saving, Searching, args, reading
<1> QED BY <1>1, <1>2, <1>4, <1>5 DEF Moves

LEMMA ListWorktreesMoves ==
    ASSUME LocalsTyped, DiskTyped, NEW p \in Procs, Stage(p), ListWorktrees(p)
    PROVE  Moves(p) /\ pc'[p] = "read_dir" /\ UNCHANGED <<args, scan, todo, seen, fd>>
<1>1. pc'[p] = "read_dir" /\ Others(p) /\ UNCHANGED <<args, scan, todo, seen, map, fd>>
  BY DEF ListWorktrees, Goto, args, writing, Others, LocalsTyped
<1>2. LocalsTyped'
  BY DEF ListWorktrees, Goto, args, writing, LocalsTyped, DiskTyped
<1>3. Stage(p)'
  BY <1>1 DEF ListWorktrees, Stage, Busy, Saving, args
<1> QED BY <1>1, <1>2, <1>3 DEF Moves

LEMMA UntrackedMoves ==
    ASSUME LocalsTyped, DiskTyped, NEW p \in Procs, Stage(p), Untracked(p)
    PROVE  /\ Moves(p) /\ pc'[p] = "sweep" /\ UNCHANGED <<args, scan, fd>> /\ seen'[p] = {}
           /\ picked'[p] = picked[p] \ {s[1] : s \in seen[p]}
<1>1. /\ pc'[p] = "sweep" /\ Others(p) /\ UNCHANGED <<args, scan, todo, map, fd>> /\ seen'[p] = {}
      /\ picked'[p] = picked[p] \ {s[1] : s \in seen[p]}
  BY DEF Untracked, Goto, args, writing, Others, LocalsTyped
<1>2. LocalsTyped'
  BY DEF Untracked, Goto, args, writing, LocalsTyped
<1>3. Stage(p)'
  BY <1>1 DEF Untracked, Loaded, Stage, Busy, Saving, Searching, args
<1> QED BY <1>1, <1>2, <1>3 DEF Moves

LEMMA SweepMoves ==
    ASSUME LocalsTyped, DiskTyped, NEW p \in Procs, Stage(p), Sweep(p)
    PROVE  /\ Moves(p) /\ UNCHANGED <<pc, args, scan, todo, seen, fd>>
           /\ \E k \in picked[p] : picked'[p] = picked[p] \ {k} /\ worktree' \in {worktree, worktree \ {k}}
<1>1. /\ Others(p) /\ UNCHANGED <<pc, args, scan, todo, seen, map, fd>>
      /\ \E k \in picked[p] : picked'[p] = picked[p] \ {k} /\ worktree' \in {worktree, worktree \ {k}}
  BY DEF Sweep, args, writing, Others, LocalsTyped
<1>2. LocalsTyped'
  BY DEF Sweep, args, writing, LocalsTyped
<1>3. Stage(p)'
  BY <1>1 DEF Sweep, Stage, Busy, Saving, args
<1> QED BY <1>1, <1>2, <1>3 DEF Moves

LEMMA StaleFoundMoves ==
    ASSUME LocalsTyped, DiskTyped, NEW p \in Procs, Stage(p), StaleFound(p)
    PROVE  Moves(p) /\ pc'[p] = "clean" /\ UNCHANGED <<args, reading, fd>>
<1>1. pc'[p] = "clean" /\ Others(p) /\ UNCHANGED <<args, reading, map, fd>>
  BY DEF StaleFound, Goto, args, reading, writing, Others, LocalsTyped
<1>2. LocalsTyped'
  BY DEF StaleFound, Goto, args, reading, writing, LocalsTyped
<1>3. Stage(p)'
  BY <1>1 DEF StaleFound, Loaded, Stage, Busy, Saving, Searching, args, reading
<1> QED BY <1>1, <1>2, <1>3 DEF Moves

LEMMA CleanMoves ==
    ASSUME LocalsTyped, DiskTyped, NEW p \in Procs, Stage(p), Clean(p)
    PROVE  /\ Moves(p) /\ pc'[p] \in {"clean", "unlink"} /\ cmd'[p] = cmd[p]
           /\ scan'[p] = scan[p] /\ seen'[p] = seen[p] /\ UNCHANGED fd
           /\ \E k \in picked[p] : picked'[p] = picked[p] \ {k} /\ worktree' \in {worktree, worktree \ {k}}
<1>1. PICK k \in picked[p] :
         /\ picked' = [picked EXCEPT ![p] = @ \ {k}]
         /\ \/ UNCHANGED <<worktree, pc, kild>>
            \/ /\ worktree' \in {worktree, worktree \ {k}}
               /\ kild' = [kild EXCEPT ![p] = k]
               /\ Goto(p, "unlink")
  BY DEF Clean
<1>2. k \in Kilds /\ pc[p] = "clean"
  BY DEF Clean, LocalsTyped
<1>3. /\ pc'[p] \in {"clean", "unlink"} /\ picked'[p] = picked[p] \ {k}
      /\ pc'[p] = "unlink" => kild'[p] = k
      /\ worktree' \in {worktree, worktree \ {k}}
      /\ Others(p) /\ UNCHANGED <<cmd, branch, range, scan, todo, seen, map, fd>>
  BY <1>1, <1>2 DEF Clean, Goto, writing, Others, LocalsTyped
<1>4. LocalsTyped'
  BY <1>1, <1>2, <1>3 DEF Goto, LocalsTyped
<1>5. Stage(p)'
  BY <1>2, <1>3 DEF Stage, Busy, Saving, Searching
<1> QED BY <1>3, <1>4, <1>5 DEF Moves

\* The commands that begin.
Begins(p) == \/ Create(p) \/ Update(p) \/ Patch(p) \/ Destroy(p) \/ List(p)
             \/ CleanUpOrphans(p) \/ CleanUpStale(p)

LEMMA BeginMoves ==
    ASSUME LocalsTyped, DiskTyped, NEW p \in Procs, Stage(p), Begins(p),
           begun \in 0 .. MaxCommands
    PROVE  /\ Moves(p) /\ UNCHANGED <<disk, todo, seen, picked, fd, saved, pruned>> /\ ~Busy(p)
           /\ pc'[p] \in {"lookup", "read", "read_dir", "worktrees"} /\ seen[p] = {}
           /\ scan'[p] # "ports"
           /\ raced' = (raced \/ ClashOfCommands(p, cmd'[p]))
           /\ begun' \in 0 .. MaxCommands
<1>1. PICK c \in Commands, b \in Branches \cup {NoBranch}, k \in Kilds \cup {NoKild},
           next \in {"lookup", "read", "read_dir", "worktrees"},
           what \in {"none", "find", "list", "orphans", "stale"} :
         /\ Begin(p, c, b, k, next, what)
         /\ \/ c = "create" /\ next = "lookup" /\ what = "find" /\ k \in Kilds /\ b = BranchOf[k]
            \/ c \in {"update", "destroy"} /\ next = "lookup" /\ what = "find" /\ b \in Branches
            \/ c = "patch" /\ next = "read" /\ what = "none" /\ k \in Kilds
            \/ c = "list" /\ next = "read_dir" /\ what = "list"
            \/ c = "orphans" /\ next = "worktrees" /\ what = "orphans"
            \/ c = "stale" /\ next = "read_dir" /\ what = "stale"
  <2>1. CASE Create(p)
    BY <2>1, SessionsAssumption DEF Create, Commands
  <2>2. CASE Update(p)
    BY <2>2 DEF Update, Commands
  <2>3. CASE Patch(p)
    BY <2>3 DEF Patch, Commands
  <2>4. CASE Destroy(p)
    BY <2>4 DEF Destroy, Commands
  <2>5. CASE List(p)
    BY <2>5 DEF List, Commands
  <2>6. CASE CleanUpOrphans(p)
    BY <2>6 DEF CleanUpOrphans, Commands
  <2>7. CASE CleanUpStale(p)
    BY <2>7 DEF CleanUpStale, Commands
  <2> QED BY <2>1, <2>2, <2>3, <2>4, <2>5, <2>6, <2>7 DEF Begins
<1>2. /\ pc'[p] = next /\ cmd'[p] = c /\ branch'[p] = b /\ kild'[p] = k /\ scan'[p] = what
      /\ ~Busy(p) /\ Others(p) /\ raced' = (raced \/ ClashOfCommands(p, c))
      /\ UNCHANGED <<disk, todo, seen, picked, map, fd, saved, pruned>>
  BY <1>1 DEF Begin, Goto, writing, Others, LocalsTyped
<1>3. LocalsTyped'
  BY <1>1 DEF Begin, Goto, writing, LocalsTyped
<1>4. seen[p] = {}
  BY <1>2 DEF Stage
<1>5. Stage(p)'
  <2>1. CASE c = "create"
    <3>1. k \in Kilds /\ b = BranchOf[k] /\ b \in Branches /\ next = "lookup" /\ what = "find"
      BY <1>1, <2>1, SessionsAssumption
    <3> QED BY <1>2, <1>4, <2>1, <3>1 DEF Stage, Busy, Saving, Searching
  <2>2. CASE c \in {"update", "destroy"}
    BY <1>1, <1>2, <1>4, <2>2 DEF Stage, Busy, Saving, Searching
  <2>3. CASE c \in {"patch", "list", "orphans", "stale"}
    BY <1>1, <1>2, <1>4, <2>3 DEF Stage, Busy, Saving, Searching
  <2>4. c = "create" \/ c \in {"update", "destroy"} \/ c \in {"patch", "list", "orphans", "stale"}
    BY <1>1
  <2> QED BY <2>1, <2>2, <2>3, <2>4
<1>6. begun' \in 0 .. MaxCommands
  BY <1>1, SessionsAssumption DEF Begin
<1> QED BY <1>1, <1>2, <1>3, <1>4, <1>5, <1>6 DEF Moves

-----------------------------------------------------------------------------
(* The disk. *)

Kept == UNCHANGED <<disk, history>>

LEMMA KeptTyped ==
    ASSUME DiskTyped, HistoryTyped, Kept
    PROVE  DiskTyped' /\ HistoryTyped'
BY DEF Kept, disk, history, DiskTyped, HistoryTyped

LEMMA MigrateTyped ==
    ASSUME DiskTyped, HistoryTyped, NEW p \in Procs, NEW k \in Kilds, Migrate(p, k)
    PROVE  DiskTyped' /\ HistoryTyped' /\ dir \subseteq dir'
<1>1. /\ flat' = [flat EXCEPT ![k] = NoFile] /\ file' = [file EXCEPT ![k] = flat[k]]
      /\ dir' = dir \cup {k} /\ UNCHANGED <<tmp, index, worktree, saved, pruned>>
      /\ raced' = (raced \/ ClashOfMigration(p, k))
  BY DEF Migrate
<1>2. flat' \in [Kilds -> Ranges \cup {NoFile}]
  BY <1>1 DEF DiskTyped
<1>3. file' \in [Kilds -> Contents]
  BY <1>1 DEF DiskTyped, Contents
<1>4. \A l \in Kilds : file'[l] # NoFile \/ tmp'[l] # NoFile => l \in dir'
  BY <1>1 DEF DiskTyped
<1> QED BY <1>1, <1>2, <1>3, <1>4 DEF DiskTyped, HistoryTyped

LEMMA DieTyped ==
    ASSUME DiskTyped, HistoryTyped, NEW p \in Procs, Die(p)
    PROVE  DiskTyped' /\ HistoryTyped' /\ dir' = dir
<1>1. tmp' \in [Kilds -> Contents] /\ \A k \in Kilds : tmp'[k] \in {NoFile, tmp[k]}
  BY DEF Die, DiskTyped, Contents
<1>2. UNCHANGED <<flat, file, dir, index, worktree, raced, saved, pruned>>
  BY DEF Die, history
<1> QED BY <1>1, <1>2 DEF DiskTyped, HistoryTyped

LEMMA LoadEntryTyped ==
    ASSUME LocalsTyped, DiskTyped, HistoryTyped, NEW p \in Procs, Stage(p),
           LoadEntry(p), NEW e \in todo[p], Reads(p, e)
    PROVE  DiskTyped' /\ HistoryTyped' /\ dir \subseteq dir'
<1>1. e[1] \in Kilds
  BY LoadEntryMoves
<1>2. Migrate(p, e[1]) \/ Kept
  BY DEF Reads, Kept
<1> QED BY <1>1, <1>2, MigrateTyped, KeptTyped DEF Kept, disk

LEMMA ReadToPatchTyped ==
    ASSUME LocalsTyped, DiskTyped, HistoryTyped, NEW p \in Procs, Stage(p), ReadToPatch(p)
    PROVE  DiskTyped' /\ HistoryTyped' /\ dir \subseteq dir'
<1>1. kild[p] \in Kilds
  BY DEF ReadToPatch, Stage
<1>2. Migrate(p, kild[p]) \/ Kept
  BY DEF ReadToPatch, Kept
<1> QED BY <1>1, <1>2, MigrateTyped, KeptTyped DEF Kept, disk

LEMMA TruncateTyped ==
    ASSUME LocalsTyped, DiskTyped, HistoryTyped, NEW p \in Procs, Stage(p), Truncate(p)
    PROVE  DiskTyped' /\ HistoryTyped' /\ dir' = dir
<1>1. UNCHANGED <<flat, file, dir, index, worktree, saved, pruned>> /\ kild[p] \in Kilds
  BY DEF Truncate, Stage, Saving
<1>2. \/ UNCHANGED <<tmp, raced>>
      \/ /\ kild[p] \in dir /\ tmp' = [tmp EXCEPT ![kild[p]] = Torn]
         /\ raced' = (raced \/ ClashOfWriters(p, kild[p]))
  BY DEF Truncate
<1>3. tmp' \in [Kilds -> Contents] /\ \A k \in Kilds : tmp'[k] # tmp[k] => k \in dir
  BY <1>1, <1>2 DEF DiskTyped, Contents
<1> QED BY <1>1, <1>2, <1>3 DEF DiskTyped, HistoryTyped

LEMMA WriteTyped ==
    ASSUME LocalsTyped, DiskTyped, HistoryTyped, NEW p \in Procs, Stage(p), Write(p)
    PROVE  DiskTyped' /\ HistoryTyped' /\ dir' = dir
<1>1. /\ UNCHANGED <<flat, dir, index, worktree, raced, saved, pruned>>
      /\ kild[p] \in Kilds /\ range[p] \in Ranges
      /\ fd[p] \in {"tmp", "live"} => kild[p] \in dir
  BY DEF Write, Stage, Saving, history
<1>2. \A there : Written(range[p], there, Torn) \subseteq Contents
  BY <1>1 DEF Written, Contents
<1>3. \/ UNCHANGED <<tmp, file>>
      \/ /\ kild[p] \in dir /\ UNCHANGED file
         /\ \E c \in Contents : tmp' = [tmp EXCEPT ![kild[p]] = c]
      \/ /\ kild[p] \in dir /\ UNCHANGED tmp
         /\ \E c \in Contents : file' = [file EXCEPT ![kild[p]] = c]
  BY <1>1, <1>2 DEF Write
<1>4. /\ tmp' \in [Kilds -> Contents] /\ file' \in [Kilds -> Contents]
      /\ \A k \in Kilds : tmp'[k] # tmp[k] \/ file'[k] # file[k] => k \in dir
  BY <1>1, <1>3 DEF DiskTyped
<1> QED BY <1>1, <1>4 DEF DiskTyped, HistoryTyped

LEMMA WriteFailsTyped ==
    ASSUME LocalsTyped, DiskTyped, HistoryTyped, NEW p \in Procs, Stage(p), WriteFails(p)
    PROVE  DiskTyped' /\ HistoryTyped' /\ dir' = dir
<1>1. /\ UNCHANGED <<flat, file, dir, index, worktree, raced, saved, pruned>>
      /\ tmp' = [tmp EXCEPT ![kild[p]] = NoFile]
  BY DEF WriteFails, history
<1>2. tmp' \in [Kilds -> Contents] /\ \A k \in Kilds : tmp'[k] # NoFile => tmp[k] # NoFile
  BY <1>1 DEF DiskTyped, Contents
<1> QED BY <1>1, <1>2 DEF DiskTyped, HistoryTyped

LEMMA RenameTyped ==
    ASSUME LocalsTyped, DiskTyped, HistoryTyped, NEW p \in Procs, Stage(p), Rename(p)
    PROVE  DiskTyped' /\ HistoryTyped' /\ dir' = dir
<1>1. UNCHANGED <<flat, dir, index, worktree, raced, pruned>> /\ kild[p] \in Kilds
  BY DEF Rename, Stage, Saving
<1>2. \/ UNCHANGED <<tmp, file, saved>>
      \/ /\ tmp[kild[p]] # NoFile
         /\ file' = [file EXCEPT ![kild[p]] = tmp[kild[p]]] /\ tmp' = [tmp EXCEPT ![kild[p]] = NoFile]
         /\ saved' \in {saved, saved \cup {kild[p]}}
  BY DEF Rename
<1>3. /\ tmp' \in [Kilds -> Contents] /\ file' \in [Kilds -> Contents]
      /\ \A k \in Kilds : tmp'[k] # NoFile \/ file'[k] # NoFile => k \in dir
      /\ saved' \subseteq Kilds
  BY <1>1, <1>2 DEF DiskTyped, HistoryTyped, Contents
<1> QED BY <1>1, <1>3 DEF DiskTyped, HistoryTyped

LEMMA StoreIndexTyped ==
    ASSUME LocalsTyped, DiskTyped, HistoryTyped, NEW p \in Procs, StoreIndex(p)
    PROVE  DiskTyped' /\ HistoryTyped' /\ dir' = dir
<1>1. index' \in Indexes
  BY EmptyIsAnIndex DEF StoreIndex, LocalsTyped, DiskTyped
<1> QED BY <1>1 DEF StoreIndex, DiskTyped, HistoryTyped, history

LEMMA RemoveFileTyped ==
    ASSUME LocalsTyped, DiskTyped, HistoryTyped, NEW p \in Procs, Stage(p), RemoveFile(p)
    PROVE  /\ DiskTyped' /\ HistoryTyped'
           /\ dir' = dir \ {kild[p]}
<1>1. /\ UNCHANGED <<index, worktree, pruned>> /\ kild[p] \in Kilds /\ saved' = saved \ {kild[p]}
      /\ raced' = (raced \/ ClashOfRemoval(p, kild[p]))
  BY DEF RemoveFile, Stage
<1>2. \/ /\ kild[p] \in dir /\ dir' = dir \ {kild[p]} /\ UNCHANGED flat
         /\ file' = [file EXCEPT ![kild[p]] = NoFile] /\ tmp' = [tmp EXCEPT ![kild[p]] = NoFile]
      \/ /\ kild[p] \notin dir /\ UNCHANGED <<dir, file, tmp>>
         /\ flat' = [flat EXCEPT ![kild[p]] = NoFile]
  BY DEF RemoveFile
<1>3. /\ flat' \in [Kilds -> Ranges \cup {NoFile}]
      /\ file' \in [Kilds -> Contents] /\ tmp' \in [Kilds -> Contents]
  BY <1>1, <1>2 DEF DiskTyped, Contents
<1>4. \A k \in Kilds : file'[k] # NoFile \/ tmp'[k] # NoFile => k \in dir'
  BY <1>1, <1>2 DEF DiskTyped
<1> QED BY <1>1, <1>2, <1>3, <1>4 DEF DiskTyped, HistoryTyped

LEMMA WorktreesTyped ==
    ASSUME LocalsTyped, DiskTyped, HistoryTyped, NEW p \in Procs, Stage(p),
           \/ CreateWorktree(p) \/ MakeDir(p) \/ RemoveWorktree(p) \/ Sweep(p) \/ Clean(p)
    PROVE  DiskTyped' /\ HistoryTyped' /\ dir \subseteq dir'
<1>1. CASE CreateWorktree(p)
  BY <1>1 DEF CreateWorktree, Stage, DiskTyped, HistoryTyped
<1>2. CASE MakeDir(p)
  BY <1>2 DEF MakeDir, Stage, Saving, DiskTyped, HistoryTyped, history
<1>3. CASE RemoveWorktree(p)
  BY <1>3 DEF RemoveWorktree, Stage, DiskTyped, HistoryTyped
<1>4. CASE Sweep(p)
  <2>1. worktree' \subseteq worktree /\ UNCHANGED <<flat, file, tmp, dir, index, raced, saved, pruned>>
    BY <1>4 DEF Sweep, history
  <2> QED BY <2>1 DEF DiskTyped, HistoryTyped
<1>5. CASE Clean(p)
  <2>1. worktree' \subseteq worktree /\ UNCHANGED <<flat, file, tmp, dir, index, raced, saved, pruned>>
    BY <1>5 DEF Clean, history
  <2> QED BY <2>1 DEF DiskTyped, HistoryTyped
<1> QED BY <1>1, <1>2, <1>3, <1>4, <1>5

\* The steps that leave the disk as it is.
Quiet(p) ==
    \/ Lookup(p) \/ Check(p) \/ ReadDir(p) \/ FindByScan(p) \/ Listed(p)
    \/ AllocatePorts(p) \/ SpawnFails(p) \/ LoadIndex(p) \/ RemoveWorktreeFails(p)
    \/ ListWorktrees(p) \/ Untracked(p) \/ StaleFound(p) \/ Cleaned(p)

Returning(p) == Listed(p) \/ SpawnFails(p) \/ RemoveWorktreeFails(p) \/ Cleaned(p)

LEMMA ReturningMoves ==
    ASSUME LocalsTyped, DiskTyped, NEW p \in Procs, Returning(p)
    PROVE  /\ Moves(p) /\ pc'[p] = "idle" /\ cmd'[p] = "list" /\ seen'[p] = {} /\ scan'[p] = "none"
           /\ \A q \in Procs \ {p} : fd'[q] = fd[q]
<1>1. Return(p)
  BY DEF Returning, Listed, SpawnFails, RemoveWorktreeFails, Cleaned
<1> QED BY <1>1, ReturnMoves

LEMMA QuietKeeps ==
    ASSUME NEW p \in Procs, Quiet(p)
    PROVE  Kept
BY Zenon DEF Quiet, Kept, Lookup, Check, ReadDir, FindByScan, Listed, AllocatePorts, SpawnFails, LoadIndex,
   RemoveWorktreeFails, ListWorktrees, Untracked, StaleFound, Cleaned

LEMMA QuietMoves ==
    ASSUME LocalsTyped, DiskTyped, NEW p \in Procs, Stage(p), Quiet(p)
    PROVE  Moves(p) /\ \A q \in Procs \ {p} : fd'[q] = fd[q]
<1>1. CASE Lookup(p)
  BY <1>1, LookupMoves
<1>2. CASE Check(p)
  BY <1>2, CheckMoves
<1>3. CASE ReadDir(p)
  BY <1>3, ReadDirMoves
<1>4. CASE FindByScan(p)
  BY <1>4, FindByScanMoves
<1>5. CASE AllocatePorts(p)
  BY <1>5, AllocatePortsMoves
<1>6. CASE LoadIndex(p)
  BY <1>6, LoadIndexMoves
<1>7. CASE ListWorktrees(p)
  BY <1>7, ListWorktreesMoves
<1>8. CASE Untracked(p)
  BY <1>8, UntrackedMoves
<1>9. CASE StaleFound(p)
  BY <1>9, StaleFoundMoves
<1>10. CASE Returning(p)
  BY <1>10, ReturningMoves
<1> QED BY <1>1, <1>2, <1>3, <1>4, <1>5, <1>6, <1>7, <1>8, <1>9, <1>10 DEF Quiet, Returning

\* Where p's step leaves an open temp file of another process its directory.
FdKept(p) ==
    \A q \in Procs \ {p} :
        pc[q] = "write" /\ fd'[q] \in {"tmp", "live"} =>
            fd[q] \in {"tmp", "live"} /\ (kild[q] \in dir => kild[q] \in dir')

LEMMA StageOfOthers ==
    ASSUME NEW p \in Procs, \A q \in Procs : Stage(q), Others(p), FdKept(p), NEW q \in Procs \ {p}
    PROVE  Stage(q)'
<1>1. Stage(q) /\ q \in Procs
  OBVIOUS
<1>2. /\ pc'[q] = pc[q] /\ cmd'[q] = cmd[q] /\ branch'[q] = branch[q] /\ kild'[q] = kild[q]
      /\ range'[q] = range[q] /\ scan'[q] = scan[q] /\ seen'[q] = seen[q] /\ picked'[q] = picked[q]
  BY DEF Others
<1>3. pc[q] = "write" /\ fd'[q] \in {"tmp", "live"} =>
            fd[q] \in {"tmp", "live"} /\ (kild[q] \in dir => kild[q] \in dir')
  BY DEF FdKept
<1> QED BY <1>1, <1>2, <1>3 DEF Stage, Busy

LEMMA StepTyped ==
    ASSUME LocalsTyped, DiskTyped, HistoryTyped, \A q \in Procs : Stage(q), NEW p \in Procs, Step(p)
    PROVE  Moves(p) /\ DiskTyped' /\ HistoryTyped' /\ FdKept(p)
<1>1. Stage(p)
  OBVIOUS
<1>2. CASE Quiet(p)
  BY <1>1, <1>2, QuietMoves, QuietKeeps, KeptTyped DEF Kept, disk, FdKept
<1>3. CASE Die(p)
  BY <1>3, ReturnMoves, DieTyped DEF Die, FdKept
<1>4. CASE LoadEntry(p)
  <2>1. PICK e \in todo[p] : Reads(p, e)
    BY <1>4, Zenon DEF LoadEntry, Reads
  <2> QED BY <1>1, <1>4, <2>1, LoadEntryMoves, LoadEntryTyped DEF FdKept, writing
<1>5. CASE ReadToPatch(p)
  BY <1>1, <1>5, ReadToPatchMoves, ReadToPatchTyped DEF FdKept
<1>6. CASE CreateWorktree(p)
  BY <1>1, <1>6, CreateWorktreeMoves, WorktreesTyped DEF FdKept
<1>7. CASE MakeDir(p)
  BY <1>1, <1>7, MakeDirMoves, WorktreesTyped DEF FdKept
<1>8. CASE Truncate(p)
  BY <1>1, <1>8, TruncateMoves, TruncateTyped DEF FdKept
<1>9. CASE Write(p)
  BY <1>1, <1>9, WriteMoves, WriteTyped DEF FdKept
<1>10. CASE WriteFails(p)
  BY <1>1, <1>10, WriteFailsMoves, WriteFailsTyped DEF FdKept
<1>11. CASE Rename(p)
  BY <1>1, <1>11, RenameMoves, RenameTyped DEF FdKept
<1>12. CASE StoreIndex(p)
  BY <1>1, <1>12, IndexedMoves, StoreIndexTyped DEF StoreIndex, FdKept
<1>13. CASE RemoveWorktree(p)
  BY <1>1, <1>13, RemoveWorktreeMoves, WorktreesTyped DEF FdKept
<1>14. CASE RemoveFile(p)
  <2>1. kild[p] \in dir \/ dir' = dir
    BY <1>1, <1>14, RemoveFileTyped DEF DiskTyped
  <2> QED BY <1>1, <1>14, <2>1, RemoveFileMoves, RemoveFileTyped DEF FdKept
<1>15. CASE Sweep(p)
  BY <1>1, <1>15, SweepMoves, WorktreesTyped DEF FdKept
<1>16. CASE Clean(p)
  BY <1>1, <1>16, CleanMoves, WorktreesTyped DEF FdKept
<1> QED BY <1>2, <1>3, <1>4, <1>5, <1>6, <1>7, <1>8, <1>9, <1>10, <1>11, <1>12, <1>13, <1>14, <1>15, <1>16
        DEF Step, Quiet

Typed == TypeOK /\ \A p \in Procs : Stage(p)

LEMMA InitTyped == ASSUME Init PROVE Typed
<1>1. PICK old \in [Kilds -> OldRanges \cup {NoFile}], new \in [Kilds -> OldRanges \cup {NoFile}] :
         flat = old /\ file = new /\ dir = {k \in Kilds : new[k] # NoFile}
  BY DEF Init
<1>2. flat \in [Kilds -> Ranges \cup {NoFile}] /\ file \in [Kilds -> Contents]
  BY <1>1, SessionsAssumption DEF Contents
<1>3. tmp = [k \in Kilds |-> NoFile] /\ tmp \in [Kilds -> Contents]
  BY DEF Init, Contents
<1>4. saved \subseteq Kilds /\ worktree \subseteq saved /\ pruned \subseteq Kilds
  BY DEF Init
<1>5. DiskTyped
  BY <1>1, <1>2, <1>3, <1>4, EmptyIsAnIndex DEF Init, DiskTyped
<1>6. /\ pc = [p \in Procs |-> "idle"] /\ cmd = [p \in Procs |-> "list"]
      /\ branch = [p \in Procs |-> NoBranch] /\ kild = [p \in Procs |-> NoKild]
      /\ range = [p \in Procs |-> NoFile] /\ scan = [p \in Procs |-> "none"]
      /\ todo = [p \in Procs |-> {}] /\ seen = [p \in Procs |-> {}] /\ picked = [p \in Procs |-> {}]
      /\ map = [p \in Procs |-> Empty] /\ fd = [p \in Procs |-> "none"]
      /\ begun = 0 /\ raced = FALSE
  BY DEF Init
<1>7. LocalsTyped
  BY <1>6, EmptyIsAnIndex DEF LocalsTyped, Commands
<1>8. \A p \in Procs : Stage(p)
  BY <1>6 DEF Stage, Busy, Saving
<1>9. HistoryTyped /\ begun \in 0 .. MaxCommands
  <2>1. raced \in BOOLEAN /\ saved \subseteq Kilds /\ pruned \subseteq Kilds
    BY <1>4, <1>6
  <2>2. begun \in 0 .. MaxCommands
    BY <1>6, SessionsAssumption
  <2> QED BY <2>1, <2>2 DEF HistoryTyped
<1>10. TypeOK
  BY <1>5, <1>7, <1>9, TypeOKSplits
<1> QED BY <1>8, <1>10 DEF Typed

LEMMA NextTyped ==
    ASSUME Typed, [Next]_vars
    PROVE  Typed'
<1>1. LocalsTyped /\ DiskTyped /\ HistoryTyped /\ begun \in 0 .. MaxCommands /\ \A p \in Procs : Stage(p)
  BY TypeOKSplits DEF Typed
<1>2. ASSUME NEW p \in Procs, Moves(p), DiskTyped', HistoryTyped', FdKept(p), begun' \in 0 .. MaxCommands
      PROVE  Typed'
  <2>1. TypeOK'
    BY <1>2, TypeOKSplits DEF Moves, TypeOK, LocalsTyped, DiskTyped, HistoryTyped
  <2>2. \A q \in Procs \ {p} : Stage(q)'
    BY <1>1, <1>2, StageOfOthers DEF Moves
  <2>3. Stage(p)'
    BY <1>2 DEF Moves
  <2> QED BY <2>1, <2>2, <2>3 DEF Typed
<1>3. ASSUME NEW p \in Procs, Step(p), UNCHANGED begun
      PROVE  Typed'
  BY <1>1, <1>2, <1>3, StepTyped
<1>4. ASSUME NEW p \in Procs, Begins(p)
      PROVE  Typed'
  <2>1. Moves(p) /\ UNCHANGED <<disk, fd, saved, pruned>> /\ begun' \in 0 .. MaxCommands
        /\ raced' \in BOOLEAN
    BY <1>1, <1>4, BeginMoves DEF HistoryTyped
  <2>2. DiskTyped' /\ HistoryTyped' /\ FdKept(p)
    BY <1>1, <2>1 DEF DiskTyped, HistoryTyped, disk, FdKept
  <2> QED BY <1>2, <2>1, <2>2
<1>5. CASE UNCHANGED vars
  <2>1. TypeOK'
    BY <1>5 DEF Typed, TypeOK, vars, disk, args, reading, writing, history
  <2>2. \A p \in Procs : Stage(p)'
    BY <1>1, <1>5 DEF Stage, Busy, vars, disk, args, reading, writing, history
  <2> QED BY <2>1, <2>2 DEF Typed
<1>6. Next => \/ \E p \in Procs : Begins(p)
              \/ \E p \in Procs : Step(p) /\ UNCHANGED begun
              \/ UNCHANGED vars
  BY Zenon DEF Next, Begins, Rest
<1> QED BY <1>3, <1>4, <1>5, <1>6

\* The variables have their types at every moment, and no file lies outside a
\* directory: whatever commands overlap, fail or die.
THEOREM FilesTypeCorrect == Spec => []TypeOK
<1>1. Init => Typed
  BY InitTyped
<1>2. Typed /\ [Next]_vars => Typed'
  BY NextTyped
<1>3. Typed => TypeOK
  BY DEF Typed
<1> QED BY <1>1, <1>2, <1>3, PTL DEF Spec
-----------------------------------------------------------------------------
(* While no two commands have clashed: what a step leaves to the others. *)

Ready ==
    /\ LocalsTyped /\ DiskTyped /\ HistoryTyped
    /\ \A p \in Procs : Stage(p)
    /\ Sound

LEMMA IdleKnows ==
    ASSUME NEW p \in Procs, Stage(p)', pc'[p] = "idle"
    PROVE  Knows(p)'
<1>1. cmd'[p] = "list" /\ scan'[p] = "none" /\ seen'[p] = {} /\ picked'[p] = {}
  BY DEF Stage, Busy
<1> QED BY <1>1 DEF Knows, CopiesAreCurrent, Copy, Filling, Making, Scanning, Sweeping, Saving

LEMMA FitsKept ==
    ASSUME saved' \subseteq saved, \A l \in saved' : Session(l)' = Session(l)
    PROVE  \A k, r : Fits(k, r) => Fits(k, r)'
BY DEF Fits

\* What another process knows stays true when the sessions it has copies of, its
\* temp file and the kilds it looks for are left alone.
LEMMA KnowsKept ==
    ASSUME NEW p \in Procs, NEW q \in Procs \ {p}, Others(p), Knows(q), Stage(q),
           \A k \in Kilds, r \in Ranges :
               Copy(q, k, r) => k \in saved' /\ flat'[k] = flat[k] /\ file'[k] = file[k],
           pc[q] \in Writing => tmp'[kild[q]] = tmp[kild[q]],
           pc[q] = "write" => fd'[q] = fd[q],
           Busy(q) /\ cmd[q] \in {"create", "orphans", "stale"} =>
               /\ saved' \subseteq saved /\ pruned \subseteq pruned'
               /\ \A l \in saved' : /\ Session(l)' = Session(l)
                                    /\ file[l] # NoFile => file'[l] # NoFile
                                    /\ <<l, "flat">> \in todo[q] => flat'[l] = flat[l],
           Busy(q) /\ cmd[q] = "create" => worktree \cup pruned \subseteq worktree' \cup pruned'
    PROVE  Knows(q)'
<1>1. /\ pc'[q] = pc[q] /\ cmd'[q] = cmd[q] /\ branch'[q] = branch[q] /\ kild'[q] = kild[q]
      /\ range'[q] = range[q] /\ scan'[q] = scan[q] /\ todo'[q] = todo[q]
      /\ seen'[q] = seen[q] /\ picked'[q] = picked[q]
  BY DEF Others
<1>2. CopiesAreCurrent(q)'
  BY <1>1 DEF Knows, CopiesAreCurrent, Copy
<1>3. Filling(q)'
  BY <1>1 DEF Knows, Filling, Writing
<1>4. CASE ~(Busy(q) /\ cmd[q] \in {"create", "orphans", "stale"})
  <2>1. cmd[q] \notin {"create", "orphans", "stale"} /\ pc[q] # "sweep"
    BY <1>4 DEF Stage
  <2> QED BY <1>1, <1>2, <1>3, <2>1 DEF Knows, Making, Scanning, Sweeping
<1>5. CASE Busy(q) /\ cmd[q] \in {"create", "orphans", "stale"}
  <2>1. /\ saved' \subseteq saved /\ pruned \subseteq pruned'
        /\ \A l \in saved' : /\ Session(l)' = Session(l)
                             /\ file[l] # NoFile => file'[l] # NoFile
                             /\ <<l, "flat">> \in todo[q] => flat'[l] = flat[l]
    BY <1>5
  <2>2. \A k, r : Fits(k, r) => Fits(k, r)'
    BY <2>1, FitsKept
  <2>3. Making(q)'
    BY <1>1, <1>5, <2>1, <2>2 DEF Knows, Making
  <2>4. Sweeping(q)'
    BY <1>1, <2>1 DEF Knows, Sweeping
  <2>5. \A l \in saved' : Covered(q, l) => Covered(q, l)'
    BY <1>1, <2>1 DEF Covered
  <2>6. Scanning(q)'
    <3> SUFFICES ASSUME pc[q] = "entry", cmd[q] \in {"create", "orphans"}
                 PROVE  /\ \A l \in saved' : (scan[q] = "find" => BranchOf[l] = branch[q]) => Covered(q, l)'
                        /\ \A s \in seen[q] : /\ \A t \in seen[q] : Agree(s, t)
                                              /\ \A l \in saved' : Agree(s, <<l, Session(l)'>>)
                                              /\ TopIsFree => s[2][2] # Width - 1
      BY <1>1 DEF Scanning, Agree, TopIsFree
    <3> QED BY <2>1, <2>5 DEF Knows, Scanning
  <2> QED BY <1>2, <1>3, <2>3, <2>4, <2>6 DEF Knows
<1> QED BY <1>4, <1>5

\* What holds of the kilds stays true of those that stay.
LEMMA DistinctKept ==
    ASSUME KildsAreDistinct, saved' \subseteq saved,
           \A l \in saved' : Session(l)' = Session(l),
           \A l \in saved' : l \in worktree \cup pruned => l \in worktree' \cup pruned'
    PROVE  KildsAreDistinct'
<1>1. \A k, r : Fits(k, r) => Fits(k, r)'
  BY FitsKept
<1> QED BY <1>1 DEF KildsAreDistinct

LEMMA ApartKept ==
    ASSUME Apart, NEW p \in Procs, Others(p), Stage(p)',
           pc'[p] = "idle" \/ (Busy(p) /\ cmd'[p] = cmd[p]) \/ ~ClashOfCommands(p, cmd'[p]),
           pc'[p] \in Writing => \/ pc[p] \in Writing /\ kild'[p] = kild[p]
                                 \/ ~ClashOfWriters(p, kild'[p])
    PROVE  Apart'
<1>1. \A q \in Procs \ {p} : pc'[q] = pc[q] /\ cmd'[q] = cmd[q] /\ kild'[q] = kild[q]
  BY DEF Others
<1>2. ASSUME NEW q \in Procs \ {p}
      PROVE  /\ Busy(p)' /\ Busy(q) =>
                  /\ cmd'[p] = "create" => cmd[q] \notin {"create", "orphans", "stale"}
                  /\ cmd[q] = "create" => cmd'[p] \notin {"create", "orphans", "stale"}
             /\ ~(kild'[p] = kild[q] /\ pc'[p] \in Writing /\ pc[q] \in Writing)
  <2>1. CASE pc'[p] = "idle"
    BY <2>1 DEF Busy, Writing
  <2>2. CASE Busy(p) /\ cmd'[p] = cmd[p]
    BY <2>2 DEF Apart, ClashOfWriters, Writing
  <2>3. CASE pc'[p] # "idle" /\ ~ClashOfCommands(p, cmd'[p])
    BY <2>3 DEF Apart, ClashOfCommands, ClashOfWriters, Writing, Busy
  <2> QED BY <2>1, <2>2, <2>3
<1> QED BY <1>1, <1>2 DEF Apart, Busy
Safe(p) ==
    /\ \A k \in Kilds : Stored(k)'
    /\ KildsAreDistinct'
    /\ \A q \in Procs \ {p} : Knows(q)'

\* The temp files and the open files of the other writers are left alone.
TempKept(p) ==
    \A q \in Procs \ {p} : /\ pc[q] \in Writing => tmp'[kild[q]] = tmp[kild[q]]
                           /\ pc[q] = "write" => fd'[q] = fd[q]

LEMMA StillSafe ==
    ASSUME Ready, NEW p \in Procs, Others(p), TempKept(p),
           UNCHANGED <<flat, file, saved, worktree, pruned>>,
           \A k \in saved : k \in dir' => k \in dir \/ flat[k] = NoFile
    PROVE  Safe(p)
<1>1. /\ flat' = flat /\ file' = file /\ saved' = saved /\ worktree' = worktree /\ pruned' = pruned
      /\ saved \subseteq Kilds
  BY DEF Ready, HistoryTyped
<1>2. \A l : Session(l)' = Session(l)
  BY <1>1 DEF Session
<1>3. KildsAreDistinct'
  BY <1>1, <1>2, DistinctKept DEF Ready, Sound
<1>4. \A k \in Kilds : Stored(k)'
  BY <1>1 DEF Ready, Sound, Stored
<1>5. ASSUME NEW q \in Procs \ {p}
      PROVE  Knows(q)'
  <2>1. Knows(q) /\ Stage(q)
    BY DEF Ready, Sound
  <2>2. \A k \in Kilds, r \in Ranges : Copy(q, k, r) => k \in saved
    BY <2>1 DEF Knows, CopiesAreCurrent
  <2> QED BY <1>1, <1>2, <2>1, <2>2, KnowsKept DEF TempKept
<1> QED BY <1>3, <1>4, <1>5 DEF Safe

\* A legacy file that nobody has still to read is moved.
LEMMA MigrateSafe ==
    ASSUME Ready, NEW p \in Procs, Others(p), TempKept(p), NEW k \in Kilds,
           flat[k] # NoFile, Migrate(p, k), ~raced'
    PROVE  /\ Safe(p) /\ \A l \in Kilds : Session(l)' = Session(l)
           /\ k \in saved /\ flat[k] \in Ranges /\ file'[k] = flat[k] /\ flat'[k] = NoFile
           /\ \A l \in Kilds \ {k} : file'[l] = file[l] /\ flat'[l] = flat[l]
           /\ UNCHANGED <<saved, worktree, pruned>>
<1>1. /\ file' = [file EXCEPT ![k] = flat[k]] /\ flat' = [flat EXCEPT ![k] = NoFile]
      /\ dir' = dir \cup {k} /\ UNCHANGED <<tmp, worktree, saved, pruned>>
      /\ ~ClashOfMigration(p, k)
  BY DEF Migrate
<1>2. /\ file \in [Kilds -> Contents] /\ flat \in [Kilds -> Ranges \cup {NoFile}]
      /\ saved \subseteq Kilds /\ \A l \in Kilds : Stored(l)
  BY DEF Ready, DiskTyped, HistoryTyped, Sound
<1>3. k \in saved /\ flat[k] \in Ranges /\ file[k] = NoFile
  BY <1>2, SessionsAssumption DEF Stored
<1>4. /\ file'[k] = flat[k] /\ flat'[k] = NoFile
      /\ \A l \in Kilds \ {k} : file'[l] = file[l] /\ flat'[l] = flat[l]
  BY <1>1, <1>2
<1>5. \A l \in Kilds : Session(l)' = Session(l)
  BY <1>3, <1>4 DEF Session
<1>6. KildsAreDistinct'
  BY <1>1, <1>2, <1>5, DistinctKept DEF Ready, Sound
<1>7. \A l \in Kilds : Stored(l)'
  BY <1>1, <1>2, <1>3, <1>4, SessionsAssumption DEF Stored
<1>8. ASSUME NEW q \in Procs \ {p}
      PROVE  Knows(q)'
  <2>1. Knows(q) /\ Stage(q)
    BY DEF Ready, Sound
  <2>2. \A l \in Kilds, r \in Ranges :
           Copy(q, l, r) => l \in saved /\ flat'[l] = flat[l] /\ file'[l] = file[l]
    BY <1>3, <1>4, <2>1 DEF Knows, CopiesAreCurrent
  <2>3. \A l \in saved : /\ file[l] # NoFile => file'[l] # NoFile
                         /\ <<l, "flat">> \in todo[q] => flat'[l] = flat[l]
    BY <1>1, <1>2, <1>3, <1>4 DEF ClashOfMigration
  <2> QED BY <1>1, <1>2, <1>5, <2>1, <2>2, <2>3, KnowsKept DEF TempKept
<1> QED BY <1>1, <1>3, <1>4, <1>5, <1>6, <1>7, <1>8 DEF Safe

\* Whoever has a copy of a session holds its kild.
LEMMA CopyHolds ==
    ASSUME NEW q \in Procs, NEW k \in Kilds, NEW r \in Ranges, Copy(q, k, r)
    PROVE  Holds(q, k)
BY DEF Copy, Holds, Saving

\* The file of a kild that nobody else holds is removed.
LEMMA RemoveFileSafe ==
    ASSUME Ready, NEW p \in Procs, RemoveFile(p), ~raced'
    PROVE  Safe(p)
<1> DEFINE k == kild[p]
<1>1. /\ Stage(p) /\ k \in Kilds /\ pc[p] = "unlink"
      /\ UNCHANGED <<worktree, pruned>> /\ saved' = saved \ {k} /\ ~ClashOfRemoval(p, k)
  BY DEF RemoveFile, Ready, Stage
<1>2. /\ file \in [Kilds -> Contents] /\ flat \in [Kilds -> Ranges \cup {NoFile}]
      /\ tmp \in [Kilds -> Contents]
      /\ \A l \in Kilds : file[l] # NoFile => l \in dir
      /\ saved \subseteq Kilds /\ \A l \in Kilds : Stored(l)
  BY DEF Ready, DiskTyped, HistoryTyped, Sound
<1>3. /\ \A l \in Kilds \ {k} : file'[l] = file[l] /\ flat'[l] = flat[l] /\ tmp'[l] = tmp[l]
      /\ \A l \in Kilds \ {k} : l \in dir' <=> l \in dir
  BY <1>2 DEF RemoveFile
<1>4. file'[k] = NoFile /\ flat'[k] = NoFile
  <2>1. CASE k \in dir
    BY <1>1, <1>2, <2>1, SessionsAssumption DEF RemoveFile, Stored
  <2>2. CASE k \notin dir
    BY <1>1, <1>2, <2>2 DEF RemoveFile
  <2> QED BY <2>1, <2>2
<1>5. Moves(p) /\ \A q \in Procs \ {p} : fd'[q] = fd[q] \/ (kild[q] = k /\ pc[q] = "write")
  BY <1>1, RemoveFileMoves DEF Ready
<1> HIDE DEF k
<1>6. \A l \in saved' : Session(l)' = Session(l)
  BY <1>1, <1>2, <1>3 DEF Session
<1>7. KildsAreDistinct'
  BY <1>1, <1>6, DistinctKept DEF Ready, Sound
<1>8. \A l \in Kilds : Stored(l)'
  BY <1>1, <1>2, <1>3, <1>4 DEF Stored
<1>9. ASSUME NEW q \in Procs \ {p}
      PROVE  Knows(q)'
  <2>1. Knows(q) /\ Stage(q) /\ ~Holds(q, k)
    BY <1>1 DEF Ready, Sound, ClashOfRemoval
  <2>2. \A l \in Kilds, r \in Ranges :
           Copy(q, l, r) => l \in saved' /\ flat'[l] = flat[l] /\ file'[l] = file[l]
    BY <1>1, <1>3, <2>1, CopyHolds DEF Knows, CopiesAreCurrent
  <2>3. pc[q] \in Writing => kild[q] \in Kilds \ {k}
    BY <2>1 DEF Holds, Writing, Stage, Saving
  <2> QED BY <1>1, <1>2, <1>3, <1>5, <1>6, <2>1, <2>2, <2>3, KnowsKept DEF Moves, Writing
<1> QED BY <1>7, <1>8, <1>9 DEF Safe
\* A create and the others are not there at the same time.
LEMMA Alone ==
    ASSUME Ready, NEW p \in Procs, Busy(p), NEW q \in Procs \ {p}, Busy(q)
    PROVE  /\ cmd[p] = "create" => cmd[q] \notin {"create", "orphans", "stale"}
           /\ cmd[p] \in {"orphans", "stale"} => cmd[q] # "create"
BY DEF Ready, Sound, Apart

\* The session that a command has written to the end takes its place: the same
\* again, or that of a new kild.
LEMMA RenameSafe ==
    ASSUME Ready, NEW p \in Procs, Rename(p)
    PROVE  Safe(p)
<1>0. PICK k \in Kilds : k = kild[p]
  BY DEF Rename, Ready, Stage, Saving
<1>1. /\ Stage(p) /\ Knows(p) /\ pc[p] = "rename" /\ range[p] \in Ranges /\ Busy(p)
      /\ cmd[p] \in {"create", "update", "patch"} /\ tmp[k] = range[p]
  BY <1>0 DEF Rename, Ready, Sound, Stage, Saving, Knows, Filling, Busy
<1>2. /\ file \in [Kilds -> Contents] /\ flat \in [Kilds -> Ranges \cup {NoFile}]
      /\ tmp \in [Kilds -> Contents]
      /\ saved \subseteq Kilds /\ \A l \in Kilds : Stored(l)
  BY DEF Ready, DiskTyped, HistoryTyped, Sound
<1>3. /\ file' = [file EXCEPT ![k] = range[p]] /\ tmp' = [tmp EXCEPT ![k] = NoFile]
      /\ saved' = IF cmd[p] = "patch" THEN saved ELSE saved \cup {k}
      /\ UNCHANGED <<flat, dir, worktree, pruned>>
  BY <1>0, <1>1, SessionsAssumption DEF Rename
<1>4. Moves(p) /\ \A q \in Procs \ {p} : fd'[q] = fd[q] \/ (kild[q] = k /\ pc[q] = "write")
  BY <1>0, <1>1, RenameMoves DEF Ready
<1>5. \A q \in Procs \ {p} : pc[q] \in Writing => kild[q] # k
  BY <1>0, <1>1 DEF Ready, Sound, Apart, Writing
<1>6. TempKept(p)
  <2>1. \A q \in Procs \ {p} : Stage(q)
    BY DEF Ready
  <2>2. \A q \in Procs \ {p} : pc[q] \in Writing => kild[q] \in Kilds \ {k}
    BY <1>5, <2>1 DEF Stage, Saving, Writing
  <2> QED BY <1>2, <1>3, <1>4, <1>5, <2>2 DEF TempKept, Writing
<1>7. CASE cmd[p] \in {"update", "patch"}
  <2>1. k \in saved /\ file[k] = range[p]
    BY <1>0, <1>1, <1>7 DEF Knows, CopiesAreCurrent, Copy, Saving
  <2>2. UNCHANGED <<flat, file, saved, worktree, pruned, dir>>
    BY <1>2, <1>3, <2>1
  <2> QED BY <1>4, <1>6, <2>2, StillSafe DEF Moves
<1>8. CASE cmd[p] = "create"
  <2>1. /\ \A l \in saved : BranchOf[l] # BranchOf[k]
        /\ Fits(k, range[p]) /\ k \in worktree \cup pruned
    BY <1>0, <1>1, <1>8 DEF Knows, Making, Saving, Stage
  <2>2. k \notin saved /\ flat[k] = NoFile
    BY <1>1, <1>2, <2>1 DEF Stored
  <2>3. saved' = saved \cup {k} /\ file'[k] = range[p] /\ range[p] # NoFile
    BY <1>1, <1>2, <1>3, <1>8, SessionsAssumption
  <2>4. \A l \in saved : file'[l] = file[l] /\ flat'[l] = flat[l]
    BY <1>2, <1>3, <2>2
  <2>5. /\ \A l \in saved : Session(l)' = Session(l)
        /\ Session(k)' = range[p]
    BY <2>3, <2>4 DEF Session
  <2>6. \A l \in Kilds : Stored(l)'
    BY <1>1, <1>2, <1>3, <2>2, <2>3 DEF Stored
  <2>7. KildsAreDistinct'
    <3>1. KildsAreDistinct
      BY DEF Ready, Sound
    <3>2. \A l, m \in saved' : BranchOf[l] = BranchOf[m] => l = m
      BY <2>1, <2>3, <3>1 DEF KildsAreDistinct
    <3>3. Fits(k, Session(k))'
      BY <2>1, <2>2, <2>3, <2>5 DEF Fits
    <3>4. \A l \in saved : Fits(l, Session(l))'
      <4> SUFFICES ASSUME NEW l \in saved, TopIsFree
                   PROVE  /\ Session(l)[2] # Width - 1
                          /\ \A m \in saved' \ {l} : ~Overlap(Session(l), Session(m)')
        BY <2>5 DEF Fits, TopIsFree
      <4>1. Fits(l, Session(l)) /\ ~Overlap(range[p], Session(l))
        BY <2>1, <2>2, <3>1 DEF Fits, KildsAreDistinct
      <4> QED BY <2>3, <2>5, <4>1, OverlapIsSymmetric DEF Fits
    <3>5. saved' \subseteq worktree' \cup pruned'
      BY <1>3, <2>1, <2>3, <3>1 DEF KildsAreDistinct
    <3> QED BY <2>3, <3>2, <3>3, <3>4, <3>5 DEF KildsAreDistinct
  <2>8. ASSUME NEW q \in Procs \ {p}
        PROVE  Knows(q)'
    <3>1. Knows(q) /\ Stage(q)
      BY DEF Ready, Sound
    <3>2. \A l \in Kilds, r \in Ranges :
             Copy(q, l, r) => l \in saved' /\ flat'[l] = flat[l] /\ file'[l] = file[l]
      BY <2>3, <2>4, <3>1 DEF Knows, CopiesAreCurrent
    <3>3. Busy(q) => cmd[q] \notin {"create", "orphans", "stale"}
      BY <1>1, <1>8, Alone
    <3> QED BY <1>4, <1>6, <3>1, <3>2, <3>3, KnowsKept DEF Moves, TempKept
  <2> QED BY <2>6, <2>7, <2>8 DEF Safe
<1> QED BY <1>1, <1>7, <1>8

\* A worktree appears for a new kild, or goes from one whose user removed it, or
\* that no session has.
LEMMA WorktreesSafe ==
    ASSUME Ready, NEW p \in Procs,
           CreateWorktree(p) \/ RemoveWorktree(p) \/ Sweep(p) \/ Clean(p)
    PROVE  Safe(p)
<1>1. Stage(p) /\ Knows(p) /\ Busy(p) /\ saved \subseteq Kilds
  BY DEF Ready, Sound, HistoryTyped, CreateWorktree, RemoveWorktree, Sweep, Clean, Busy
<1>2. Moves(p) /\ \A q \in Procs \ {p} : fd'[q] = fd[q]
  BY <1>1, CreateWorktreeMoves, RemoveWorktreeMoves, SweepMoves, CleanMoves DEF Ready
<1>3. UNCHANGED <<flat, file, tmp, dir, saved>>
  BY DEF CreateWorktree, RemoveWorktree, Sweep, Clean, history
<1>4. \A l : Session(l)' = Session(l)
  BY <1>3 DEF Session
<1>5. /\ pruned \subseteq pruned' \/ cmd[p] = "create"
      /\ worktree \cup pruned \subseteq worktree' \cup pruned' \/ cmd[p] = "orphans"
      /\ \A l \in saved : l \in worktree \cup pruned => l \in worktree' \cup pruned'
  <2>1. CASE CreateWorktree(p)
    BY <1>1, <2>1 DEF CreateWorktree, Stage
  <2>2. CASE RemoveWorktree(p)
    BY <2>2 DEF RemoveWorktree
  <2>3. CASE Sweep(p)
    <3>1. PICK k \in picked[p] : worktree' \in {worktree, worktree \ {k}}
      BY <2>3 DEF Sweep
    <3>2. cmd[p] = "orphans" /\ pruned' = pruned /\ k \notin saved
      BY <1>1, <2>3 DEF Sweep, Stage, Knows, Sweeping, history
    <3> QED BY <3>1, <3>2
  <2>4. CASE Clean(p)
    <3>1. PICK k \in picked[p] : worktree' \in {worktree, worktree \ {k}}
      BY <2>4 DEF Clean
    <3>2. k \in pruned /\ pruned' = pruned
      BY <1>1, <2>4 DEF Clean, Stage, Knows, Sweeping, history
    <3> QED BY <3>1, <3>2
  <2> QED BY <2>1, <2>2, <2>3, <2>4
<1>6. KildsAreDistinct'
  BY <1>3, <1>4, <1>5, DistinctKept DEF Ready, Sound
<1>7. \A l \in Kilds : Stored(l)'
  BY <1>3 DEF Ready, Sound, Stored
<1>8. ASSUME NEW q \in Procs \ {p}
      PROVE  Knows(q)'
  <2>1. Knows(q) /\ Stage(q)
    BY DEF Ready, Sound
  <2>2. \A l \in Kilds, r \in Ranges : Copy(q, l, r) => l \in saved
    BY <2>1 DEF Knows, CopiesAreCurrent
  <2>3. Busy(q) /\ cmd[q] \in {"create", "orphans", "stale"} => pruned \subseteq pruned'
    BY <1>1, <1>5, Alone
  <2>4. Busy(q) /\ cmd[q] = "create" => worktree \cup pruned \subseteq worktree' \cup pruned'
    BY <1>1, <1>5, Alone
  <2> QED BY <1>2, <1>3, <1>4, <2>1, <2>2, <2>3, <2>4, KnowsKept DEF Moves
<1> QED BY <1>6, <1>7, <1>8 DEF Safe
-----------------------------------------------------------------------------
(* While no two commands have clashed: what a step tells its own process. *)

\* A process that only moves on, in a place where it relies on nothing new.
LEMMA MovedOnKnows ==
    ASSUME NEW p \in Procs, Stage(p)', Knows(p),
           UNCHANGED <<flat, file, saved, pruned>>,
           seen'[p] \subseteq seen[p], cmd'[p] = cmd[p],
           \A k \in Kilds, r \in Ranges : Copy(p, k, r)' => Copy(p, k, r),
           pc'[p] \notin {"worktree", "entry", "write", "rename", "sweep"},
           cmd[p] = "create" => pc'[p] \notin Saving /\ scan'[p] # "ports",
           picked'[p] \subseteq picked[p] \/ scan'[p] # "stale"
    PROVE  Knows(p)'
<1>1. CopiesAreCurrent(p)'
  BY DEF Knows, CopiesAreCurrent
<1>2. Filling(p)' /\ Scanning(p)'
  BY DEF Filling, Scanning
<1>3. Making(p)'
  BY DEF Making
<1>4. Sweeping(p)'
  BY DEF Knows, Sweeping, Stage
<1> QED BY <1>1, <1>2, <1>3, <1>4 DEF Knows

\* update and destroy go on with the session they found.
LEMMA FoundKnows ==
    ASSUME Ready, NEW p \in Procs, Moves(p), UNCHANGED <<flat, file, saved>>,
           NEW k \in Kilds, NEW r \in Ranges, WentOn(p, k, r),
           k \in saved, flat[k] = NoFile, file[k] = r
    PROVE  Knows(p)'
<1>1. Stage(p)'
  BY DEF Moves
<1>2. CopiesAreCurrent(p)'
  BY <1>1 DEF WentOn, CopiesAreCurrent, Copy
<1>3. Filling(p)' /\ Making(p)' /\ Scanning(p)' /\ Sweeping(p)'
  BY <1>1 DEF WentOn, Filling, Making, Scanning, Sweeping
<1> QED BY <1>2, <1>3 DEF Knows

LEMMA LookupKnows ==
    ASSUME Ready, NEW p \in Procs, Lookup(p)
    PROVE  Knows(p)'
<1>1. /\ Stage(p)' /\ pc'[p] \in {"read_dir", "check"} /\ cmd'[p] = cmd[p] /\ scan'[p] = "find"
      /\ kild'[p] = kild[p] /\ seen'[p] = seen[p]
  BY LookupMoves DEF Ready, Moves
<1>2. UNCHANGED <<flat, file, saved, pruned>> /\ Knows(p)
  BY DEF Lookup, disk, history, Ready, Sound
<1>3. \A k \in Kilds, r \in Ranges : Copy(p, k, r)' => Copy(p, k, r)
  BY <1>1 DEF Copy, Saving, Lookup, Ready, Stage
<1> QED BY <1>1, <1>2, <1>3, MovedOnKnows DEF Saving

LEMMA CheckKnows ==
    ASSUME Ready, NEW p \in Procs, Check(p)
    PROVE  Knows(p)'
<1>1. /\ Moves(p) /\ Stage(p)'
      /\ \/ pc'[p] = "idle"
         \/ \E k \in Kilds : file[k] \in Ranges /\ WentOn(p, k, file[k])
         \/ /\ pc'[p] = "read_dir" /\ cmd'[p] = cmd[p] /\ scan'[p] = "find"
            /\ kild'[p] = kild[p] /\ seen'[p] = seen[p]
  BY CheckMoves DEF Ready, Moves
<1>2. UNCHANGED <<flat, file, saved, pruned>> /\ Knows(p) /\ pc[p] = "check" /\ scan[p] = "find"
  BY DEF Check, disk, history, Ready, Sound, Stage
<1>3. CASE pc'[p] = "idle"
  BY <1>1, <1>3, IdleKnows
<1>4. ASSUME NEW k \in Kilds, file[k] \in Ranges, WentOn(p, k, file[k])
      PROVE  Knows(p)'
  <2>1. k \in saved /\ flat[k] = NoFile
    BY <1>4, SessionsAssumption DEF Ready, Sound, Stored
  <2> QED BY <1>1, <1>2, <1>4, <2>1, FoundKnows
<1>5. CASE pc'[p] = "read_dir" /\ cmd'[p] = cmd[p] /\ scan'[p] = "find" /\ kild'[p] = kild[p] /\ seen'[p] = seen[p]
  <2>1. \A k \in Kilds, r \in Ranges : Copy(p, k, r)' => Copy(p, k, r)
    BY <1>2, <1>5 DEF Copy, Saving
  <2> QED BY <1>1, <1>2, <1>5, <2>1, MovedOnKnows DEF Saving
<1> QED BY <1>1, <1>3, <1>4, <1>5

\* A listing of the directory names every saved kild.
LEMMA ReadDirKnows ==
    ASSUME Ready, NEW p \in Procs, ReadDir(p)
    PROVE  Knows(p)'
<1>1. /\ Stage(p)' /\ pc'[p] = "entry" /\ todo'[p] = Entries /\ seen'[p] = {}
      /\ cmd'[p] = cmd[p] /\ branch'[p] = branch[p] /\ kild'[p] = kild[p] /\ scan'[p] = scan[p]
      /\ picked'[p] = picked[p]
  BY ReadDirMoves DEF Ready, Moves
<1>2. UNCHANGED <<flat, file, saved, pruned, worktree>> /\ Knows(p)
  BY DEF ReadDir, disk, history, Ready, Sound
<1>3. CopiesAreCurrent(p)' /\ Filling(p)'
  BY <1>1 DEF CopiesAreCurrent, Copy, Filling, Saving
<1>4. Making(p)' /\ Sweeping(p)'
  BY <1>1, <1>2 DEF Knows, Making, Sweeping, Saving
<1>5. \A l \in saved : Covered(p, l)'
  <2> SUFFICES ASSUME NEW l \in saved
               PROVE  \/ <<l, "dir">> \in Entries /\ file[l] # NoFile
                      \/ <<l, "flat">> \in Entries /\ flat[l] # NoFile
    BY <1>1, <1>2 DEF Covered
  <2>1. l \in Kilds /\ Stored(l) /\ (file[l] # NoFile => l \in dir)
    BY DEF Ready, Sound, HistoryTyped, DiskTyped
  <2> QED BY <2>1, SessionsAssumption DEF Stored, Entries
<1>6. Scanning(p)'
  BY <1>1, <1>2, <1>5 DEF Scanning
<1> QED BY <1>3, <1>4, <1>6 DEF Knows
\* What an entry holds is the session of a saved kild, and stays it when the
\* file is moved.
LEMMA ReadsSession ==
    ASSUME Ready, NEW p \in Procs, LoadEntry(p), NEW e \in todo[p], Reads(p, e), ~raced',
           NEW k \in Kilds, k = e[1],
           NEW r, r = IF e[2] = "dir" THEN file[k] ELSE flat[k]
    PROVE  /\ \A l \in Kilds : Session(l)' = Session(l)
           /\ UNCHANGED <<saved, pruned, worktree>>
           /\ \A l \in Kilds : file[l] # NoFile => file'[l] # NoFile
           /\ \A l \in Kilds : l # k \/ e[2] = "dir" => flat'[l] = flat[l]
           /\ r \in Ranges => k \in saved /\ r = Session(k)
           /\ r \in Ranges /\ scan[p] = "find" => flat'[k] = NoFile /\ file'[k] = r
           /\ \A l \in Kilds : flat[l] = NoFile => flat'[l] = NoFile /\ file'[l] = file[l]
<1>1. /\ Stage(p) /\ Moves(p) /\ UNCHANGED <<pc, args, scan, writing>> /\ e[2] \in {"flat", "dir"}
      /\ Stored(k)
  BY LoadEntryMoves DEF Ready, Sound
<1>2. r \in Ranges => k \in saved /\ r = Session(k)
  BY <1>1, SessionsAssumption DEF Stored, Session
<1>3. CASE scan[p] \in {"find", "ports", "list"} /\ e[2] = "flat" /\ flat[k] # NoFile
  <2>1. Migrate(p, k)
    BY <1>3 DEF Reads
  <2>2. TempKept(p)
    BY <1>1, <2>1 DEF TempKept, Migrate, writing
  <2>3. /\ \A l \in Kilds : Session(l)' = Session(l)
        /\ flat[k] \in Ranges /\ file'[k] = flat[k] /\ flat'[k] = NoFile
        /\ \A l \in Kilds \ {k} : file'[l] = file[l] /\ flat'[l] = flat[l]
        /\ UNCHANGED <<saved, worktree, pruned>>
    BY <1>1, <1>3, <2>1, <2>2, MigrateSafe DEF Moves
  <2> QED BY <1>2, <1>3, <2>3, SessionsAssumption
<1>4. CASE ~(scan[p] \in {"find", "ports", "list"} /\ e[2] = "flat" /\ flat[k] # NoFile)
  <2>1. UNCHANGED <<flat, file, saved, pruned, worktree>>
    BY <1>4 DEF Reads, disk, history
  <2>2. r \in Ranges /\ scan[p] = "find" => flat[k] = NoFile /\ file[k] = r
    BY <1>1, <1>4, SessionsAssumption DEF Stored
  <2> QED BY <1>2, <2>1, <2>2 DEF Session
<1> QED BY <1>3, <1>4

\* Two sessions of saved kilds agree.
LEMMA SessionsAgree ==
    ASSUME Ready, NEW k \in saved, NEW l \in saved
    PROVE  Agree(<<k, Session(k)>>, <<l, Session(l)>>) /\ (TopIsFree => Session(k)[2] # Width - 1)
BY DEF Ready, Sound, KildsAreDistinct, Fits, Agree

LEMMA AgreeIsSymmetric ==
    ASSUME NEW s \in Kilds \X Ranges, NEW t \in Kilds \X Ranges, Agree(s, t)
    PROVE  Agree(t, s)
BY OverlapIsSymmetric DEF Agree

LEMMA LoadEntryKnows ==
    ASSUME Ready, NEW p \in Procs, LoadEntry(p), ~raced'
    PROVE  Knows(p)'
<1>1. PICK e \in todo[p] : Reads(p, e)
  BY Zenon DEF LoadEntry, Reads
<1>2. PICK k \in Kilds : k = e[1]
  BY <1>1, LoadEntryMoves DEF Ready
<1>3. PICK r : r = IF e[2] = "dir" THEN file[k] ELSE flat[k]
  OBVIOUS
<1>4. /\ \A l \in Kilds : Session(l)' = Session(l)
      /\ UNCHANGED <<saved, pruned, worktree>>
      /\ \A l \in Kilds : file[l] # NoFile => file'[l] # NoFile
      /\ \A l \in Kilds : l # k \/ e[2] = "dir" => flat'[l] = flat[l]
      /\ r \in Ranges => k \in saved /\ r = Session(k)
      /\ r \in Ranges /\ scan[p] = "find" => flat'[k] = NoFile /\ file'[k] = r
      /\ \A l \in Kilds : flat[l] = NoFile => flat'[l] = NoFile /\ file'[l] = file[l]
  BY <1>1, <1>2, <1>3, ReadsSession
<1>5. /\ Stage(p)' /\ pc[p] = "entry" /\ pc'[p] = "entry" /\ cmd'[p] = cmd[p] /\ branch'[p] = branch[p]
      /\ kild'[p] = kild[p] /\ range'[p] = range[p] /\ scan'[p] = scan[p]
      /\ e[2] \in {"flat", "dir"} /\ e = <<k, e[2]>> /\ todo'[p] = todo[p] \ {e}
  BY <1>1, <1>2, LoadEntryMoves DEF Ready, Moves, LoadEntry, args
<1>6. seen'[p] = IF r \in Ranges /\ Wanted(p, k) THEN seen[p] \cup {<<k, r>>} ELSE seen[p]
  BY <1>1, <1>2, <1>3 DEF Reads, Ready, LocalsTyped
<1>7. picked'[p] = IF scan[p] = "stale" /\ r \in Ranges /\ k \notin worktree
                   THEN picked[p] \cup {k} ELSE picked[p]
  BY <1>1, <1>2, <1>3 DEF Reads, Ready, LocalsTyped
<1>8. Knows(p) /\ Stage(p) /\ saved \subseteq Kilds /\ (\A l \in Kilds : Stored(l)) /\ KildsAreDistinct
      /\ seen[p] \in SUBSET (Kilds \X Ranges)
  BY DEF Ready, Sound, HistoryTyped, LocalsTyped
<1>9. CopiesAreCurrent(p)'
  <2> SUFFICES ASSUME NEW l \in Kilds, NEW q \in Ranges, Copy(p, l, q)'
               PROVE  l \in saved' /\ flat'[l] = NoFile /\ file'[l] = q
    BY DEF CopiesAreCurrent
  <2>1. cmd[p] = "update" /\ scan[p] = "find" /\ <<l, q>> \in seen'[p]
    BY <1>5 DEF Copy, Saving
  <2>2. CASE <<l, q>> \in seen[p]
    BY <1>4, <1>8, <2>1, <2>2 DEF Knows, CopiesAreCurrent, Copy
  <2>3. CASE <<l, q>> \notin seen[p]
    BY <1>4, <1>6, <2>1, <2>3
  <2> QED BY <2>2, <2>3
<1>10. Filling(p)'
  BY <1>5 DEF Filling
<1>11. Making(p)'
  BY <1>4, <1>5, <1>8 DEF Knows, Making, Saving
<1>12. Sweeping(p)'
  <2>1. k \in saved => k \in worktree \cup pruned
    BY <1>8 DEF KildsAreDistinct
  <2> QED BY <1>4, <1>5, <1>7, <1>8, <2>1 DEF Knows, Sweeping
<1>13. ASSUME cmd[p] \in {"create", "orphans"}
       PROVE  /\ \A l \in saved : (scan[p] = "find" => BranchOf[l] = branch[p]) => Covered(p, l)'
              /\ \A s \in seen'[p] : /\ \A t \in seen'[p] : Agree(s, t)
                                     /\ \A l \in saved : Agree(s, <<l, Session(l)>>)
                                     /\ TopIsFree => s[2][2] # Width - 1
  <2>1. /\ \A l \in saved : (scan[p] = "find" => BranchOf[l] = branch[p]) => Covered(p, l)
        /\ \A s \in seen[p] : /\ \A t \in seen[p] : Agree(s, t)
                              /\ \A l \in saved : Agree(s, <<l, Session(l)>>)
                              /\ TopIsFree => s[2][2] # Width - 1
    BY <1>5, <1>8, <1>13 DEF Knows, Scanning
  <2>2. scan[p] \in {"find", "ports", "orphans"}
    BY <1>5, <1>8, <1>13 DEF Stage, Ready, LocalsTyped
  <2>3. ASSUME NEW l \in saved, scan[p] = "find" => BranchOf[l] = branch[p]
        PROVE  Covered(p, l)'
    <3>1. Stored(l) /\ l \in Kilds /\ Covered(p, l)
      BY <1>8, <2>1, <2>3
    <3>2. CASE l = k
      <4>1. Wanted(p, k)
        BY <2>2, <2>3, <3>2 DEF Wanted
      <4>2. CASE r \in Ranges
        BY <1>6, <3>2, <4>1, <4>2 DEF Covered
      <4>3. CASE r \notin Ranges
        BY <1>3, <1>4, <1>5, <1>6, <3>1, <3>2, <4>3, SessionsAssumption DEF Covered, Stored
      <4> QED BY <4>2, <4>3
    <3>3. CASE l # k
      BY <1>4, <1>5, <1>6, <3>1, <3>3 DEF Covered
    <3> QED BY <3>2, <3>3
  <2>4. ASSUME NEW s \in seen'[p]
        PROVE  /\ \A t \in seen[p] : Agree(s, t) /\ Agree(t, s)
               /\ \A l \in saved : Agree(s, <<l, Session(l)>>)
               /\ TopIsFree => s[2][2] # Width - 1
    <3>1. CASE s \in seen[p]
      BY <2>1, <3>1
    <3>2. CASE s \notin seen[p]
      <4>1. s = <<k, r>> /\ r \in Ranges /\ k \in saved /\ r = Session(k)
        BY <1>4, <1>6, <3>2
      <4>2. \A t \in seen[p] : Agree(t, s)
        BY <2>1, <4>1
      <4>3. \A t \in seen[p] : Agree(s, t)
        BY <1>8, <4>1, <4>2, AgreeIsSymmetric
      <4> QED BY <4>1, <4>2, <4>3, SessionsAgree
    <3> QED BY <3>1, <3>2
  <2>5. \A s \in seen'[p] : s \in seen[p] \/ s = <<k, r>>
    BY <1>6
  <2>6. \A s, t \in seen'[p] : Agree(s, t)
    BY <2>4, <2>5 DEF Agree
  <2> QED BY <2>3, <2>4, <2>6
<1>14. Scanning(p)'
  <2> SUFFICES ASSUME cmd[p] \in {"create", "orphans"}
               PROVE  /\ \A l \in saved : (scan[p] = "find" => BranchOf[l] = branch[p]) => Covered(p, l)'
                      /\ \A s \in seen'[p] : /\ \A t \in seen'[p] : Agree(s, t)
                                             /\ \A l \in saved : Agree(s, <<l, Session(l)'>>)
                                             /\ TopIsFree => s[2][2] # Width - 1
    BY <1>4, <1>5 DEF Scanning, Agree, TopIsFree
  <2> QED BY <1>4, <1>8, <1>13
<1> QED BY <1>9, <1>10, <1>11, <1>12, <1>14 DEF Knows
\* When the list has been read to its end, every kild it was to show was seen.
LEMMA AllSeen ==
    ASSUME Ready, NEW p \in Procs, Loaded(p), cmd[p] \in {"create", "orphans"},
           NEW l \in saved, scan[p] = "find" => BranchOf[l] = branch[p]
    PROVE  <<l, Session(l)>> \in seen[p]
<1>1. Scanning(p) /\ pc[p] = "entry" /\ todo[p] = {}
  BY DEF Ready, Sound, Knows, Loaded
<1>2. Covered(p, l) /\ \A s \in seen[p] : Agree(s, <<l, Session(l)>>)
  BY <1>1 DEF Scanning
<1>3. PICK r \in Ranges : <<l, r>> \in seen[p]
  BY <1>1, <1>2 DEF Covered
<1> QED BY <1>2, <1>3 DEF Agree

LEMMA FindByScanKnows ==
    ASSUME Ready, NEW p \in Procs, FindByScan(p)
    PROVE  Knows(p)'
<1>1. /\ Moves(p) /\ Stage(p)'
      /\ \/ pc'[p] = "idle"
         \/ /\ cmd[p] = "create" /\ pc'[p] = "read_dir" /\ scan'[p] = "ports" /\ seen'[p] = {}
            /\ cmd'[p] = cmd[p] /\ kild'[p] = kild[p] /\ branch'[p] = branch[p] /\ seen[p] = {}
         \/ /\ pc'[p] = "index" /\ cmd'[p] = cmd[p] /\ branch'[p] = branch[p]
            /\ scan'[p] = "find" /\ seen'[p] = seen[p] /\ <<kild'[p], range'[p]>> \in seen[p]
  BY FindByScanMoves DEF Ready, Moves
<1>2. UNCHANGED <<flat, file, saved, pruned, worktree>> /\ Knows(p) /\ scan[p] = "find" /\ Loaded(p)
  BY DEF FindByScan, disk, history, Ready, Sound
<1>3. CASE pc'[p] = "idle"
  BY <1>1, <1>3, IdleKnows
<1>4. CASE /\ cmd[p] = "create" /\ pc'[p] = "read_dir" /\ scan'[p] = "ports" /\ seen'[p] = {}
           /\ cmd'[p] = cmd[p] /\ kild'[p] = kild[p] /\ branch'[p] = branch[p] /\ seen[p] = {}
  <2>1. \A l \in saved : BranchOf[l] # branch[p]
    BY <1>2, <1>4, AllSeen
  <2>2. Making(p)'
    BY <1>2, <1>4, <2>1 DEF Making, Saving
  <2>3. CopiesAreCurrent(p)' /\ Filling(p)' /\ Scanning(p)' /\ Sweeping(p)'
    BY <1>4 DEF CopiesAreCurrent, Copy, Filling, Scanning, Sweeping, Saving
  <2> QED BY <2>2, <2>3 DEF Knows
<1>5. CASE /\ pc'[p] = "index" /\ cmd'[p] = cmd[p] /\ branch'[p] = branch[p]
           /\ scan'[p] = "find" /\ seen'[p] = seen[p] /\ <<kild'[p], range'[p]>> \in seen[p]
  <2>1. \A k \in Kilds, r \in Ranges : Copy(p, k, r)' => Copy(p, k, r)
    BY <1>2, <1>5 DEF Copy, Saving
  <2> QED BY <1>1, <1>2, <1>5, <2>1, MovedOnKnows DEF Saving
<1> QED BY <1>1, <1>3, <1>4, <1>5

\* The range that create is given fits beside those of all kilds, for it has
\* seen them all, and none has the last port.
LEMMA AllocatePortsKnows ==
    ASSUME Ready, NEW p \in Procs, AllocatePorts(p)
    PROVE  Knows(p)'
<1>1. /\ Moves(p) /\ Stage(p)'
      /\ \/ pc'[p] = "idle"
         \/ /\ pc'[p] = "worktree" /\ scan'[p] = "none" /\ seen'[p] = {}
            /\ cmd'[p] = cmd[p] /\ kild'[p] = kild[p] /\ branch'[p] = branch[p]
            /\ \E t \in Bijection(1 .. Cardinality(seen[p]), seen[p]) :
                  /\ Sorted(SeenRanges(p, t))
                  /\ range'[p] = find_next_available_range(SeenRanges(p, t))
                  /\ range'[p] # Exhausted
  BY AllocatePortsMoves DEF Ready, Moves
<1>2. /\ UNCHANGED <<flat, file, saved, pruned, worktree>>
      /\ Stage(p) /\ Knows(p) /\ scan[p] = "ports" /\ Loaded(p) /\ cmd[p] = "create"
  BY DEF AllocatePorts, disk, history, Ready, Sound, Stage
<1>3. CASE pc'[p] = "idle"
  BY <1>1, <1>3, IdleKnows
<1>4. CASE /\ pc'[p] = "worktree" /\ scan'[p] = "none" /\ seen'[p] = {}
           /\ cmd'[p] = cmd[p] /\ kild'[p] = kild[p] /\ branch'[p] = branch[p]
           /\ \E t \in Bijection(1 .. Cardinality(seen[p]), seen[p]) :
                 /\ Sorted(SeenRanges(p, t))
                 /\ range'[p] = find_next_available_range(SeenRanges(p, t))
                 /\ range'[p] # Exhausted
  <2>1. PICK t \in Bijection(1 .. Cardinality(seen[p]), seen[p]) :
               /\ Sorted(SeenRanges(p, t))
               /\ range'[p] = find_next_available_range(SeenRanges(p, t))
               /\ range'[p] # Exhausted
    BY <1>4
  <2> DEFINE s == SeenRanges(p, t)
  <2>2. /\ s \in Seq(Ranges) /\ DOMAIN t = 1 .. Len(s)
        /\ \A i \in DOMAIN t : t[i] \in seen[p] /\ s[i] = t[i][2]
        /\ \A i, j \in DOMAIN t : i # j => t[i] # t[j]
        /\ \A x \in seen[p] : \E i \in DOMAIN t : t[i] = x
    BY SeenRangesTyped DEF Ready
  <2>3. Sorted(s) /\ find_next_available_range(s) # Exhausted /\ range'[p] = find_next_available_range(s)
    BY <2>1
  <2> HIDE DEF s
  <2>4. Fits(kild[p], range'[p])
    <3> SUFFICES ASSUME TopIsFree
                 PROVE  /\ range'[p][2] # Width - 1
                        /\ \A l \in saved \ {kild[p]} : ~Overlap(range'[p], Session(l))
      BY DEF Fits
    <3>1. /\ \A x \in seen[p] : x[2][2] # Width - 1
          /\ \A x, y \in seen[p] : x # y => ~Overlap(x[2], y[2])
      <4>1. Scanning(p) /\ pc[p] = "entry"
        BY <1>2 DEF Knows, Loaded
      <4>2. \A x \in seen[p] : x[2][2] # Width - 1 /\ \A y \in seen[p] : Agree(x, y)
        BY <1>2, <4>1 DEF Scanning
      <4> QED BY <4>2 DEF Agree
    <3>2. /\ \A i \in 1 .. Len(s) : s[i][2] # Width - 1
          /\ \A i, j \in 1 .. Len(s) : i # j => ~Overlap(s[i], s[j])
      BY <2>2, <3>1
    <3>3. \A i \in 1 .. Len(s) : ~Overlap(range'[p], s[i])
      BY <2>2, <2>3, <3>2, AllocatedRangeIsFree
    <3>4. range'[p][2] # Width - 1
      BY <2>2, <2>3, AllocatedRangeIsBelowTop
    <3>5. \A l \in saved : <<l, Session(l)>> \in seen[p]
      BY <1>2, AllSeen
    <3>6. ASSUME NEW l \in saved
          PROVE  ~Overlap(range'[p], Session(l))
      <4>1. PICK i \in DOMAIN t : t[i] = <<l, Session(l)>>
        BY <2>2, <3>5
      <4>2. s[i] = Session(l)
        BY <2>2, <4>1
      <4> QED BY <2>2, <3>3, <4>2
    <3> QED BY <3>4, <3>6
  <2>5. Making(p)'
    <3>1. Fits(kild[p], range[p])'
      BY <1>2, <1>4, <2>4 DEF Fits, Session, TopIsFree
    <3> QED BY <1>2, <1>4, <3>1 DEF Knows, Making, Saving
  <2>6. CopiesAreCurrent(p)' /\ Filling(p)' /\ Scanning(p)' /\ Sweeping(p)'
    BY <1>2, <1>4 DEF CopiesAreCurrent, Copy, Filling, Scanning, Sweeping, Saving
  <2> QED BY <2>5, <2>6 DEF Knows
<1> QED BY <1>1, <1>3, <1>4
LEMMA CreateWorktreeKnows ==
    ASSUME Ready, NEW p \in Procs, CreateWorktree(p)
    PROVE  Knows(p)'
<1>1. /\ Moves(p) /\ Stage(p)'
      /\ \/ pc'[p] = "idle"
         \/ /\ pc'[p] = "mkdir" /\ UNCHANGED <<args, reading>>
            /\ worktree' = worktree \cup {kild[p]}
  BY CreateWorktreeMoves DEF Ready, Moves
<1>2. UNCHANGED <<flat, file, saved>> /\ Knows(p) /\ cmd[p] = "create" /\ pc[p] = "worktree"
  BY DEF CreateWorktree, Ready, Sound, Stage
<1>3. CASE pc'[p] = "idle"
  BY <1>1, <1>3, IdleKnows
<1>4. CASE pc'[p] = "mkdir" /\ UNCHANGED <<args, reading>> /\ worktree' = worktree \cup {kild[p]}
  <2>1. UNCHANGED <<cmd, branch, kild, range, scan, todo, seen, picked>>
    BY <1>4 DEF args, reading
  <2>2. Fits(kild[p], range[p])'
    BY <1>2, <2>1 DEF Knows, Making, Fits, Session, TopIsFree
  <2>3. Making(p)'
    BY <1>2, <1>4, <2>1, <2>2 DEF Knows, Making, Saving
  <2>4. CopiesAreCurrent(p)' /\ Filling(p)' /\ Scanning(p)' /\ Sweeping(p)'
    BY <1>1, <1>2, <1>4, <2>1 DEF CopiesAreCurrent, Copy, Filling, Scanning, Sweeping, Stage
  <2> QED BY <2>3, <2>4 DEF Knows
<1> QED BY <1>1, <1>3, <1>4

LEMMA ReadToPatchKnows ==
    ASSUME Ready, NEW p \in Procs, ReadToPatch(p), ~raced'
    PROVE  Knows(p)'
<1>1. /\ Moves(p) /\ Stage(p)' /\ \A q \in Procs \ {p} : fd'[q] = fd[q]
      /\ \/ pc'[p] = "idle"
         \/ /\ pc'[p] = "truncate" /\ UNCHANGED <<cmd, branch, kild, reading>>
            /\ range'[p] \in Ranges
            /\ range'[p] = IF file[kild[p]] = NoFile /\ flat[kild[p]] # NoFile
                           THEN flat[kild[p]] ELSE file[kild[p]]
  BY ReadToPatchMoves DEF Ready, Moves
<1>2. /\ Stage(p) /\ kild[p] \in Kilds /\ cmd[p] = "patch" /\ scan[p] = "none" /\ seen[p] = {}
      /\ Stored(kild[p])
  BY DEF ReadToPatch, Ready, Sound, Stage
<1>3. CASE pc'[p] = "idle"
  BY <1>1, <1>3, IdleKnows
<1>4. CASE /\ pc'[p] = "truncate" /\ UNCHANGED <<cmd, branch, kild, reading>>
           /\ range'[p] \in Ranges
           /\ range'[p] = IF file[kild[p]] = NoFile /\ flat[kild[p]] # NoFile
                          THEN flat[kild[p]] ELSE file[kild[p]]
  <2>1. UNCHANGED <<cmd, branch, kild, scan, todo, seen, picked>>
    BY <1>4 DEF reading
  <2>2. kild[p] \in saved' /\ flat'[kild[p]] = NoFile /\ file'[kild[p]] = range'[p]
    <3>1. CASE file[kild[p]] = NoFile /\ flat[kild[p]] # NoFile
      <4>1. Migrate(p, kild[p])
        BY <3>1 DEF ReadToPatch
      <4>2. TempKept(p)
        BY <1>1, <4>1 DEF TempKept, Migrate
      <4>3. kild[p] \in saved /\ file'[kild[p]] = flat[kild[p]] /\ flat'[kild[p]] = NoFile /\ saved' = saved
        BY <1>1, <1>2, <3>1, <4>1, <4>2, MigrateSafe DEF Moves
      <4> QED BY <1>4, <3>1, <4>3
    <3>2. CASE ~(file[kild[p]] = NoFile /\ flat[kild[p]] # NoFile)
      <4>1. UNCHANGED <<flat, file, saved>>
        BY <3>2 DEF ReadToPatch, disk, history
      <4> QED BY <1>2, <1>4, <3>2, <4>1, SessionsAssumption DEF Stored
    <3> QED BY <3>1, <3>2
  <2>3. CopiesAreCurrent(p)'
    BY <1>2, <1>4, <2>1, <2>2 DEF CopiesAreCurrent, Copy
  <2>4. Filling(p)' /\ Making(p)' /\ Scanning(p)' /\ Sweeping(p)'
    BY <1>2, <1>4, <2>1 DEF Filling, Making, Scanning, Sweeping
  <2> QED BY <2>3, <2>4 DEF Knows
<1> QED BY <1>1, <1>3, <1>4

\* The steps of the save, on the way to the rename.
LEMMA SavingKnows ==
    ASSUME Ready, NEW p \in Procs, Stage(p)', pc[p] \in Saving, pc'[p] \in Saving,
           UNCHANGED <<args, reading, flat, file, saved, worktree, pruned>>, Filling(p)'
    PROVE  Knows(p)'
<1>1. Knows(p) /\ Stage(p) /\ UNCHANGED <<cmd, branch, kild, range, scan, todo, seen, picked>>
  BY DEF Ready, Sound, args, reading
<1>2. CopiesAreCurrent(p)'
  BY <1>1 DEF Knows, CopiesAreCurrent, Copy, Stage, Saving
<1>3. cmd[p] = "create" => Fits(kild[p], range[p])'
  BY <1>1 DEF Knows, Making, Fits, Session, TopIsFree, Saving
<1>4. Making(p)'
  BY <1>1, <1>3 DEF Knows, Making, Saving
<1>5. Scanning(p)' /\ Sweeping(p)'
  BY <1>1 DEF Scanning, Sweeping, Saving, Stage
<1> QED BY <1>2, <1>4, <1>5 DEF Knows

LEMMA MakeDirKnows ==
    ASSUME Ready, NEW p \in Procs, MakeDir(p)
    PROVE  Knows(p)'
<1>1. /\ Stage(p)' /\ pc[p] = "mkdir" /\ pc'[p] = "truncate" /\ UNCHANGED <<args, reading>>
      /\ UNCHANGED <<flat, file, saved, worktree, pruned>>
  BY MakeDirMoves DEF Ready, Moves, MakeDir, history
<1>2. Filling(p)'
  BY <1>1 DEF Filling
<1> QED BY <1>1, <1>2, SavingKnows DEF Saving

LEMMA TruncateKnows ==
    ASSUME Ready, NEW p \in Procs, Truncate(p)
    PROVE  Knows(p)'
<1>1. /\ Stage(p)' /\ pc[p] = "truncate" /\ UNCHANGED <<flat, file, saved, worktree, pruned>>
      /\ \/ pc'[p] = "idle"
         \/ /\ pc'[p] = "write" /\ UNCHANGED <<args, reading>> /\ fd'[p] = "tmp"
            /\ tmp' = [tmp EXCEPT ![kild[p]] = Torn]
  BY TruncateMoves DEF Ready, Moves, Truncate
<1>2. CASE pc'[p] = "idle"
  BY <1>1, <1>2, IdleKnows
<1>3. CASE /\ pc'[p] = "write" /\ UNCHANGED <<args, reading>> /\ fd'[p] = "tmp"
           /\ tmp' = [tmp EXCEPT ![kild[p]] = Torn]
  <2>1. kild[p] \in Kilds /\ kild'[p] = kild[p]
    BY <1>1, <1>3 DEF Ready, Stage, Saving, args
  <2>2. Filling(p)'
    BY <1>3, <2>1 DEF Filling, Ready, DiskTyped
  <2> QED BY <1>1, <1>3, <2>2, SavingKnows DEF Saving
<1> QED BY <1>1, <1>2, <1>3

\* What a writer alone puts into its temp file is its session.
LEMMA WriteKnows ==
    ASSUME Ready, NEW p \in Procs, Write(p)
    PROVE  Knows(p)' /\ UNCHANGED <<flat, file, dir, saved, worktree, pruned>>
           /\ \A k \in Kilds \ {kild[p]} : tmp'[k] = tmp[k]
<1>1. /\ Stage(p) /\ Knows(p) /\ pc[p] = "write" /\ kild[p] \in Kilds
      /\ fd[p] = "tmp" /\ tmp[kild[p]] = Torn
  BY DEF Write, Ready, Sound, Stage, Saving, Knows, Filling
<1>2. UNCHANGED <<flat, file, dir, saved, worktree, pruned>> /\ tmp' = [tmp EXCEPT ![kild[p]] = range[p]]
  BY <1>1 DEF Write, Written, history
<1>3. Stage(p)' /\ pc'[p] = "rename" /\ UNCHANGED <<args, reading>>
  BY <1>1, WriteMoves DEF Ready, Moves
<1>4. kild'[p] = kild[p] /\ range'[p] = range[p]
  BY <1>3 DEF args
<1>5. Filling(p)' /\ \A k \in Kilds \ {kild[p]} : tmp'[k] = tmp[k]
  BY <1>1, <1>2, <1>3, <1>4 DEF Filling, Ready, DiskTyped
<1> QED BY <1>1, <1>2, <1>3, <1>5, SavingKnows DEF Saving

LEMMA RenameKnows ==
    ASSUME Ready, NEW p \in Procs, Rename(p)
    PROVE  Knows(p)'
<1>1. /\ Moves(p) /\ Stage(p)' /\ Stage(p) /\ pc[p] = "rename"
      /\ pc'[p] = "idle" \/ (pc'[p] = "index" /\ UNCHANGED <<cmd, branch, kild, reading>>)
  BY RenameMoves DEF Ready, Moves, Rename
<1>2. CASE pc'[p] = "idle"
  BY <1>1, <1>2, IdleKnows
<1>3. CASE pc'[p] = "index" /\ UNCHANGED <<cmd, branch, kild, reading>>
  <2>1. seen'[p] = {} /\ scan'[p] = "none" /\ cmd'[p] \in {"create", "update", "patch"}
    BY <1>1, <1>3 DEF Stage, Saving, reading
  <2> QED BY <1>3, <2>1
          DEF Knows, CopiesAreCurrent, Copy, Filling, Making, Scanning, Sweeping, Saving
<1> QED BY <1>1, <1>2, <1>3
LEMMA IndexKnows ==
    ASSUME Ready, NEW p \in Procs, LoadIndex(p) \/ StoreIndex(p)
    PROVE  Knows(p)'
<1>1. /\ Moves(p) /\ Stage(p)' /\ pc[p] \in {"index", "store"}
      /\ \/ pc'[p] = "idle"
         \/ scan[p] = "find" /\ WentOn(p, kild[p], range[p])
         \/ pc'[p] = "clean" /\ UNCHANGED <<cmd, reading>>
         \/ pc'[p] = "store" /\ UNCHANGED <<args, reading>>
  <2>1. CASE LoadIndex(p)
    BY <2>1, LoadIndexMoves DEF LoadIndex, Ready, Moves
  <2>2. CASE StoreIndex(p)
    BY <2>2, IndexedMoves DEF StoreIndex, Ready, Moves
  <2> QED BY <2>1, <2>2
<1>2. UNCHANGED <<flat, file, saved, pruned>> /\ Knows(p) /\ Stage(p)
  BY DEF LoadIndex, StoreIndex, disk, history, Ready, Sound
<1>3. CASE pc'[p] = "idle"
  BY <1>1, <1>3, IdleKnows
<1>4. CASE scan[p] = "find" /\ WentOn(p, kild[p], range[p])
  <2>1. kild[p] \in Kilds /\ range[p] \in Ranges
    BY <1>1, <1>2, <1>4 DEF Stage
  <2>2. CASE cmd[p] = "update"
    <3>1. kild[p] \in saved /\ flat[kild[p]] = NoFile /\ file[kild[p]] = range[p]
      BY <1>1, <1>2, <1>4, <2>1, <2>2 DEF Knows, CopiesAreCurrent, Copy
    <3> QED BY <1>1, <1>2, <1>4, <2>1, <3>1, FoundKnows
  <2>3. CASE cmd[p] # "update"
    <3>1. cmd'[p] = "destroy" /\ pc'[p] = "remove" /\ scan'[p] = "none" /\ seen'[p] = {}
      BY <1>4, <2>3 DEF WentOn
    <3> QED BY <3>1 DEF Knows, CopiesAreCurrent, Copy, Filling, Making, Scanning, Sweeping
  <2> QED BY <2>2, <2>3
<1>5. CASE pc'[p] = "clean" /\ UNCHANGED <<cmd, reading>>
  <2>1. cmd'[p] = cmd[p] /\ cmd'[p] = "stale" /\ scan'[p] = scan[p] /\ seen'[p] = seen[p] /\ picked'[p] = picked[p]
    BY <1>1, <1>5 DEF Stage, reading
  <2>2. \A k \in Kilds, r \in Ranges : ~Copy(p, k, r)'
    BY <1>5, <2>1 DEF Copy
  <2> QED BY <1>1, <1>2, <1>5, <2>1, <2>2, MovedOnKnows
<1>6. CASE pc'[p] = "store" /\ UNCHANGED <<args, reading>>
  <2>1. UNCHANGED <<cmd, branch, kild, range, scan, todo, seen, picked>>
    BY <1>6 DEF args, reading
  <2>2. \A k \in Kilds, r \in Ranges : Copy(p, k, r)' => Copy(p, k, r)
    BY <1>1, <1>6, <2>1 DEF Copy, Saving
  <2>3. scan[p] # "ports"
    BY <1>1, <1>2 DEF Stage
  <2> QED BY <1>1, <1>2, <1>6, <2>1, <2>2, <2>3, MovedOnKnows DEF Saving
<1> QED BY <1>1, <1>3, <1>4, <1>5, <1>6

LEMMA RemovingKnows ==
    ASSUME Ready, NEW p \in Procs, RemoveWorktree(p) \/ RemoveFile(p)
    PROVE  Knows(p)'
<1>1. /\ Stage(p)' /\ pc'[p] \in {"unlink", "index"} /\ UNCHANGED <<args, reading>>
      /\ Stage(p) /\ Knows(p) /\ pc[p] \in {"remove", "unlink"} /\ pruned \subseteq pruned'
  BY RemoveWorktreeMoves, RemoveFileMoves DEF Ready, Moves, Sound, RemoveWorktree, RemoveFile
<1>2. UNCHANGED <<cmd, branch, kild, range, scan, todo, seen, picked>>
  BY <1>1 DEF args, reading
<1>3. cmd[p] \in {"destroy", "stale"} /\ scan[p] \in {"none", "stale"}
  BY <1>1 DEF Stage
<1> QED BY <1>1, <1>2, <1>3
        DEF Knows, CopiesAreCurrent, Copy, Filling, Making, Scanning, Sweeping, Saving

\* cleanup: of the worktrees it listed those remain that no kild it saw has, and
\* it saw every kild.
LEMMA CleaningKnows ==
    ASSUME Ready, NEW p \in Procs,
           ListWorktrees(p) \/ Untracked(p) \/ Sweep(p) \/ StaleFound(p) \/ Clean(p)
    PROVE  Knows(p)'
<1>1. Stage(p) /\ Knows(p)
  BY DEF Ready, Sound
<1>2. CASE ListWorktrees(p)
  <2>1. Stage(p)' /\ pc'[p] = "read_dir" /\ UNCHANGED <<args, seen>> /\ cmd[p] = "orphans"
    BY <1>1, <1>2, ListWorktreesMoves DEF Ready, Moves, ListWorktrees, Stage
  <2>2. cmd'[p] = "orphans"
    BY <2>1 DEF args
  <2> QED BY <2>1, <2>2 DEF Knows, CopiesAreCurrent, Copy, Filling, Making, Scanning, Sweeping
<1>3. CASE Untracked(p)
  <2>1. /\ Stage(p)' /\ pc'[p] = "sweep" /\ UNCHANGED <<args, scan>> /\ cmd[p] = "orphans"
        /\ picked'[p] = picked[p] \ {s[1] : s \in seen[p]} /\ Loaded(p) /\ saved' = saved
        /\ scan[p] = "orphans"
    BY <1>1, <1>3, UntrackedMoves DEF Ready, Moves, Untracked, Stage, history
  <2>2. cmd'[p] = "orphans"
    BY <2>1 DEF args
  <2>3. \A l \in saved : <<l, Session(l)>> \in seen[p]
    BY <2>1, AllSeen
  <2>4. ASSUME NEW l \in saved
        PROVE  l \in {s[1] : s \in seen[p]}
    <3>1. <<l, Session(l)>> \in seen[p] /\ <<l, Session(l)>>[1] = l
      BY <2>3
    <3> QED BY <3>1, Zenon
  <2>5. picked'[p] \cap saved' = {}
    BY <2>1, <2>4
  <2> QED BY <2>1, <2>2, <2>5 DEF Knows, CopiesAreCurrent, Copy, Filling, Making, Scanning, Sweeping
<1>4. CASE Sweep(p)
  <2>1. /\ Stage(p)' /\ pc[p] = "sweep" /\ pc'[p] = "sweep" /\ UNCHANGED args /\ cmd[p] = "orphans"
        /\ picked'[p] \subseteq picked[p] /\ saved' = saved
    BY <1>1, <1>4, SweepMoves DEF Ready, Moves, Sweep, Stage, history
  <2>2. cmd'[p] = "orphans"
    BY <2>1 DEF args
  <2> QED BY <1>1, <2>1, <2>2 DEF Knows, CopiesAreCurrent, Copy, Filling, Making, Scanning, Sweeping
<1>5. CASE StaleFound(p) \/ Clean(p)
  <2>1. /\ Stage(p)' /\ pc'[p] \in {"clean", "unlink"} /\ cmd'[p] = "stale" /\ cmd[p] = "stale"
        /\ picked'[p] \subseteq picked[p] /\ pruned' = pruned
    BY <1>1, <1>5, StaleFoundMoves, CleanMoves
       DEF Ready, Moves, StaleFound, Clean, Loaded, Stage, args, reading, history
  <2> QED BY <1>1, <2>1 DEF Knows, CopiesAreCurrent, Copy, Filling, Making, Scanning, Sweeping
<1> QED BY <1>2, <1>3, <1>4, <1>5

-----------------------------------------------------------------------------
(* The invariant. *)

LEMMA QuietSound ==
    ASSUME Ready, NEW p \in Procs, Quiet(p)
    PROVE  Safe(p) /\ Knows(p)'
<1>1. Stage(p) /\ Moves(p) /\ Kept /\ \A q \in Procs \ {p} : fd'[q] = fd[q]
  BY QuietMoves, QuietKeeps DEF Ready
<1>2. UNCHANGED <<flat, file, tmp, dir, saved, worktree, pruned>>
  BY <1>1 DEF Kept, disk, history
<1>3. TempKept(p)
  BY <1>1, <1>2 DEF TempKept
<1>4. Safe(p)
  BY <1>1, <1>2, <1>3, StillSafe DEF Moves
<1>5. CASE Returning(p)
  <2>1. pc'[p] = "idle" /\ Stage(p)'
    BY <1>5, ReturningMoves DEF Ready, Moves
  <2> QED BY <1>4, <2>1, IdleKnows
<1>6. CASE Lookup(p) \/ Check(p) \/ ReadDir(p) \/ FindByScan(p) \/ AllocatePorts(p)
  BY <1>4, <1>6, LookupKnows, CheckKnows, ReadDirKnows, FindByScanKnows, AllocatePortsKnows, Zenon
<1>7. CASE LoadIndex(p) \/ ListWorktrees(p) \/ Untracked(p) \/ StaleFound(p)
  BY <1>4, <1>7, IndexKnows, CleaningKnows, Zenon
<1> QED BY <1>4, <1>5, <1>6, <1>7, Zenon DEF Quiet, Returning

\* The steps that only touch temp files and the index.
LEMMA SavingSound ==
    ASSUME Ready, NEW p \in Procs, ~raced',
           Die(p) \/ MakeDir(p) \/ Truncate(p) \/ Write(p) \/ WriteFails(p) \/ StoreIndex(p)
    PROVE  Safe(p) /\ Knows(p)'
<1>1. /\ Stage(p) /\ \A q \in Procs : Stage(q) /\ (pc[q] \in Writing => kild[q] \in Kilds)
      /\ tmp \in [Kilds -> Contents] /\ \A l \in Kilds : Stored(l)
  BY DEF Ready, DiskTyped, Sound, Stage, Saving, Writing
<1>2. \A q \in Procs \ {p} : pc[p] \in Writing /\ pc[q] \in Writing => kild[q] # kild[p]
  BY DEF Ready, Sound, Apart
<1>3. ASSUME Moves(p), TempKept(p), UNCHANGED <<flat, file, saved, worktree, pruned>>,
             \A k \in saved : k \in dir' => k \in dir \/ flat[k] = NoFile
      PROVE  Safe(p)
  BY <1>3, StillSafe DEF Moves
<1>4. CASE Die(p)
  <2>1. Moves(p) /\ pc'[p] = "idle" /\ \A q \in Procs \ {p} : fd'[q] = fd[q]
    BY <1>4, ReturnMoves DEF Die, Ready
  <2>2. UNCHANGED <<flat, file, dir, saved, worktree, pruned>>
    BY <1>4 DEF Die, history
  <2>3. TempKept(p)
    BY <1>1, <1>2, <1>4, <2>1 DEF Die, TempKept, ClashOfWriters, Writing
  <2> QED BY <1>3, <2>1, <2>2, <2>3, IdleKnows DEF Moves
<1>5. CASE MakeDir(p)
  <2>1. Moves(p) /\ UNCHANGED fd
    BY <1>1, <1>5, MakeDirMoves DEF Ready
  <2>2. UNCHANGED <<flat, file, tmp, saved, worktree, pruned>> /\ dir' = dir \cup {kild[p]}
    BY <1>5 DEF MakeDir, history
  <2>3. TempKept(p)
    BY <2>1, <2>2 DEF TempKept
  <2>4. kild[p] \in saved => flat[kild[p]] = NoFile
    <3>1. /\ kild[p] \in Kilds /\ range[p] \in Ranges /\ Knows(p) /\ pc[p] = "mkdir"
          /\ cmd[p] = "update" \/ (cmd[p] = "create" /\ branch[p] = BranchOf[kild[p]])
      BY <1>1, <1>5 DEF MakeDir, Stage, Saving, Ready, Sound
    <3>2. CASE cmd[p] = "update"
      BY <3>1, <3>2 DEF Knows, CopiesAreCurrent, Copy, Saving
    <3>3. CASE cmd[p] = "create"
      BY <3>1, <3>3 DEF Knows, Making, Saving
    <3> QED BY <3>1, <3>2, <3>3
  <2> QED BY <1>3, <1>5, <2>1, <2>2, <2>3, <2>4, MakeDirKnows
<1>6. CASE Truncate(p)
  <2>1. /\ Moves(p) /\ \A q \in Procs \ {p} : fd'[q] = fd[q]
        /\ tmp' = tmp \/ (tmp' = [tmp EXCEPT ![kild[p]] = Torn] /\ ~ClashOfWriters(p, kild[p]))
    BY <1>1, <1>6, TruncateMoves DEF Ready
  <2>2. UNCHANGED <<flat, file, dir, saved, worktree, pruned>>
    BY <1>6 DEF Truncate
  <2>3. TempKept(p)
    BY <1>1, <2>1 DEF TempKept, ClashOfWriters, Writing
  <2> QED BY <1>3, <1>6, <2>1, <2>2, <2>3, TruncateKnows
<1>7. CASE Write(p)
  <2>1. Moves(p) /\ UNCHANGED fd /\ pc[p] \in Writing
    BY <1>1, <1>7, WriteMoves DEF Ready, Write, Writing
  <2>2. /\ Knows(p)' /\ UNCHANGED <<flat, file, dir, saved, worktree, pruned>>
        /\ \A k \in Kilds \ {kild[p]} : tmp'[k] = tmp[k]
    BY <1>7, WriteKnows
  <2>3. TempKept(p)
    BY <1>1, <1>2, <2>1, <2>2 DEF TempKept
  <2> QED BY <1>3, <2>1, <2>2, <2>3
<1>8. CASE WriteFails(p)
  <2>1. /\ Moves(p) /\ pc'[p] = "idle" /\ pc[p] \in Writing
        /\ \A q \in Procs \ {p} : fd'[q] = fd[q] \/ (kild[q] = kild[p] /\ pc[q] = "write")
    BY <1>1, <1>8, WriteFailsMoves DEF Ready, WriteFails, Writing
  <2>2. /\ UNCHANGED <<flat, file, dir, saved, worktree, pruned>>
        /\ tmp' = [tmp EXCEPT ![kild[p]] = NoFile]
    BY <1>8 DEF WriteFails, history
  <2>3. TempKept(p)
    BY <1>1, <1>2, <2>1, <2>2 DEF TempKept, Writing
  <2> QED BY <1>3, <2>1, <2>2, <2>3, IdleKnows DEF Moves
<1>9. CASE StoreIndex(p)
  <2>1. Moves(p) /\ \A q \in Procs \ {p} : fd'[q] = fd[q]
    BY <1>1, <1>9, IndexedMoves DEF Ready, StoreIndex
  <2>2. UNCHANGED <<flat, file, tmp, dir, saved, worktree, pruned>>
    BY <1>9 DEF StoreIndex, history
  <2>3. TempKept(p)
    BY <2>1, <2>2 DEF TempKept
  <2> QED BY <1>3, <1>9, <2>1, <2>2, <2>3, IndexKnows
<1> QED BY <1>4, <1>5, <1>6, <1>7, <1>8, <1>9
LEMMA StepSafe ==
    ASSUME Ready, NEW p \in Procs, Step(p), ~raced'
    PROVE  Safe(p) /\ Knows(p)'
<1>1. CASE Quiet(p)
  BY <1>1, QuietSound
<1>2. CASE Die(p) \/ MakeDir(p) \/ Truncate(p) \/ Write(p) \/ WriteFails(p) \/ StoreIndex(p)
  BY <1>2, SavingSound
<1>3. CASE LoadEntry(p)
  <2>1. PICK e \in todo[p] : Reads(p, e)
    BY <1>3, Zenon DEF LoadEntry, Reads
  <2>2. /\ Stage(p) /\ Moves(p) /\ UNCHANGED fd /\ e[1] \in Kilds
        /\ \A k \in Kilds : Stored(k)
    BY <1>3, <2>1, LoadEntryMoves DEF Ready, Sound, writing
  <2>3. CASE flat[e[1]] # NoFile /\ Migrate(p, e[1])
    <3>1. TempKept(p)
      BY <2>2, <2>3 DEF TempKept, Migrate
    <3> QED BY <1>3, <2>2, <2>3, <3>1, MigrateSafe, LoadEntryKnows DEF Moves
  <2>4. CASE UNCHANGED <<disk, history>>
    <3>1. UNCHANGED <<flat, file, tmp, dir, saved, worktree, pruned>>
      BY <2>4 DEF disk, history
    <3>2. TempKept(p)
      BY <2>2, <3>1 DEF TempKept
    <3> QED BY <1>3, <2>2, <3>1, <3>2, StillSafe, LoadEntryKnows DEF Moves
  <2> QED BY <2>1, <2>3, <2>4 DEF Reads
<1>4. CASE ReadToPatch(p)
  <2>1. Stage(p) /\ Moves(p) /\ (\A q \in Procs \ {p} : fd'[q] = fd[q]) /\ kild[p] \in Kilds
    BY <1>4, ReadToPatchMoves DEF Ready, ReadToPatch, Stage
  <2>2. CASE flat[kild[p]] # NoFile /\ Migrate(p, kild[p])
    <3>1. TempKept(p)
      BY <2>1, <2>2 DEF TempKept, Migrate
    <3> QED BY <1>4, <2>1, <2>2, <3>1, MigrateSafe, ReadToPatchKnows DEF Moves
  <2>3. CASE UNCHANGED <<disk, history>>
    <3>1. UNCHANGED <<flat, file, tmp, dir, saved, worktree, pruned>>
      BY <2>3 DEF disk, history
    <3>2. TempKept(p)
      BY <2>1, <3>1 DEF TempKept
    <3> QED BY <1>4, <2>1, <3>1, <3>2, StillSafe, ReadToPatchKnows DEF Moves
  <2> QED BY <1>4, <2>2, <2>3 DEF ReadToPatch
<1>5. CASE Rename(p)
  BY <1>5, RenameSafe, RenameKnows
<1>6. CASE CreateWorktree(p)
  BY <1>6, WorktreesSafe, CreateWorktreeKnows
<1>7. CASE RemoveWorktree(p)
  BY <1>7, WorktreesSafe, RemovingKnows
<1>8. CASE RemoveFile(p)
  BY <1>8, RemoveFileSafe, RemovingKnows
<1>9. CASE Sweep(p) \/ Clean(p)
  BY <1>9, WorktreesSafe, CleaningKnows
<1> QED BY <1>1, <1>2, <1>3, <1>4, <1>5, <1>6, <1>7, <1>8, <1>9 DEF Step, Quiet

\* Two commands that must not overlap, or two writers of a file, do not begin
\* beside each other unnoticed.
LEMMA StepApart ==
    ASSUME Ready, NEW p \in Procs, Step(p), ~raced'
    PROVE  Apart'
<1>1. Moves(p) /\ Apart /\ Stage(p) /\ Busy(p)
  <2>1. Busy(p)
    BY Zenon DEF Step, Busy, Die, Lookup, Check, ReadDir, LoadEntry, FindByScan, Listed, AllocatePorts,
       CreateWorktree, SpawnFails, ReadToPatch, MakeDir, Truncate, Write, WriteFails, Rename, LoadIndex,
       StoreIndex, RemoveWorktree, RemoveWorktreeFails, RemoveFile, ListWorktrees, Untracked, Sweep,
       StaleFound, Clean, Cleaned, Loaded
  <2> QED BY <2>1, StepTyped DEF Ready, Sound
<1>2. ASSUME pc'[p] = "idle" \/ cmd'[p] = cmd[p],
             pc'[p] \in Writing => \/ pc[p] \in Writing /\ kild'[p] = kild[p]
                                   \/ ~ClashOfWriters(p, kild'[p])
      PROVE  Apart'
  BY <1>1, <1>2, ApartKept DEF Moves
<1>3. ASSUME pc'[p] = "idle" \/ cmd'[p] = cmd[p], pc'[p] \notin Writing
      PROVE  Apart'
  BY <1>2, <1>3
<1>4. CASE Die(p) \/ WriteFails(p) \/ Returning(p)
  BY <1>1, <1>3, <1>4, ReturnMoves, WriteFailsMoves, ReturningMoves DEF Die, Ready, Writing
<1>5. CASE Lookup(p) \/ ReadDir(p)
  BY <1>1, <1>3, <1>5, LookupMoves, ReadDirMoves DEF Ready, Writing
<1>6. CASE Check(p)
  BY <1>1, <1>3, <1>6, CheckMoves DEF Ready, Writing, WentOn
<1>7. CASE LoadEntry(p)
  BY <1>1, <1>3, <1>7 DEF LoadEntry, args, Writing
<1>8. CASE FindByScan(p) \/ AllocatePorts(p)
  BY <1>1, <1>3, <1>8, FindByScanMoves, AllocatePortsMoves DEF Ready, Writing
<1>9. CASE CreateWorktree(p) \/ MakeDir(p)
  BY <1>1, <1>3, <1>9, CreateWorktreeMoves, MakeDirMoves DEF Ready, Writing, args
<1>10. CASE ReadToPatch(p) \/ Rename(p)
  BY <1>1, <1>3, <1>10, ReadToPatchMoves, RenameMoves DEF Ready, Writing
<1>11. CASE Truncate(p)
  <2>1. \/ pc'[p] = "idle"
        \/ UNCHANGED <<cmd, kild>> /\ ~ClashOfWriters(p, kild[p])
    BY <1>1, <1>11, TruncateMoves DEF Ready, args
  <2> QED BY <1>2, <2>1 DEF Writing
<1>12. CASE Write(p)
  <2>1. UNCHANGED <<cmd, kild>> /\ pc[p] \in Writing
    BY <1>12 DEF Write, args, Writing
  <2> QED BY <1>2, <2>1
<1>13. CASE LoadIndex(p)
  BY <1>1, <1>3, <1>13, LoadIndexMoves DEF Ready, Writing, WentOn, args
<1>14. CASE StoreIndex(p)
  BY <1>1, <1>3, <1>14, IndexedMoves DEF StoreIndex, Ready, Writing, WentOn
<1>15. CASE RemoveWorktree(p) \/ RemoveFile(p)
  BY <1>1, <1>3, <1>15, RemoveWorktreeMoves, RemoveFileMoves DEF Ready, Writing, args
<1>16. CASE ListWorktrees(p) \/ Untracked(p) \/ StaleFound(p) \/ Clean(p)
  BY <1>1, <1>3, <1>16, ListWorktreesMoves, UntrackedMoves, StaleFoundMoves, CleanMoves
     DEF Ready, Writing, args
<1>17. CASE Sweep(p)
  BY <1>1, <1>3, <1>17 DEF Sweep, args, Writing
<1> QED BY <1>4, <1>5, <1>6, <1>7, <1>8, <1>9, <1>10, <1>11, <1>12, <1>13, <1>14, <1>15, <1>16, <1>17
        DEF Step, Returning

LEMMA BeginSound ==
    ASSUME Ready, NEW p \in Procs, Begins(p), begun \in 0 .. MaxCommands, ~raced'
    PROVE  Sound'
<1>1. /\ Stage(p) /\ Moves(p) /\ UNCHANGED <<disk, todo, seen, picked, fd, saved, pruned>> /\ ~Busy(p)
      /\ pc'[p] \in {"lookup", "read", "read_dir", "worktrees"} /\ seen[p] = {} /\ scan'[p] # "ports"
      /\ ~ClashOfCommands(p, cmd'[p])
  BY BeginMoves DEF Ready
<1>2. UNCHANGED <<flat, file, tmp, dir, worktree>>
  BY <1>1 DEF disk
<1>3. TempKept(p)
  BY <1>1, <1>2 DEF TempKept
<1>4. Safe(p)
  BY <1>1, <1>2, <1>3, StillSafe DEF Moves
<1>5. Apart'
  BY <1>1, ApartKept DEF Moves, Ready, Sound, Writing
<1>6. Knows(p)'
  <2>1. picked'[p] = {} /\ seen'[p] = {}
    BY <1>1 DEF Stage
  <2> QED BY <1>1, <2>1 DEF Knows, CopiesAreCurrent, Copy, Filling, Making, Scanning, Sweeping, Saving
<1> QED BY <1>4, <1>5, <1>6 DEF Safe, Sound

LEMMA InitSound == ASSUME Init PROVE Sound
<1>1. PICK old \in [Kilds -> OldRanges \cup {NoFile}], new \in [Kilds -> OldRanges \cup {NoFile}] :
         /\ \A k \in Kilds : old[k] = NoFile \/ new[k] = NoFile
         /\ \A k, l \in Kilds : \A r \in {old[k], new[k]} \cap Ranges, q \in {old[l], new[l]} \cap Ranges :
               k # l => BranchOf[k] # BranchOf[l] /\ ~Overlap(r, q)
         /\ flat = old /\ file = new
         /\ dir = {k \in Kilds : new[k] # NoFile}
  BY DEF Init
<1>2. saved = {k \in Kilds : file[k] # NoFile \/ flat[k] # NoFile} /\ saved \subseteq worktree \cup pruned
  BY DEF Init
<1>3. \A k \in Kilds : Stored(k)
  BY <1>1, <1>2, SessionsAssumption DEF Stored
<1>4. \A k \in saved : Session(k) \in {flat[k], file[k]} \cap OldRanges
  BY <1>1, <1>2, SessionsAssumption DEF Stored, Session
<1>5. \A k, l \in saved : k # l => BranchOf[k] # BranchOf[l] /\ ~Overlap(Session(k), Session(l))
  BY <1>1, <1>2, <1>4, SessionsAssumption
<1>6. KildsAreDistinct
  BY <1>2, <1>4, <1>5 DEF KildsAreDistinct, Fits, TopIsFree
<1>7. \A p \in Procs : /\ pc[p] = "idle" /\ cmd[p] = "list" /\ kild[p] = NoKild /\ scan[p] = "none"
                       /\ seen[p] = {} /\ picked[p] = {}
  BY DEF Init
<1>8. Apart
  BY <1>7 DEF Apart, Busy, Writing
<1>9. \A p \in Procs : Knows(p)
  BY <1>7 DEF Knows, CopiesAreCurrent, Copy, Filling, Making, Scanning, Sweeping, Saving
<1> QED BY <1>3, <1>6, <1>8, <1>9 DEF Sound

LEMMA FilesInvInductive == FilesInv /\ [Next]_vars => FilesInv'
<1> SUFFICES ASSUME FilesInv, [Next]_vars
             PROVE  FilesInv'
  OBVIOUS
<1>1. Typed /\ Typed'
  BY NextTyped DEF FilesInv, Typed
<1>2. LocalsTyped /\ DiskTyped /\ HistoryTyped /\ begun \in 0 .. MaxCommands
  BY <1>1, TypeOKSplits DEF Typed
<1>3. ASSUME NEW p \in Procs, Step(p) \/ Begins(p), ~raced'
      PROVE  Sound'
  <2>1. ~raced
    <3>1. raced => raced'
      BY <1>3, Zenon DEF Step, Begins, Create, Update, Patch, Destroy, List, CleanUpOrphans, CleanUpStale,
         Begin, Die, Lookup, Check, ReadDir, LoadEntry, FindByScan, Listed, AllocatePorts, CreateWorktree,
         SpawnFails, ReadToPatch, MakeDir, Truncate, Write, WriteFails, Rename, LoadIndex, StoreIndex,
         RemoveWorktree, RemoveWorktreeFails, RemoveFile, ListWorktrees, Untracked, Sweep, StaleFound,
         Clean, Cleaned, Migrate, history
    <3> QED BY <1>3, <3>1
  <2>2. Ready
    BY <1>1, <1>2, <2>1 DEF Ready, FilesInv, Typed
  <2>3. CASE Begins(p)
    BY <1>2, <1>3, <2>2, <2>3, BeginSound
  <2>4. CASE Step(p)
    <3>1. Safe(p) /\ Knows(p)' /\ Apart'
      BY <1>3, <2>2, <2>4, StepSafe, StepApart
    <3> QED BY <3>1 DEF Safe, Sound
  <2> QED BY <1>3, <2>3, <2>4
<1>4. ASSUME UNCHANGED vars, ~raced'
      PROVE  Sound'
  <2>1. Sound
    BY <1>4 DEF FilesInv, vars, history
  <2> QED BY <1>4, <2>1
          DEF vars, disk, args, reading, writing, history, Sound, Stored, Apart, Busy, KildsAreDistinct, Fits,
              Session, TopIsFree, Knows, CopiesAreCurrent, Copy, Filling, Making, Scanning, Covered, Agree,
              Sweeping
<1>5. Next => \/ \E p \in Procs : Step(p) \/ Begins(p)
              \/ UNCHANGED vars
  BY Zenon DEF Next, Begins, Rest
<1>6. ~raced' => Sound'
  BY <1>3, <1>4, <1>5
<1> QED BY <1>1, <1>6 DEF FilesInv, Typed

\* The inductive invariant holds: until two commands meet in one of the ways of
\* Clash, what every process knows of the files it is about to change is true.
THEOREM FilesAreSound == Spec => []FilesInv
<1>1. Init => FilesInv
  BY InitTyped, InitSound DEF FilesInv, Typed
<1> QED BY <1>1, FilesInvInductive, PTL DEF Spec

\* A kild that was saved and not removed can be read, by every reader, at every
\* moment, whichever process was killed where: the rename of a whole temp file
\* and the move of a legacy file are the only ways a session comes to its place.
THEOREM SavedKildsAreReadable == Spec => []SavedIsReadable
<1>1. FilesInv => SavedIsReadable
  <2> SUFFICES ASSUME FilesInv, ~raced, NEW k \in saved
               PROVE  Session(k) \in Ranges
    BY DEF SavedIsReadable
  <2>1. k \in Kilds /\ Stored(k)
    BY DEF FilesInv, Sound, TypeOK
  <2> QED BY <2>1, SessionsAssumption DEF Stored, Session
<1> QED BY <1>1, FilesAreSound, PTL

\* Two saved kilds never have the same branch, whatever the index says: create
\* goes on only when its scan, which misses no kild, found none of that name.
THEOREM BranchesAreUnique == Spec => []OneKildPerBranch
<1>1. FilesInv => OneKildPerBranch
  BY DEF FilesInv, Sound, KildsAreDistinct, OneKildPerBranch
<1> QED BY <1>1, FilesAreSound, PTL

\* The port ranges of two saved kilds have no port in common, for every number of
\* ports and every port count, as long as no session that came from elsewhere
\* has the last port.
THEOREM PortsAreDisjoint == Spec => []PortsDisjoint
<1>1. FilesInv => PortsDisjoint
  <2> SUFFICES ASSUME FilesInv, ~raced, TopIsFree, NEW k \in saved, NEW l \in saved, k # l
               PROVE  ~Overlap(Session(k), Session(l))
    BY DEF PortsDisjoint
  <2> QED BY DEF FilesInv, Sound, KildsAreDistinct, Fits
<1> QED BY <1>1, FilesAreSound, PTL

\* cleanup removes no worktree of a saved kild but one that a user had removed:
\* it lists the worktrees before the sessions, and its listing misses none.
THEOREM WorktreesAreSpared == Spec => []CleanupSparesKilds
<1>1. FilesInv => CleanupSparesKilds
  BY DEF FilesInv, Sound, KildsAreDistinct, CleanupSparesKilds
<1> QED BY <1>1, FilesAreSound, PTL
=============================================================================
