----------------------------- MODULE Gui_proofs -----------------------------
(***************************************************************************)
(* The two models of the terminals in kild-ui.                             *)
(*                                                                         *)
(* TerminalInput: InputInv is inductive, for any number of terminals,      *)
(* sessions and messages and any capacity: however the handlers of several *)
(* terminals interleave, messages reach a tty whole.  Every step maps to   *)
(* a step of InputPipe or to a stutter, which makes them arrive in order.  *)
(*                                                                         *)
(* MainView: ViewInv is inductive, for any number of kilds, panes, tabs    *)
(* and attaches: the view stays in the set Views(L) of the views that know *)
(* only the kilds of L, those listed and those a late attach brought back. *)
(* Each handler is shown to lead from Views(L) to Views(L).                *)
(***************************************************************************)
EXTENDS TerminalInput, MainView, FiniteSetTheorems, NaturalsInduction,
        SequenceTheorems, TLAPS

-----------------------------------------------------------------------------
(* Recursion over a sequence. *)

\* A nonempty set of naturals has a least element.
LEMMA LeastNumber ==
    ASSUME NEW S \in SUBSET Nat, S # {}
    PROVE  \E m \in S : \A n \in S : m <= n
<1> DEFINE Less == {ss \in Nat \X Nat : ss[1] < ss[2]}
<1>1. IsWellFoundedOn(Less, Nat)
  BY NatLessThanWellFounded DEF OpToRel
<1> HIDE DEF Less
<1>2. PICK m \in S : \A n \in S : <<n, m>> \notin Less
  BY <1>1, WFMin
<1>3. \A n \in S : ~(n < m)
  BY <1>2 DEF Less
<1> QED BY <1>2, <1>3

\* What holds of 0 and of the successor of each number below n that it holds
\* of, holds of every number up to n.
LEMMA UpTo ==
    ASSUME NEW n \in Nat, NEW T, 0 \in T, \A i \in 1 .. n : i - 1 \in T => i \in T
    PROVE  0 .. n \subseteq T
<1> SUFFICES ASSUME ~(0 .. n \subseteq T) PROVE FALSE
    OBVIOUS
<1> DEFINE Out == {i \in 0 .. n : i \notin T}
<1>1. Out \in SUBSET Nat /\ Out # {}
  OBVIOUS
<1> HIDE DEF Out
<1>2. PICK m \in Out : \A i \in Out : m <= i
  BY <1>1, LeastNumber
<1>3. m \in 0 .. n /\ m \notin T /\ \A i \in 0 .. n : i < m => i \in T
  BY <1>2 DEF Out
<1>4. m # 0 /\ m - 1 \in 0 .. n /\ m - 1 < m
  BY <1>3
<1> QED BY <1>3, <1>4

\* f is defined by recursion over 0 .. n.
Recursive(f, n, init, step) ==
    f = [i \in 0 .. n |-> IF i = 0 THEN init ELSE step[<<i, f[i - 1]>>]]

\* A function defined by recursion over 0 .. n exists, if each step maps the
\* values possible before it to values possible after it.
LEMMA Recursion ==
    ASSUME NEW n \in Nat, NEW D, NEW init \in D[0], NEW step,
           \A i \in 1 .. n : \A x \in D[i - 1] : step[<<i, x>>] \in D[i]
    PROVE  \E f : Recursive(f, n, init, step) /\ \A i \in 0 .. n : f[i] \in D[i]
<1> DEFINE Is(f, m) == /\ f = [i \in 0 .. m |-> IF i = 0 THEN init
                                              ELSE step[<<i, f[i - 1]>>]]
                       /\ \A i \in 0 .. m : f[i] \in D[i]
           T == {m \in 0 .. n : \E f : Is(f, m)}
<1>1. 0 \in T
  <2> DEFINE f == [i \in 0 .. 0 |-> init]
  <2>1. Is(f, 0)
    <3>1. \A i \in 0 .. 0 : i = 0
      OBVIOUS
    <3>2. \A i \in 0 .. 0 : f[i] = (IF i = 0 THEN init ELSE step[<<i, f[i - 1]>>]) /\ f[i] \in D[i]
      BY <3>1
    <3>3. f = [i \in 0 .. 0 |-> f[i]]
      OBVIOUS
    <3> HIDE DEF f
    <3> QED BY <3>2, <3>3
  <2>2. 0 \in 0 .. n
    OBVIOUS
  <2> HIDE DEF f, Is
  <2> QED BY <2>1, <2>2
<1>2. \A m \in 1 .. n : m - 1 \in T => m \in T
  <2> SUFFICES ASSUME NEW m \in 1 .. n, m - 1 \in T PROVE m \in T
      OBVIOUS
  <2>0. m \in 0 .. n /\ m # 0
    OBVIOUS
  <2>1. PICK f : Is(f, m - 1)
    <3> HIDE DEF Is
    <3> QED OBVIOUS
  <2> DEFINE g == [i \in 0 .. m |-> IF i = m THEN step[<<m, f[m - 1]>>] ELSE f[i]]
  <2>2. \A i \in 0 .. m : i # m => i \in 0 .. m - 1
    OBVIOUS
  <2>3. \A i \in 0 .. m : i # 0 => i - 1 \in 0 .. m /\ i - 1 # m /\ i - 1 \in 0 .. m - 1
    OBVIOUS
  <2>4. \A i \in 0 .. m - 1 : /\ f[i] = IF i = 0 THEN init ELSE step[<<i, f[i - 1]>>]
                              /\ f[i] \in D[i]
    BY <2>1
  <2>5. \A i \in 0 .. m : i # 0 => g[i - 1] = f[i - 1]
    BY <2>3
  <2>6. \A i \in 0 .. m : g[i] = IF i = 0 THEN init ELSE step[<<i, g[i - 1]>>]
    <3> SUFFICES ASSUME NEW i \in 0 .. m
                 PROVE  g[i] = IF i = 0 THEN init ELSE step[<<i, g[i - 1]>>]
        OBVIOUS
    <3>1. CASE i = m
      BY <3>1, <2>0, <2>5
    <3>2. CASE i # m
      BY <3>2, <2>2, <2>4, <2>5
    <3> QED BY <3>1, <3>2
  <2>7. m - 1 \in 0 .. m - 1 /\ m \in 0 .. m
    OBVIOUS
  <2>8. \A i \in 0 .. m : g[i] \in D[i]
    BY <2>2, <2>4, <2>7
  <2>9. g = [i \in 0 .. m |-> IF i = 0 THEN init ELSE step[<<i, g[i - 1]>>]]
    <3> HIDE DEF g
    <3>1. g = [i \in 0 .. m |-> g[i]]
      BY DEF g
    <3> QED BY <3>1, <2>6
  <2>10. Is(g, m)
    <3> HIDE DEF g
    <3> QED BY <2>8, <2>9
  <2> HIDE DEF g, Is
  <2> QED BY <2>0, <2>10
<1>3. n \in T
  <2> HIDE DEF T
  <2>1. 0 .. n \subseteq T
    BY <1>1, <1>2, UpTo
  <2> QED BY <2>1
<1>4. PICK f : Is(f, n)
  <2> HIDE DEF Is
  <2> QED BY <1>3
<1> QED BY <1>4 DEF Recursive

-----------------------------------------------------------------------------
(* TerminalInput. *)

\* The head and the tail of a queue.
LEMMA HeadTail ==
    ASSUME NEW S, NEW q \in Seq(S), q # <<>>
    PROVE  Head(q) \in S /\ Tail(q) \in Seq(S)
  OBVIOUS

\* The initial state satisfies the invariant.
LEMMA InitInv == Init => InputInv
<1> SUFFICES ASSUME Init PROVE InputInv
    OBVIOUS
<1>1. \A S : <<>> \in Seq(S)
  OBVIOUS
<1>2. TypeOK
  BY <1>1, Shape DEF Init, TypeOK
<1>3. WriterIsExclusive
  BY Shape DEF Init, WriterIsExclusive
<1>4. HalfWritten /\ MessagesWhole
  BY Shape DEF Init, HalfWritten, MessagesWhole
<1> QED
  BY <1>2, <1>3, <1>4 DEF InputInv

-----------------------------------------------------------------------------
(* The type invariant, one step per action. *)

\* With WriterIsExclusive, which makes the message being written one that was
\* typed.
LEMMA TypeStep == TypeOK /\ WriterIsExclusive /\ [Next]_vars => TypeOK'
<1> SUFFICES ASSUME TypeOK, WriterIsExclusive, [Next]_vars PROVE TypeOK'
    OBVIOUS
<1> USE DEF term, wire, handler, tty, sess
<1>0. /\ MaxMsgs \in Nat \ {0} /\ MsgLen \in Nat \ {0} /\ AckCap \in Nat \ {0}
      /\ \A t \in Terminals : SessionOf[t] \in Sessions
  BY Shape
<1>1. ASSUME NEW t \in Terminals, Type(t) PROVE TypeOK'
  <2>1. typed[t] + 1 \in 0 .. MaxMsgs /\ typed[t] + 1 \in 1 .. MaxMsgs
    BY <1>0, <1>1 DEF TypeOK, Type
  <2>2. Append(cmds[t], typed[t] + 1) \in Seq(1 .. MaxMsgs)
    BY <2>1 DEF TypeOK
  <2> QED
    BY <1>1, <2>1, <2>2 DEF TypeOK, Type
<1>2. ASSUME NEW t \in Terminals, SendWriteStdin(t) PROVE TypeOK'
  <2>1. cmds[t] \in Seq(1 .. MaxMsgs) /\ req[t] \in Seq(1 .. MaxMsgs) /\ cmds[t] # <<>>
    BY <1>2 DEF TypeOK, SendWriteStdin
  <2>2. /\ Tail(cmds[t]) \in Seq(1 .. MaxMsgs)
        /\ Head(cmds[t]) \in 1 .. MaxMsgs
    BY <2>1, HeadTail
  <2>3. Append(req[t], Head(cmds[t])) \in Seq(1 .. MaxMsgs)
    BY <2>1, <2>2
  <2>4. cmds' \in [Terminals -> Seq(1 .. MaxMsgs)]
    BY <1>2, <2>2, Zenon DEF TypeOK, SendWriteStdin
  <2>5. req' \in [Terminals -> Seq(1 .. MaxMsgs)]
    BY <1>2, <2>3, Zenon DEF TypeOK, SendWriteStdin
  <2> QED
    BY <1>2, <2>4, <2>5, Zenon DEF TypeOK, SendWriteStdin
<1>3. ASSUME NEW t \in Terminals, ReadAck(t) PROVE TypeOK'
  <2>1. acks[t] - 1 \in 0 .. AckCap
    BY <1>0, <1>3 DEF TypeOK, ReadAck
  <2> QED
    BY <1>3, <2>1 DEF TypeOK, ReadAck
<1>4. ASSUME NEW t \in Terminals, ReadRequest(t) PROVE TypeOK'
  <2>1. req[t] \in Seq(1 .. MaxMsgs) /\ req[t] # <<>>
    BY <1>4 DEF TypeOK, ReadRequest
  <2>2. Tail(req[t]) \in Seq(1 .. MaxMsgs) /\ Head(req[t]) \in 1 .. MaxMsgs
    BY <2>1, HeadTail
  <2>3. Head(req[t]) \in 0 .. MaxMsgs
    BY <1>0, <2>2
  <2>4. req' \in [Terminals -> Seq(1 .. MaxMsgs)]
    BY <1>4, <2>2, Zenon DEF TypeOK, ReadRequest
  <2>5. cur' \in [Terminals -> 0 .. MaxMsgs]
    BY <1>4, <2>3, Zenon DEF TypeOK, ReadRequest
  <2> QED
    BY <1>4, <2>4, <2>5 DEF TypeOK, ReadRequest
<1>5. ASSUME NEW t \in Terminals, LockStore(t) PROVE TypeOK'
  BY <1>5 DEF TypeOK, LockStore
<1>6. ASSUME NEW t \in Terminals, LockWriter(t) PROVE TypeOK'
  BY <1>0, <1>6 DEF TypeOK, LockWriter
<1>7. ASSUME NEW t \in Terminals, WriteUnit(t) PROVE TypeOK'
  <2>a. written[t] \in 0 .. MsgLen /\ cur[t] \in 0 .. MaxMsgs
    BY DEF TypeOK
  <2>b. phase[t] # "idle" /\ written[t] < MsgLen
    BY <1>7 DEF WriteUnit
  <2>c. cur[t] # 0
    BY <2>b DEF WriterIsExclusive
  <2>1. /\ written[t] + 1 \in 0 .. MsgLen /\ written[t] + 1 \in 1 .. MsgLen
        /\ cur[t] \in 1 .. MaxMsgs
    BY <1>0, <2>a, <2>b, <2>c
  <2>2. Unit(t, written[t] + 1) \in Units
    BY <2>1 DEF Unit, Units
  <2>3. Append(fed[SessionOf[t]], Unit(t, written[t] + 1)) \in Seq(Units)
    BY <1>0, <2>2 DEF TypeOK
  <2>4. fed' \in [Sessions -> Seq(Units)]
    BY <1>0, <1>7, <2>3, Zenon DEF TypeOK, WriteUnit
  <2> QED
    BY <1>7, <2>1, <2>4, Zenon DEF TypeOK, WriteUnit
<1>8. ASSUME NEW t \in Terminals, WriteDone(t) \/ WriteFails(t) PROVE TypeOK'
  <2>1. Unlock(t)
    BY <1>8 DEF WriteDone, WriteFails
  <2>2. mutex' \in [Sessions -> Terminals \cup {NoTerminal}]
    BY <1>0, <2>1 DEF TypeOK, Unlock
  <2>3. /\ written' \in [Terminals -> 0 .. MsgLen]
        /\ phase' \in [Terminals -> {"idle", "locking", "holding", "writing", "answering"}]
    BY <1>0, <2>1 DEF TypeOK, Unlock
  <2> QED
    BY <2>1, <2>2, <2>3, Zenon DEF TypeOK, Unlock
<1>9. ASSUME NEW t \in Terminals, SendAck(t) PROVE TypeOK'
  <2>1. acks[t] + 1 \in 0 .. AckCap
    BY <1>0, <1>9 DEF TypeOK, SendAck
  <2> QED
    BY <1>0, <1>9, <2>1 DEF TypeOK, SendAck
<1>10. ASSUME NEW s \in Sessions, SessionStep(s) PROVE TypeOK'
  <2>1. CASE ChildReads(s)
    <3>1. read[s] + 1 \in Nat
      BY DEF TypeOK
    <3> QED
      BY <2>1, <3>1 DEF TypeOK, ChildReads
  <2>2. CASE ChildExits(s)
    BY <2>2 DEF TypeOK, ChildExits
  <2>3. CASE ChildStopsReading(s)
    BY <2>3 DEF TypeOK, ChildStopsReading
  <2>4. CASE RequestStop(s)
    BY <2>4 DEF TypeOK, RequestStop
  <2>5. CASE Stop(s)
    BY <2>5 DEF TypeOK, Stop
  <2> QED
    BY <1>10, <2>1, <2>2, <2>3, <2>4, <2>5 DEF SessionStep
<1>11. CASE UNCHANGED vars
  BY <1>11 DEF TypeOK, vars
<1> QED
  BY <1>1, <1>2, <1>3, <1>4, <1>5, <1>6, <1>7, <1>8, <1>9, <1>10, <1>11
  DEF Next, TerminalStep, HandlerStep, Terminated

-----------------------------------------------------------------------------
(* The writer mutex. *)

LEMMA ExclusiveStep ==
    TypeOK /\ WriterIsExclusive /\ [Next]_vars => WriterIsExclusive'
<1> SUFFICES ASSUME TypeOK, WriterIsExclusive, [Next]_vars PROVE WriterIsExclusive'
    OBVIOUS
<1> USE DEF term, wire, handler, tty, sess
<1>0. /\ NoTerminal \notin Terminals
      /\ \A t \in Terminals : SessionOf[t] \in Sessions
  BY Shape
<1>1. ASSUME NEW t \in Terminals,
             TerminalStep(t) \/ WriteUnit(t)
      PROVE  WriterIsExclusive'
  BY <1>1 DEF WriterIsExclusive, TerminalStep, Type, SendWriteStdin, ReadAck, WriteUnit
<1>2. ASSUME NEW t \in Terminals, ReadRequest(t) PROVE WriterIsExclusive'
  <2>1. Head(req[t]) \in 1 .. MaxMsgs
    BY <1>2, HeadTail DEF TypeOK, ReadRequest
  <2>2. Head(req[t]) # 0
    BY <2>1, Shape
  <2> QED
    BY <1>2, <2>2 DEF TypeOK, WriterIsExclusive, ReadRequest
<1>3. ASSUME NEW t \in Terminals, LockStore(t) \/ SendAck(t) PROVE WriterIsExclusive'
  <2>1. CASE LockStore(t)
    <3>1. /\ phase[t] = "locking" /\ phase'[t] \in {"holding", "answering"}
          /\ \A x \in Terminals : x # t => phase'[x] = phase[x]
          /\ cur' = cur /\ mutex' = mutex
      BY <2>1 DEF TypeOK, LockStore
    <3> QED
      BY <3>1 DEF WriterIsExclusive
  <2>2. CASE SendAck(t)
    <3>1. /\ phase[t] = "answering" /\ phase'[t] = "idle"
          /\ \A x \in Terminals : x # t => phase'[x] = phase[x] /\ cur'[x] = cur[x]
          /\ mutex' = mutex
      BY <2>2 DEF TypeOK, SendAck
    <3> QED
      BY <3>1 DEF WriterIsExclusive
  <2> QED
    BY <1>3, <2>1, <2>2
<1>4. ASSUME NEW t \in Terminals, LockWriter(t) PROVE WriterIsExclusive'
  <2>1. /\ phase[t] = "holding" /\ phase'[t] = "writing"
        /\ \A x \in Terminals : x # t => phase'[x] = phase[x]
        /\ mutex[SessionOf[t]] = NoTerminal /\ mutex'[SessionOf[t]] = t
        /\ \A s \in Sessions : s # SessionOf[t] => mutex'[s] = mutex[s]
        /\ cur' = cur
    BY <1>0, <1>4 DEF TypeOK, LockWriter
  <2> QED
    BY <1>0, <2>1 DEF WriterIsExclusive
<1>5. ASSUME NEW t \in Terminals, WriteDone(t) \/ WriteFails(t)
      PROVE  WriterIsExclusive'
  <2>1. /\ phase[t] = "writing" /\ phase'[t] = "answering"
        /\ \A x \in Terminals : x # t => phase'[x] = phase[x]
        /\ mutex'[SessionOf[t]] = NoTerminal
        /\ \A s \in Sessions : s # SessionOf[t] => mutex'[s] = mutex[s]
        /\ cur' = cur
    BY <1>0, <1>5 DEF TypeOK, WriteDone, WriteFails, Unlock
  <2>2. mutex[SessionOf[t]] = t
    BY <2>1 DEF WriterIsExclusive
  <2> QED
    BY <1>0, <2>1, <2>2 DEF WriterIsExclusive
<1>6. ASSUME NEW s \in Sessions, SessionStep(s) PROVE WriterIsExclusive'
  BY <1>6 DEF WriterIsExclusive, SessionStep, ChildReads, ChildStopsReading,
              ChildExits, RequestStop, Stop
<1>7. CASE UNCHANGED vars
  BY <1>7 DEF WriterIsExclusive, vars
<1> QED
  BY <1>1, <1>2, <1>3, <1>4, <1>5, <1>6, <1>7
  DEF Next, HandlerStep, Terminated

-----------------------------------------------------------------------------
(* What is in the tty. *)

\* One more unit keeps the messages whole, whether it starts a message or goes
\* on with the one at the end.
LEMMA WholeStep ==
    ASSUME TypeOK, WriterIsExclusive, HalfWritten, MessagesWhole,
           NEW t \in Terminals, WriteUnit(t)
    PROVE  HalfWritten' /\ MessagesWhole'
<1> DEFINE s == SessionOf[t]
           u == Unit(t, written[t] + 1)
           f == fed[s]
<1>0. /\ MsgLen \in Nat \ {0} /\ NoTerminal \notin Terminals
      /\ s \in Sessions /\ \A x \in Terminals : SessionOf[x] \in Sessions
  BY Shape
<1>1. /\ phase[t] = "writing" /\ mutex[s] = t /\ child[s] # "dead"
      /\ fed' = [fed EXCEPT ![s] = Append(f, u)]
      /\ written' = [written EXCEPT ![t] = @ + 1]
      /\ written[t] \in Nat /\ written[t] < MsgLen
      /\ UNCHANGED <<phase, cur, mutex, child>>
  BY DEF WriteUnit, TypeOK, WriterIsExclusive, handler, tty, sess
<1>2. f \in Seq(Units) /\ Len(f) \in Nat
  BY <1>0 DEF TypeOK
<1>3. u = [from |-> t, msg |-> cur[t], part |-> written[t] + 1]
  BY DEF Unit
<1>4. /\ Len(Append(f, u)) = Len(f) + 1
      /\ Append(f, u)[Len(f) + 1] = u
      /\ \A i \in 1 .. Len(f) : Append(f, u)[i] = f[i]
  BY <1>2
<1>5. f # <<>> /\ written[t] > 0 => f[Len(f)] = Unit(t, written[t])
  BY DEF HalfWritten
<1>6. f # <<>> /\ written[t] = 0 => f[Len(f)].part = MsgLen
  <2> SUFFICES ASSUME f # <<>>, written[t] = 0 PROVE f[Len(f)].part = MsgLen
      OBVIOUS
  <2>1. ~(f[Len(f)].part < MsgLen)
    BY <1>0, <1>1 DEF HalfWritten
  <2>2. f[Len(f)] \in Units
    BY <1>2
  <2>3. f[Len(f)].part \in 1 .. MsgLen
    BY <2>2 DEF Units
  <2> QED
    BY <1>0, <2>1, <2>3
<1>7. MessagesWhole'
  <2> SUFFICES ASSUME NEW r \in Sessions, NEW i \in 1 .. Len(fed'[r]) - 1
               PROVE  LET v == fed'[r][i]
                      IN  fed'[r][i + 1] =
                              IF v.part < MsgLen THEN [v EXCEPT !.part = @ + 1]
                              ELSE [fed'[r][i + 1] EXCEPT !.part = 1]
      BY DEF MessagesWhole
  <2>1. CASE r # s
    <3>1. fed'[r] = fed[r]
      BY <1>0, <1>1, <2>1 DEF TypeOK
    <3> QED
      BY <3>1 DEF MessagesWhole
  <2>2. CASE r = s /\ i < Len(f)
    <3>1. i \in 1 .. Len(f) - 1 /\ i + 1 \in 1 .. Len(f) /\ i \in 1 .. Len(f)
      BY <1>2, <2>2
    <3>2. fed'[r] = Append(f, u)
      BY <1>0, <1>1, <2>2 DEF TypeOK
    <3>3. fed'[r][i] = f[i] /\ fed'[r][i + 1] = f[i + 1]
      BY <1>4, <3>1, <3>2
    <3> QED
      BY <1>0, <3>1, <3>3 DEF MessagesWhole
  <2>3. CASE r = s /\ ~(i < Len(f))
    <3>1. fed'[r] = Append(f, u)
      BY <1>0, <1>1, <2>3 DEF TypeOK
    <3>2. i = Len(f) /\ Len(f) \in 1 .. Len(f)
      BY <1>2, <1>4, <2>3, <3>1
    <3>3. fed'[r][i] = f[Len(f)] /\ fed'[r][i + 1] = u /\ f # <<>>
      BY <1>2, <1>4, <3>1, <3>2
    <3>4. CASE written[t] = 0
      <4>1. f[Len(f)].part = MsgLen /\ u.part = 1
        BY <1>3, <1>6, <3>3, <3>4
      <4>2. u = [u EXCEPT !.part = 1]
        BY <1>3, <4>1
      <4> QED
        BY <1>0, <3>3, <4>1, <4>2
    <3>5. CASE written[t] # 0
      <4>1. f[Len(f)] = [from |-> t, msg |-> cur[t], part |-> written[t]]
        BY <1>1, <1>5, <3>3, <3>5 DEF Unit
      <4>2. /\ f[Len(f)].part < MsgLen
            /\ u = [f[Len(f)] EXCEPT !.part = @ + 1]
        BY <1>1, <1>3, <4>1
      <4> QED
        BY <3>3, <4>2
    <3> QED
      BY <3>4, <3>5
  <2> QED
    BY <2>1, <2>2, <2>3
<1>8. /\ fed'[s] = Append(f, u) /\ \A r \in Sessions : r # s => fed'[r] = fed[r]
      /\ written'[t] = written[t] + 1
      /\ \A x \in Terminals : x # t => written'[x] = written[x]
  BY <1>0, <1>1 DEF TypeOK
<1>9. Append(f, u) # <<>> /\ Append(f, u)[Len(Append(f, u))] = u
  BY <1>2, <1>4
<1>10. ASSUME NEW x \in Terminals, written'[x] > 0
       PROVE  LET g == fed'[SessionOf[x]]
              IN  phase'[x] = "writing" /\ g # <<>> /\ g[Len(g)] = Unit(x, written[x])'
  <2>1. CASE x = t
    BY <1>1, <1>8, <1>9, <2>1 DEF Unit
  <2>2. CASE x # t
    <3>1. written[x] > 0 /\ written'[x] = written[x]
      BY <1>8, <1>10, <2>2
    <3>2. phase[x] = "writing" /\ mutex[SessionOf[x]] = x
      BY <3>1 DEF HalfWritten, WriterIsExclusive
    <3>3. SessionOf[x] # s
      BY <1>1, <2>2, <3>2
    <3>4. fed'[SessionOf[x]] = fed[SessionOf[x]]
      BY <1>0, <1>8, <3>3
    <3> QED
      BY <1>1, <3>1, <3>4 DEF HalfWritten, Unit
  <2> QED
    BY <2>1, <2>2
<1>11. ASSUME NEW r \in Sessions,
              child'[r] # "dead", fed'[r] # <<>>,
              fed'[r][Len(fed'[r])].part < MsgLen
       PROVE  mutex'[r] \in Terminals /\ written'[mutex'[r]] > 0
  <2>1. CASE r = s
    BY <1>1, <1>8, <2>1
  <2>2. CASE r # s
    <3>1. mutex[r] \in Terminals /\ written[mutex[r]] > 0
      BY <1>1, <1>8, <1>11, <2>2 DEF HalfWritten
    <3>2. SessionOf[mutex[r]] = r
      BY <1>0, <3>1 DEF WriterIsExclusive
    <3> QED
      BY <1>1, <1>8, <2>2, <3>1, <3>2
  <2> QED
    BY <2>1, <2>2
<1>12. HalfWritten'
  BY <1>10, <1>11 DEF HalfWritten
<1> QED
  BY <1>7, <1>12

\* Every other action leaves the ttys and the messages being written alone, or
\* ends a write: by then the message is complete or the child is dead.
LEMMA OtherStep ==
    ASSUME TypeOK, WriterIsExclusive, HalfWritten, MessagesWhole, [Next]_vars,
           \A t \in Terminals : ~WriteUnit(t)
    PROVE  HalfWritten' /\ MessagesWhole'
<1> USE DEF term, wire, handler, tty, sess
<1>0. /\ MsgLen \in Nat \ {0} /\ NoTerminal \notin Terminals
      /\ \A x \in Terminals : SessionOf[x] \in Sessions
  BY Shape
<1>1. fed' = fed
  BY DEF Next, TerminalStep, HandlerStep, SessionStep, Terminated, vars, Type,
         SendWriteStdin, ReadAck, ReadRequest, LockStore, LockWriter, WriteDone,
         WriteFails, Unlock, SendAck, ChildReads, ChildStopsReading, ChildExits,
         RequestStop, Stop
<1>2. MessagesWhole'
  BY <1>1 DEF MessagesWhole
<1>3. ASSUME UNCHANGED <<phase, cur, written, mutex>>,
             \A s \in Sessions : child'[s] # "dead" => child[s] # "dead"
      PROVE  HalfWritten'
  BY <1>1, <1>3 DEF HalfWritten, Unit
<1>4. ASSUME NEW t \in Terminals,
             phase[t] # "writing", written' = written,
             \A x \in Terminals : x # t => phase'[x] = phase[x] /\ cur'[x] = cur[x],
             \A s \in Sessions : mutex'[s] # mutex[s] => mutex[s] = NoTerminal,
             child' = child
      PROVE  HalfWritten'
  <2>1. ~(written[t] > 0)
    BY <1>4 DEF HalfWritten
  <2>2. ASSUME NEW x \in Terminals, written'[x] > 0
        PROVE  LET g == fed'[SessionOf[x]]
               IN  phase'[x] = "writing" /\ g # <<>> /\ g[Len(g)] = Unit(x, written[x])'
    BY <1>1, <1>4, <2>1, <2>2 DEF HalfWritten, Unit
  <2>3. ASSUME NEW r \in Sessions, child'[r] # "dead", fed'[r] # <<>>,
               fed'[r][Len(fed'[r])].part < MsgLen
        PROVE  mutex'[r] \in Terminals /\ written'[mutex'[r]] > 0
    <3>1. mutex[r] \in Terminals /\ written[mutex[r]] > 0
      BY <1>1, <1>4, <2>3 DEF HalfWritten
    <3> QED
      BY <1>0, <1>4, <3>1
  <2> QED
    BY <2>2, <2>3 DEF HalfWritten
<1>5. ASSUME NEW t \in Terminals, WriteDone(t) \/ WriteFails(t) PROVE HalfWritten'
  <2>1. /\ phase[t] = "writing" /\ mutex[SessionOf[t]] = t
        /\ written'[t] = 0
        /\ \A x \in Terminals : x # t => /\ phase'[x] = phase[x]
                                         /\ written'[x] = written[x]
        /\ mutex'[SessionOf[t]] = NoTerminal
        /\ \A s \in Sessions : s # SessionOf[t] => mutex'[s] = mutex[s]
        /\ cur' = cur /\ child' = child
    BY <1>0, <1>5 DEF TypeOK, WriterIsExclusive, WriteDone, WriteFails, Unlock
  <2>2. child[SessionOf[t]] = "dead" \/ written[t] = MsgLen
    BY <1>5 DEF WriteDone, WriteFails
  <2>3. ASSUME NEW x \in Terminals, written'[x] > 0
        PROVE  LET g == fed'[SessionOf[x]]
               IN  phase'[x] = "writing" /\ g # <<>> /\ g[Len(g)] = Unit(x, written[x])'
    <3>1. x # t
      BY <2>1, <2>3
    <3> QED
      BY <1>1, <2>1, <2>3, <3>1 DEF HalfWritten, Unit
  <2>4. ASSUME NEW r \in Sessions, child'[r] # "dead", fed'[r] # <<>>,
               fed'[r][Len(fed'[r])].part < MsgLen
        PROVE  mutex'[r] \in Terminals /\ written'[mutex'[r]] > 0
    <3>1. mutex[r] \in Terminals /\ written[mutex[r]] > 0
      BY <1>1, <2>1, <2>4 DEF HalfWritten
    <3>2. SessionOf[mutex[r]] = r
      BY <1>0, <3>1 DEF WriterIsExclusive
    <3>3. r # SessionOf[t]
      <4> SUFFICES ASSUME r = SessionOf[t] PROVE FALSE
          OBVIOUS
      <4>1. written[t] = MsgLen /\ mutex[r] = t
        BY <2>1, <2>2, <2>4
      <4>2. fed[r][Len(fed[r])] = Unit(t, MsgLen)
        BY <3>1, <4>1 DEF HalfWritten
      <4>3. fed[r][Len(fed[r])].part = MsgLen
        BY <4>2 DEF Unit
      <4> QED
        BY <1>0, <1>1, <2>4, <4>3
    <3> QED
      BY <2>1, <3>1, <3>2, <3>3
  <2> QED
    BY <2>3, <2>4 DEF HalfWritten
<1>6. ASSUME NEW t \in Terminals, TerminalStep(t) PROVE HalfWritten'
  BY <1>3, <1>6 DEF TerminalStep, Type, SendWriteStdin, ReadAck
<1>7. ASSUME NEW t \in Terminals,
             ReadRequest(t) \/ LockStore(t) \/ SendAck(t)
      PROVE  HalfWritten'
  <2>1. /\ phase[t] # "writing" /\ written' = written /\ mutex' = mutex /\ child' = child
        /\ \A x \in Terminals : x # t => phase'[x] = phase[x] /\ cur'[x] = cur[x]
    BY <1>7 DEF TypeOK, ReadRequest, LockStore, SendAck
  <2> QED
    BY <1>4, <2>1
<1>8. ASSUME NEW t \in Terminals, LockWriter(t) PROVE HalfWritten'
  <2>1. /\ phase[t] # "writing" /\ written' = written /\ child' = child
        /\ \A x \in Terminals : x # t => phase'[x] = phase[x] /\ cur'[x] = cur[x]
        /\ \A s \in Sessions : mutex'[s] # mutex[s] => mutex[s] = NoTerminal
    BY <1>0, <1>8 DEF TypeOK, LockWriter
  <2> QED
    BY <1>4, <2>1
<1>9. ASSUME NEW s \in Sessions, SessionStep(s) PROVE HalfWritten'
  <2>1. /\ UNCHANGED <<phase, cur, written, mutex>>
        /\ \A r \in Sessions : child'[r] # "dead" => child[r] # "dead"
    BY <1>9 DEF TypeOK, SessionStep, ChildReads, ChildStopsReading, ChildExits,
                RequestStop, Stop
  <2> QED
    BY <1>3, <2>1
<1>10. ASSUME UNCHANGED vars PROVE HalfWritten'
  <2>1. UNCHANGED <<phase, cur, written, mutex>> /\ child' = child
    BY <1>10 DEF vars
  <2> QED
    BY <1>3, <2>1
<1>11. HalfWritten'
  BY <1>5, <1>6, <1>7, <1>8, <1>9, <1>10 DEF Next, HandlerStep, Terminated
<1> QED
  BY <1>2, <1>11

-----------------------------------------------------------------------------
(* The theorems. *)

\* InputInv is an invariant.
THEOREM InputInvariant == Spec => []InputInv
<1>1. InputInv /\ [Next]_vars => InputInv'
  <2> SUFFICES ASSUME InputInv, [Next]_vars PROVE InputInv'
      OBVIOUS
  <2>1. TypeOK' /\ WriterIsExclusive'
    BY TypeStep, ExclusiveStep DEF InputInv
  <2>2. HalfWritten' /\ MessagesWhole'
    BY WholeStep, OtherStep DEF InputInv
  <2> QED
    BY <2>1, <2>2 DEF InputInv
<1> QED
  BY InitInv, <1>1, PTL DEF Spec

\* The variables always have their types: messages in the queues and the socket
\* are typed ones, and answers never exceed the socket.
THEOREM InputTypeCorrect == Spec => []TypeOK
<1>1. InputInv => TypeOK
  BY DEF InputInv
<1> QED
  BY <1>1, InputInvariant, PTL

\* ManagedPty's writer mutex is enough: the messages of any number of terminals
\* typing into a session are never mixed in its tty, whatever fills up and
\* whoever dies or is stopped meanwhile.
THEOREM MessagesStayWhole == Spec => []MessagesWhole
<1>1. InputInv => MessagesWhole
  BY DEF InputInv
<1> QED
  BY <1>1, InputInvariant, PTL

-----------------------------------------------------------------------------
(* TerminalInput implements InputPipe: queues. *)

\* A queue is its head before its tail.
LEMMA HeadThenTail ==
    ASSUME NEW S, NEW q \in Seq(S), q # <<>>
    PROVE  q = <<Head(q)>> \o Tail(q)
<1>1. Len(q) \in Nat \ {0}
  BY EmptySeq
<1>2. 1 \in 1 .. Len(q) /\ Len(q) \in 1 .. Len(q)
  BY <1>1
<1>3. SubSeq(q, 1, Len(q)) = <<q[1]>> \o SubSeq(q, 1 + 1, Len(q))
  BY <1>2, SubSeqRecursiveFirst
<1>4. 1 + 1 = 2 /\ Head(q) = q[1]
  OBVIOUS
<1> QED
  BY <1>3, <1>4, SubSeqFull, TailIsSubSeq

\* What is put before a queue is its head.
LEMMA PutBefore ==
    ASSUME NEW S, NEW x \in S, NEW q \in Seq(S)
    PROVE  /\ <<x>> \o q \in Seq(S) /\ <<x>> \o q # <<>>
           /\ Head(<<x>> \o q) = x /\ Tail(<<x>> \o q) = q
<1> DEFINE one == <<x>>
<1>1. one \in Seq(S) /\ Len(one) = 1 /\ one[1] = x
  OBVIOUS
<1> HIDE DEF one
<1> DEFINE both == one \o q
<1>2. /\ both \in Seq(S) /\ Len(both) = 1 + Len(q)
      /\ \A i \in 1 .. 1 + Len(q) : both[i] = IF i <= 1 THEN one[i] ELSE q[i - 1]
  <2>1. /\ both \in Seq(S) /\ Len(both) = Len(one) + Len(q)
        /\ \A i \in 1 .. Len(one) + Len(q) :
              both[i] = IF i <= Len(one) THEN one[i] ELSE q[i - Len(one)]
    BY <1>1, ConcatProperties
  <2> HIDE DEF both
  <2> QED
    BY <2>1, <1>1
<1> HIDE DEF both
<1>3. Len(q) \in Nat
  OBVIOUS
<1>4. both # <<>> /\ Head(both) = x
  <2>1. Len(both) # 0 /\ both[1] = x
    BY <1>1, <1>2, <1>3
  <2>2. both # <<>>
    BY <2>1, EmptySeq
  <2> QED
    BY <2>1, <2>2
<1>5. /\ Tail(both) \in Seq(S) /\ Len(Tail(both)) = Len(both) - 1
      /\ \A i \in 1 .. Len(Tail(both)) : Tail(both)[i] = both[i + 1]
  BY <1>2, <1>4, HeadTailProperties
<1>6. Tail(both) = q
  <2>1. Len(Tail(both)) = Len(q)
    BY <1>2, <1>3, <1>5
  <2>2. \A i \in 1 .. Len(q) : Tail(both)[i] = q[i]
    <3> SUFFICES ASSUME NEW i \in 1 .. Len(q) PROVE Tail(both)[i] = q[i]
        OBVIOUS
    <3>1. Tail(both)[i] = both[i + 1]
      BY <2>1, <1>5
    <3>2. i + 1 \in 1 .. 1 + Len(q) /\ ~(i + 1 <= 1) /\ (i + 1) - 1 = i
      BY <1>3
    <3> QED
      BY <3>1, <3>2, <1>2
  <2> QED
    BY <2>1, <2>2, <1>5, SeqEqual
<1> QED
  BY <1>2, <1>4, <1>6 DEF both, one

\* The same before two queues.
LEMMA PutBeforeTwo ==
    ASSUME NEW S, NEW x \in S, NEW p \in Seq(S), NEW q \in Seq(S)
    PROVE  /\ <<x>> \o p \o q # <<>>
           /\ Head(<<x>> \o p \o q) = x /\ Tail(<<x>> \o p \o q) = <<>> \o p \o q
<1>1. <<x>> \in Seq(S) /\ p \o q \in Seq(S) /\ <<>> \o p = p
  BY ConcatProperties, ConcatEmptySeq
<1>2. <<x>> \o p \o q = <<x>> \o (p \o q)
  BY <1>1, ConcatAssociative
<1> DEFINE pq == p \o q
<1> HIDE DEF pq
<1>3. <<x>> \o pq # <<>> /\ Head(<<x>> \o pq) = x /\ Tail(<<x>> \o pq) = pq
  BY <1>1, PutBefore DEF pq
<1> QED
  BY <1>1, <1>2, <1>3 DEF pq

\* Moving the head of one queue to the end of the queue before it moves nothing.
LEMMA MovedOver ==
    ASSUME NEW S, NEW p \in Seq(S), NEW q \in Seq(S), q # <<>>
    PROVE  Append(p, Head(q)) \o Tail(q) = p \o q
<1>1. Head(q) \in S /\ Tail(q) \in Seq(S)
  BY HeadTailProperties
<1>a. q = <<Head(q)>> \o Tail(q)
  BY HeadThenTail
<1> DEFINE h == Head(q)
           r == Tail(q)
<1>2. q = <<h>> \o r
  BY <1>a
<1> HIDE DEF h, r
<1>3. <<h>> \in Seq(S) /\ r \in Seq(S) /\ h \in S
  BY <1>1 DEF h, r
<1>4. Append(p, h) = p \o <<h>>
  BY <1>3, AppendIsConcat
<1>5. (p \o <<h>>) \o r = p \o (<<h>> \o r)
  BY <1>3, ConcatAssociative
<1> QED
  BY <1>2, <1>4, <1>5 DEF h, r

\* What is added to the last of three queues is added to all.
LEMMA AddedLast ==
    ASSUME NEW S, NEW o \in Seq(S), NEW p \in Seq(S), NEW q \in Seq(S), NEW x \in S
    PROVE  o \o p \o Append(q, x) = Append(o \o p \o q, x)
<1> DEFINE op == o \o p
<1>1. op \in Seq(S) /\ <<x>> \in Seq(S)
  BY ConcatProperties
<1> HIDE DEF op
<1>2. op \o q \in Seq(S)
  BY <1>1, ConcatProperties
<1>3. Append(q, x) = q \o <<x>> /\ Append(op \o q, x) = (op \o q) \o <<x>>
  BY <1>2, AppendIsConcat
<1>4. (op \o q) \o <<x>> = op \o (q \o <<x>>)
  BY <1>1, ConcatAssociative
<1> QED
  BY <1>3, <1>4 DEF op

\* A unit more in the tty is a message more if it is a last unit.
LEMMA WholeAppend ==
    ASSUME NEW f \in Seq(Units), NEW u \in Units
    PROVE  Whole(Append(f, u)) = IF u.part < MsgLen THEN Whole(f)
                                 ELSE Append(Whole(f), <<u.from, u.msg>>)
<1> DEFINE Msgs    == Seq(Terminals \X (1 .. MaxMsgs))
           Is(h, g) == h = [n \in 0 .. Len(g) |->
                               IF n = 0 THEN <<>>
                               ELSE IF g[n].part < MsgLen THEN h[n - 1]
                               ELSE Append(h[n - 1], <<g[n].from, g[n].msg>>)]
<1>1. ASSUME NEW g \in Seq(Units) PROVE \E h : Is(h, g)
  <2> DEFINE step == [ix \in (1 .. Len(g)) \X Msgs |->
                         IF g[ix[1]].part < MsgLen THEN ix[2]
                         ELSE Append(ix[2], <<g[ix[1]].from, g[ix[1]].msg>>)]
             D == [i \in 0 .. Len(g) |-> Msgs]
  <2>1. <<>> \in D[0] /\ Len(g) \in Nat
    OBVIOUS
  <2>2. \A i \in 1 .. Len(g) : \A x \in Msgs :
           /\ step[<<i, x>>] = IF g[i].part < MsgLen THEN x
                               ELSE Append(x, <<g[i].from, g[i].msg>>)
           /\ step[<<i, x>>] \in Msgs
    <3> SUFFICES ASSUME NEW i \in 1 .. Len(g), NEW x \in Msgs
                 PROVE  /\ step[<<i, x>>] = IF g[i].part < MsgLen THEN x
                                            ELSE Append(x, <<g[i].from, g[i].msg>>)
                        /\ step[<<i, x>>] \in Msgs
        OBVIOUS
    <3>1. step[<<i, x>>] = IF g[i].part < MsgLen THEN x
                           ELSE Append(x, <<g[i].from, g[i].msg>>)
      <4> HIDE DEF Msgs
      <4> QED OBVIOUS
    <3>2. g[i] \in Units
      OBVIOUS
    <3>3. <<g[i].from, g[i].msg>> \in Terminals \X (1 .. MaxMsgs)
      BY <3>2 DEF Units
    <3> HIDE DEF step
    <3> QED BY <3>1, <3>3
  <2>3. \A i \in 0 .. Len(g) : D[i] = Msgs
    OBVIOUS
  <2>4. \A i \in 1 .. Len(g) : i \in 0 .. Len(g) /\ i - 1 \in 0 .. Len(g)
    BY <2>1
  <2> HIDE DEF step, D, Msgs
  <2>5. \A i \in 1 .. Len(g) : \A x \in D[i - 1] : step[<<i, x>>] \in D[i]
    BY <2>2, <2>3, <2>4
  <2>6. PICK h : /\ Recursive(h, Len(g), <<>>, step)
                 /\ \A i \in 0 .. Len(g) : h[i] \in D[i]
    BY <2>1, <2>5, Recursion
  <2>7. h = [i \in 0 .. Len(g) |-> IF i = 0 THEN <<>> ELSE step[<<i, h[i - 1]>>]]
    BY <2>6 DEF Recursive
  <2>8. \A i \in 0 .. Len(g) : i = 0 \/ (i \in 1 .. Len(g) /\ h[i - 1] \in Msgs)
    BY <2>1, <2>3, <2>4, <2>6
  <2>9. Is(h, g)
    <3>1. \A i \in 0 .. Len(g) :
             h[i] = IF i = 0 THEN <<>>
                    ELSE IF g[i].part < MsgLen THEN h[i - 1]
                    ELSE Append(h[i - 1], <<g[i].from, g[i].msg>>)
      BY <2>2, <2>7, <2>8
    <3>2. h = [i \in 0 .. Len(g) |-> h[i]]
      BY <2>7
    <3> QED BY <3>1, <3>2
  <2> QED BY <2>9
<1>2. \A g : Whole(g) = (CHOOSE h : Is(h, g))[Len(g)]
  BY Zenon DEF Whole
<1> DEFINE g == Append(f, u)
<1>3. /\ g \in Seq(Units) /\ Len(g) = Len(f) + 1 /\ Len(f) \in Nat
      /\ \A i \in 1 .. Len(f) : g[i] = f[i]
      /\ g[Len(f) + 1] = u
  BY AppendProperties
<1> HIDE DEF g
<1>4. PICK F : Is(F, f) /\ F = CHOOSE h : Is(h, f)
  <2> HIDE DEF Is
  <2> QED BY <1>1
<1>5. PICK G : Is(G, g) /\ G = CHOOSE h : Is(h, g)
  <2> HIDE DEF Is
  <2> QED BY <1>1, <1>3
<1>a. \A i \in 0 .. Len(f) :
        F[i] = IF i = 0 THEN <<>>
               ELSE IF f[i].part < MsgLen THEN F[i - 1]
               ELSE Append(F[i - 1], <<f[i].from, f[i].msg>>)
  BY <1>4
<1>b. \A i \in 0 .. Len(g) :
        G[i] = IF i = 0 THEN <<>>
               ELSE IF g[i].part < MsgLen THEN G[i - 1]
               ELSE Append(G[i - 1], <<g[i].from, g[i].msg>>)
  BY <1>5
<1> HIDE DEF Is
<1>6. \A i \in 0 .. Len(f) : G[i] = F[i]
  <2> DEFINE T == {i \in 0 .. Len(f) : G[i] = F[i]}
  <2>1. 0 \in T
    <3>1. 0 \in 0 .. Len(f) /\ 0 \in 0 .. Len(g)
      BY <1>3
    <3> QED BY <3>1, <1>a, <1>b
  <2>2. ASSUME NEW i \in 1 .. Len(f), i - 1 \in T PROVE i \in T
    <3>1. i \in 0 .. Len(f) /\ i \in 0 .. Len(g) /\ i # 0 /\ g[i] = f[i]
      BY <1>3
    <3>2. G[i - 1] = F[i - 1]
      BY <2>2
    <3> QED BY <3>1, <3>2, <1>a, <1>b
  <2> HIDE DEF T
  <2>3. 0 .. Len(f) \subseteq T
    BY <2>1, <2>2, <1>3, UpTo
  <2> QED BY <2>3 DEF T
<1>7. G[Len(g)] = IF u.part < MsgLen THEN F[Len(f)]
                  ELSE Append(F[Len(f)], <<u.from, u.msg>>)
  <2>1. /\ Len(g) \in 0 .. Len(g) /\ Len(g) # 0 /\ Len(g) - 1 = Len(f)
        /\ Len(f) \in 0 .. Len(f) /\ g[Len(g)] = u
    BY <1>3
  <2> QED BY <2>1, <1>b, <1>6
<1>8. Whole(f) = F[Len(f)] /\ Whole(g) = G[Len(g)]
  BY <1>2, <1>4, <1>5
<1> QED BY <1>7, <1>8 DEF g

\* Nothing in the tty is no message.
LEMMA EmptyWhole == Whole(<<>>) = <<>>
<1> DEFINE Is(h) == h = [n \in 0 .. 0 |->
                            IF n = 0 THEN <<>>
                            ELSE IF <<>>[n].part < MsgLen THEN h[n - 1]
                            ELSE Append(h[n - 1], <<<<>>[n].from, <<>>[n].msg>>)]
<1>1. Len(<<>>) = 0
  OBVIOUS
<1>2. Whole(<<>>) = (CHOOSE h : Is(h))[0]
  BY <1>1, Zenon DEF Whole
<1>3. Is([n \in 0 .. 0 |-> <<>>])
  <2>1. \A n \in 0 .. 0 : n = 0
    OBVIOUS
  <2> QED BY <2>1
<1>4. \A h : Is(h) => h[0] = <<>>
  OBVIOUS
<1> HIDE DEF Is
<1> QED BY <1>2, <1>3, <1>4

-----------------------------------------------------------------------------
(* TerminalInput implements InputPipe: the steps. *)

\* The message a handler has taken and not yet passed on whole.
Served(t) == IF \/ phase[t] \in {"locking", "holding"}
                \/ phase[t] = "writing" /\ written[t] < MsgLen
             THEN <<cur[t]>> ELSE <<>>

\* A handler that has taken a message has one that was typed.
LEMMA QueuesAre ==
    ASSUME TypeOK, WriterIsExclusive, NEW t \in Terminals
    PROVE  /\ PendingOf(t) = Served(t) \o req[t] \o cmds[t]
           /\ Served(t) \in Seq(1 .. MaxMsgs)
           /\ req[t] \in Seq(1 .. MaxMsgs) /\ cmds[t] \in Seq(1 .. MaxMsgs)
           /\ phase[t] # "idle" => cur[t] \in 1 .. MaxMsgs
<1>1. phase[t] # "idle" => cur[t] \in 1 .. MaxMsgs
  BY Shape DEF TypeOK, WriterIsExclusive
<1>2. Served(t) \in Seq(1 .. MaxMsgs)
  <2> DEFINE x == cur[t]
             M == 1 .. MaxMsgs
  <2>1. Served(t) = <<>> \/ (Served(t) = <<x>> /\ x \in M)
    BY <1>1 DEF Served
  <2> HIDE DEF x, M
  <2>2. x \in M => <<x>> \in Seq(M)
    OBVIOUS
  <2>3. <<>> \in Seq(M)
    OBVIOUS
  <2>4. Served(t) \in Seq(M)
    BY <2>1, <2>2, <2>3
  <2> QED
    BY <2>4 DEF M
<1> QED
  BY <1>1, <1>2 DEF PendingOf, Served, TypeOK

\* What may change of the pipe when nothing is typed: nothing, or the first
\* message of a terminal leaves it, lost or into the session.
LEMMA PipeStutters ==
    ASSUME UNCHANGED <<typed, child>>,
           \A t \in Terminals : PendingOf(t)' = PendingOf(t),
           \A s \in Sessions : InputOf(s)' = InputOf(s)
    PROVE  UNCHANGED Pipe!vars
  BY DEF Pipe!vars

LEMMA PipeLoses ==
    ASSUME NEW t \in Terminals, UNCHANGED <<typed, child>>,
           PendingOf(t) # <<>>, PendingOf(t)' = Tail(PendingOf(t)),
           \A x \in Terminals \ {t} : PendingOf(x)' = PendingOf(x),
           \A s \in Sessions : InputOf(s)' = InputOf(s)
    PROVE  Pipe!Next
<1>1. Pipe!Lose(t)
  BY DEF Pipe!Lose
<1> QED
  BY <1>1 DEF Pipe!Next

LEMMA PipeDelivers ==
    ASSUME NEW t \in Terminals, UNCHANGED <<typed, child>>,
           PendingOf(t) # <<>>, PendingOf(t)' = Tail(PendingOf(t)),
           \A x \in Terminals \ {t} : PendingOf(x)' = PendingOf(x),
           InputOf(SessionOf[t])' = Append(InputOf(SessionOf[t]),
                                           <<t, Head(PendingOf(t))>>),
           \A s \in Sessions \ {SessionOf[t]} : InputOf(s)' = InputOf(s)
    PROVE  Pipe!Next
<1>1. Pipe!Deliver(t)
  BY Shape DEF Pipe!Deliver
<1> QED
  BY <1>1 DEF Pipe!Next

\* What is served is the first of what is pending; without it the rest is.
LEMMA ServedFirst ==
    ASSUME TypeOK, WriterIsExclusive, NEW t \in Terminals, Served(t) # <<>>
    PROVE  /\ PendingOf(t) # <<>> /\ Head(PendingOf(t)) = cur[t]
           /\ Tail(PendingOf(t)) = <<>> \o req[t] \o cmds[t]
<1>1. Served(t) = <<cur[t]>> /\ cur[t] \in 1 .. MaxMsgs
  BY QueuesAre DEF Served
<1>2. req[t] \in Seq(1 .. MaxMsgs) /\ cmds[t] \in Seq(1 .. MaxMsgs)
  BY QueuesAre
<1>3. PendingOf(t) = <<cur[t]>> \o req[t] \o cmds[t]
  BY <1>1, QueuesAre
<1> DEFINE M == 1 .. MaxMsgs
           x == cur[t]
           p == req[t]
           q == cmds[t]
<1>4. x \in M /\ p \in Seq(M) /\ q \in Seq(M)
  BY <1>1, <1>2
<1> HIDE DEF M, x, p, q
<1>5. /\ <<x>> \o p \o q # <<>>
      /\ Head(<<x>> \o p \o q) = x /\ Tail(<<x>> \o p \o q) = <<>> \o p \o q
  BY <1>4, PutBeforeTwo
<1> QED
  BY <1>3, <1>5 DEF x, p, q

\* Another terminal's step leaves a terminal's messages alone.
LEMMA OthersKeep ==
    ASSUME NEW x \in Terminals,
           UNCHANGED <<req[x], cmds[x], phase[x], cur[x], written[x]>>
    PROVE  PendingOf(x)' = PendingOf(x)
  BY DEF PendingOf

\* A step on the way of a message, from the queue to the socket, from the
\* socket to the handler, in the handler, leaves what is pending as it is.
LEMMA OnItsWay ==
    ASSUME TypeOK, WriterIsExclusive, HalfWritten, NEW t \in Terminals,
           \/ SendWriteStdin(t) \/ ReadAck(t) \/ ReadRequest(t) \/ LockWriter(t)
           \/ WriteDone(t) \/ SendAck(t)
           \/ LockStore(t) /\ running[SessionOf[t]]
    PROVE  UNCHANGED Pipe!vars
<1> USE DEF term, wire, handler, tty, sess
<1>1. UNCHANGED <<typed, fed, child>>
  BY DEF SendWriteStdin, ReadAck, ReadRequest, LockWriter, WriteDone, Unlock, SendAck, LockStore
<1>2. \A x \in Terminals \ {t} : PendingOf(x)' = PendingOf(x)
  <2> SUFFICES ASSUME NEW x \in Terminals \ {t}
               PROVE  UNCHANGED <<req[x], cmds[x], phase[x], cur[x], written[x]>>
      BY OthersKeep
  <2> QED
    BY DEF TypeOK, SendWriteStdin, ReadAck, ReadRequest, LockWriter, WriteDone, Unlock, SendAck, LockStore
<1>3. PendingOf(t)' = Served(t)' \o req'[t] \o cmds'[t]
  BY DEF PendingOf, Served
<1>4. /\ PendingOf(t) = Served(t) \o req[t] \o cmds[t]
      /\ Served(t) \in Seq(1 .. MaxMsgs)
      /\ req[t] \in Seq(1 .. MaxMsgs) /\ cmds[t] \in Seq(1 .. MaxMsgs)
  BY QueuesAre
<1>5. CASE SendWriteStdin(t)
  <2>1. Served(t)' = Served(t)
    BY <1>5 DEF SendWriteStdin, Served
  <2>2. /\ req'[t] = Append(req[t], Head(cmds[t])) /\ cmds'[t] = Tail(cmds[t])
        /\ cmds[t] # <<>>
    BY <1>5 DEF SendWriteStdin, TypeOK
  <2>3. Served(t) \o req'[t] \o cmds'[t] = Served(t) \o req[t] \o cmds[t]
    <3> DEFINE M == 1 .. MaxMsgs
               o == Served(t)
               p == req[t]
               q == cmds[t]
               ph == req'[t]
               r == cmds'[t]
    <3>1. /\ o \in Seq(M) /\ p \in Seq(M) /\ q \in Seq(M) /\ q # <<>>
          /\ ph = Append(p, Head(q)) /\ r = Tail(q)
      BY <1>4, <2>2
    <3> HIDE DEF M, o, p, q, ph, r
    <3>2. ph \o r = p \o q /\ ph \in Seq(M) /\ r \in Seq(M)
      BY <3>1, MovedOver, HeadTailProperties, AppendProperties
    <3>3. o \o ph \o r = o \o p \o q
      <4>1. o \in Seq(M) /\ ph \in Seq(M) /\ r \in Seq(M)
        BY <3>1, <3>2
      <4>2. o \in Seq(M) /\ p \in Seq(M) /\ q \in Seq(M)
        BY <3>1
      <4>3. (o \o ph) \o r = o \o (ph \o r)
        BY <4>1, ConcatAssociative
      <4>4. (o \o p) \o q = o \o (p \o q)
        BY <4>2, ConcatAssociative
      <4> QED
        BY <3>2, <4>3, <4>4
    <3> QED
      BY <3>3 DEF o, p, q, ph, r
  <2>4. PendingOf(t)' = PendingOf(t)
    BY <1>3, <1>4, <2>1, <2>2, <2>3
  <2> QED
    BY <1>1, <1>2, <2>4, PipeStutters DEF InputOf
<1>6. CASE ReadRequest(t)
  <2>1. /\ Served(t) = <<>> /\ Served(t)' = <<Head(req[t])>>
        /\ req'[t] = Tail(req[t]) /\ cmds'[t] = cmds[t] /\ req[t] # <<>>
    BY <1>6 DEF ReadRequest, Served, TypeOK
  <2>2. Served(t)' \o req'[t] = <<>> \o req[t]
    BY <1>4, <2>1, HeadThenTail, ConcatEmptySeq
  <2>3. PendingOf(t)' = PendingOf(t)
    BY <1>3, <1>4, <2>1, <2>2
  <2> QED
    BY <1>1, <1>2, <2>3, PipeStutters DEF InputOf
<1>7. CASE ReadAck(t) \/ LockWriter(t) \/ WriteDone(t) \/ SendAck(t)
           \/ (LockStore(t) /\ running[SessionOf[t]])
  <2>1. req' = req /\ cmds' = cmds
    BY <1>7 DEF ReadAck, LockWriter, WriteDone, Unlock, SendAck, LockStore
  <2>2. ReadAck(t) => Served(t)' = Served(t)
    BY DEF ReadAck, Served
  <2>3. LockWriter(t) => Served(t)' = Served(t)
    <3> SUFFICES ASSUME LockWriter(t) PROVE Served(t)' = Served(t)
        OBVIOUS
    <3>1. /\ phase[t] = "holding" /\ phase'[t] = "writing"
          /\ cur' = cur /\ written' = written
      BY DEF LockWriter, TypeOK
    <3>2. written[t] < MsgLen
      <4>1. written[t] \in Nat /\ MsgLen \in Nat \ {0}
        BY Shape DEF TypeOK
      <4>2. ~(written[t] > 0)
        BY <3>1 DEF HalfWritten
      <4> QED
        BY <4>1, <4>2
    <3> QED
      BY <3>1, <3>2 DEF Served
  <2>4. WriteDone(t) => Served(t)' = Served(t)
    <3> SUFFICES ASSUME WriteDone(t) PROVE Served(t)' = Served(t)
        OBVIOUS
    <3>1. /\ phase[t] = "writing" /\ phase'[t] = "answering"
          /\ ~(written[t] < MsgLen)
      BY Shape DEF WriteDone, Unlock, TypeOK
    <3> QED
      BY <3>1 DEF Served
  <2>5. SendAck(t) => Served(t)' = Served(t)
    <3> SUFFICES ASSUME SendAck(t) PROVE Served(t)' = Served(t)
        OBVIOUS
    <3>1. phase[t] = "answering" /\ phase'[t] = "idle"
      BY DEF SendAck, TypeOK
    <3> QED
      BY <3>1 DEF Served
  <2>6. LockStore(t) /\ running[SessionOf[t]] => Served(t)' = Served(t)
    <3> SUFFICES ASSUME LockStore(t), running[SessionOf[t]]
                 PROVE  Served(t)' = Served(t)
        OBVIOUS
    <3>1. phase[t] = "locking" /\ phase'[t] = "holding" /\ cur' = cur
      BY DEF LockStore, TypeOK
    <3> QED
      BY <3>1 DEF Served
  <2>7. PendingOf(t)' = PendingOf(t)
    BY <1>3, <1>4, <1>7, <2>1, <2>2, <2>3, <2>4, <2>5, <2>6
  <2> QED
    BY <1>1, <1>2, <2>7, PipeStutters DEF InputOf
<1> QED
  BY <1>5, <1>6, <1>7

\* A message typed is pending behind all others.
LEMMA Typed ==
    ASSUME TypeOK, WriterIsExclusive, NEW t \in Terminals, Type(t)
    PROVE  Pipe!Next
<1> USE DEF term, wire, handler, tty, sess
<1>1. /\ typed[t] < MaxMsgs /\ typed' = [typed EXCEPT ![t] = @ + 1]
      /\ cmds'[t] = Append(cmds[t], typed[t] + 1)
      /\ \A x \in Terminals \ {t} : cmds'[x] = cmds[x]
      /\ UNCHANGED <<req, cur, phase, written, fed, child>>
  BY DEF Type, TypeOK
<1>2. typed[t] + 1 \in 1 .. MaxMsgs
  BY <1>1, Shape DEF TypeOK
<1>3. PendingOf(t)' = Append(PendingOf(t), typed[t] + 1)
  <2>1. PendingOf(t)' = Served(t) \o req[t] \o cmds'[t]
    BY <1>1 DEF PendingOf, Served
  <2>2. /\ Served(t) \in Seq(1 .. MaxMsgs) /\ req[t] \in Seq(1 .. MaxMsgs)
        /\ cmds[t] \in Seq(1 .. MaxMsgs)
        /\ PendingOf(t) = Served(t) \o req[t] \o cmds[t]
    BY QueuesAre
  <2>3. Served(t) \o req[t] \o Append(cmds[t], typed[t] + 1)
           = Append(Served(t) \o req[t] \o cmds[t], typed[t] + 1)
    <3> DEFINE M == 1 .. MaxMsgs
               o == Served(t)
               p == req[t]
               q == cmds[t]
               x == typed[t] + 1
    <3>1. o \in Seq(M) /\ p \in Seq(M) /\ q \in Seq(M) /\ x \in M
      BY <1>2, <2>2
    <3> HIDE DEF M, o, p, q, x
    <3>2. o \o p \o Append(q, x) = Append(o \o p \o q, x)
      BY <3>1, AddedLast
    <3> QED
      BY <3>2 DEF o, p, q, x
  <2> QED
    BY <1>1, <2>1, <2>2, <2>3
<1>4. \A x \in Terminals \ {t} : PendingOf(x)' = PendingOf(x)
  BY <1>1, OthersKeep
<1>5. \A s \in Sessions : InputOf(s)' = InputOf(s)
  BY <1>1 DEF InputOf
<1>6. Pipe!Type(t)
  BY <1>1, <1>3, <1>4, <1>5 DEF Pipe!Type
<1> QED
  BY <1>6 DEF Pipe!Next

\* A message for a session that has stopped, and one whose write fails, is lost.
LEMMA Lost ==
    ASSUME TypeOK, WriterIsExclusive, NEW t \in Terminals,
           \/ WriteFails(t)
           \/ LockStore(t) /\ ~running[SessionOf[t]]
    PROVE  Pipe!Next
<1> USE DEF term, wire, handler, tty, sess
<1>1. /\ Served(t) # <<>> /\ phase'[t] = "answering"
      /\ UNCHANGED <<typed, req, cmds, fed, child>>
      /\ \A x \in Terminals \ {t} : UNCHANGED <<phase[x], cur[x], written[x]>>
  BY DEF WriteFails, Unlock, LockStore, Served, TypeOK
<1>2. PendingOf(t)' = <<>> \o req[t] \o cmds[t]
  BY <1>1 DEF PendingOf
<1>3. /\ PendingOf(t) # <<>>
      /\ PendingOf(t)' = Tail(PendingOf(t))
  BY <1>1, <1>2, ServedFirst
<1>4. \A x \in Terminals \ {t} : PendingOf(x)' = PendingOf(x)
  BY <1>1, OthersKeep
<1>5. \A s \in Sessions : InputOf(s)' = InputOf(s)
  BY <1>1 DEF InputOf
<1> QED
  BY <1>1, <1>3, <1>4, <1>5, PipeLoses

\* The last unit of a message delivers it; the units before change nothing.
LEMMA Delivered ==
    ASSUME TypeOK, WriterIsExclusive, NEW t \in Terminals, WriteUnit(t)
    PROVE  Pipe!Next \/ UNCHANGED Pipe!vars
<1> USE DEF term, wire, handler, tty, sess
<1> DEFINE s == SessionOf[t]
           u == Unit(t, written[t] + 1)
<1>1. /\ phase[t] = "writing" /\ written[t] \in Nat /\ written[t] < MsgLen
      /\ s \in Sessions /\ MsgLen \in Nat
      /\ fed'[s] = Append(fed[s], u)
      /\ \A r \in Sessions \ {s} : fed'[r] = fed[r]
      /\ written'[t] = written[t] + 1
      /\ \A x \in Terminals \ {t} : written'[x] = written[x]
      /\ UNCHANGED <<typed, req, cmds, phase, cur, child>>
  <2>1. /\ phase[t] = "writing" /\ written[t] < MsgLen
        /\ fed' = [fed EXCEPT ![s] = Append(@, u)]
        /\ written' = [written EXCEPT ![t] = @ + 1]
        /\ UNCHANGED <<typed, req, cmds, phase, cur, child>>
    BY DEF WriteUnit
  <2>2. s \in Sessions /\ MsgLen \in Nat
    BY Shape
  <2>3. written \in [Terminals -> 0 .. MsgLen] /\ DOMAIN fed = Sessions
    BY DEF TypeOK
  <2> HIDE DEF u, s
  <2> QED
    BY <2>1, <2>2, <2>3
<1>2. u \in Units /\ u.from = t /\ u.msg = cur[t] /\ u.part = written[t] + 1
  <2>1. cur[t] \in 1 .. MaxMsgs /\ written[t] + 1 \in 1 .. MsgLen
    <3>1. phase[t] # "idle"
      BY <1>1
    <3>2. cur[t] \in 1 .. MaxMsgs
      BY <3>1, QueuesAre
    <3>3. written[t] + 1 \in 1 .. MsgLen
      <4> HIDE DEF u, s
      <4> QED
        BY <1>1
    <3> QED
      BY <3>2, <3>3
  <2> QED
    BY <2>1 DEF Unit, Units
<1>3. Served(t) # <<>>
  BY <1>1 DEF Served
<1>4. \A x \in Terminals \ {t} : PendingOf(x)' = PendingOf(x)
  BY <1>1, OthersKeep
<1>5. \A r \in Sessions \ {s} : InputOf(r)' = InputOf(r)
  BY <1>1 DEF InputOf
<1>6. InputOf(s)' = IF u.part < MsgLen THEN InputOf(s)
                    ELSE Append(InputOf(s), <<u.from, u.msg>>)
  <2>1. fed[s] \in Seq(Units)
    BY <1>1 DEF TypeOK
  <2> HIDE DEF u, s
  <2> QED
    BY <1>1, <1>2, <2>1, WholeAppend DEF InputOf
<1> HIDE DEF u
<1>7. CASE written[t] + 1 < MsgLen
  <2>1. PendingOf(t)' = PendingOf(t)
    BY <1>1, <1>7 DEF PendingOf
  <2> QED
    BY <1>1, <1>2, <1>4, <1>5, <1>6, <1>7, <2>1, PipeStutters
<1>8. CASE ~(written[t] + 1 < MsgLen)
  <2>1. PendingOf(t)' = <<>> \o req[t] \o cmds[t]
    BY <1>1, <1>8 DEF PendingOf
  <2>2. /\ PendingOf(t) # <<>> /\ Head(PendingOf(t)) = cur[t]
        /\ PendingOf(t)' = Tail(PendingOf(t))
    BY <1>3, <2>1, ServedFirst
  <2>3. InputOf(s)' = Append(InputOf(s), <<t, Head(PendingOf(t))>>)
    BY <1>2, <1>6, <1>8, <2>2
  <2> QED
    BY <1>1, <1>4, <1>5, <2>2, <2>3, PipeDelivers
<1> QED
  BY <1>7, <1>8

\* A child that reads or stops reading, exits or is stopped moves no message;
\* the pipe only sees whether a living child is deaf.
LEMMA ChildSteps ==
    ASSUME TypeOK, NEW s \in Sessions, SessionStep(s)
    PROVE  Pipe!Next \/ UNCHANGED Pipe!vars
<1> USE DEF term, wire, handler, tty, sess
<1>1. /\ UNCHANGED typed
      /\ \A t \in Terminals : PendingOf(t)' = PendingOf(t)
      /\ \A r \in Sessions : InputOf(r)' = InputOf(r)
  <2>1. UNCHANGED <<typed, req, cmds, phase, cur, written, fed>>
    BY DEF SessionStep, ChildReads, ChildStopsReading, ChildExits, RequestStop, Stop
  <2> QED
    BY <2>1, OthersKeep DEF InputOf
<1>2. CASE ChildReads(s) \/ RequestStop(s)
  BY <1>1, <1>2, PipeStutters DEF ChildReads, RequestStop
<1>3. CASE ChildStopsReading(s)
  <2>1. child' = [child EXCEPT ![s] = "deaf"] /\ DOMAIN child = Sessions
    BY <1>3 DEF ChildStopsReading, TypeOK
  <2>2. Pipe!GoesDeaf(s)
    BY <1>1, <2>1 DEF Pipe!GoesDeaf
  <2> QED
    BY <2>2 DEF Pipe!Next
<1>4. CASE ChildExits(s) \/ Stop(s)
  <2>1. child' = [child EXCEPT ![s] = "dead"] /\ DOMAIN child = Sessions
    BY <1>4 DEF ChildExits, Stop, TypeOK
  <2>2. Pipe!Exits(s)
    BY <1>1, <2>1 DEF Pipe!Exits
  <2> QED
    BY <2>2 DEF Pipe!Next
<1> QED
  BY <1>2, <1>3, <1>4 DEF SessionStep

\* Typing is a pipe, for any number of terminals, sessions and messages and any
\* capacity: however the writer tasks, handlers and children interleave, what
\* WriteStdin brings into a PTY is each terminal's messages, whole, in the order
\* typed, none twice, and the others are the ones answered with an error.
THEOREM TypingIsAPipe == Spec => Pipe!Spec
<1>1. Init => Pipe!Init
  <2> SUFFICES ASSUME Init PROVE Pipe!Init
      OBVIOUS
  <2>1. \A t \in Terminals : PendingOf(t) = <<>>
    BY DEF Init, PendingOf
  <2>2. \A s \in Sessions : InputOf(s) = <<>>
    BY EmptyWhole DEF Init, InputOf
  <2> QED
    BY <2>1, <2>2 DEF Init, Pipe!Init
<1>2. InputInv /\ [Next]_vars => [Pipe!Next]_(Pipe!vars)
  <2> SUFFICES ASSUME TypeOK, WriterIsExclusive, HalfWritten, [Next]_vars
               PROVE  Pipe!Next \/ UNCHANGED Pipe!vars
      BY DEF InputInv
  <2>1. ASSUME NEW t \in Terminals, TerminalStep(t) \/ HandlerStep(t)
        PROVE  Pipe!Next \/ UNCHANGED Pipe!vars
    BY <2>1, Typed, OnItsWay, Lost, Delivered DEF TerminalStep, HandlerStep
  <2>2. ASSUME UNCHANGED <<typed, req, cmds, phase, cur, written, fed>>
        PROVE  /\ UNCHANGED typed
               /\ \A t \in Terminals : PendingOf(t)' = PendingOf(t)
               /\ \A s \in Sessions : InputOf(s)' = InputOf(s)
    BY <2>2, OthersKeep DEF InputOf
  <2>3. ASSUME NEW s \in Sessions, SessionStep(s)
        PROVE  Pipe!Next \/ UNCHANGED Pipe!vars
    BY <2>3, ChildSteps
  <2>4. CASE UNCHANGED vars
    BY <2>2, <2>4, PipeStutters DEF vars
  <2> QED
    BY <2>1, <2>3, <2>4 DEF Next, Terminated
<1> QED
  BY <1>1, <1>2, InputInvariant, PTL DEF Spec, Pipe!Spec

-----------------------------------------------------------------------------
(* The main view: the invariant. *)

\* The part of GridIsConsistent that is about a single grid.
Books(g) ==
    /\ IsInjective(g.order) /\ Range(g.order) = Occupied(g)
    /\ g.maximized \in Occupied(g) \cup {NoSlot}
    /\ \A s, t \in Occupied(g) : g.slots[s] = g.slots[t] => s = t
    /\ Occupied(g) = Slots => Last(g.order) = g.focused

\* The consistent grids that show kilds of L only.
Grids(L) == {g \in PaneGrid : Books(g) /\ \A s \in Occupied(g) : g.slots[s].kild \in L}

\* Tabs whose active one exists.
SoundTabs == {t \in [len : Nat, active : Nat] :
                 t.active < t.len \/ (t.len = 0 /\ t.active = 0)}

\* The views that know only kilds of L.
Views(L) ==
    {v \in [tabs : [Kilds -> SoundTabs \cup {NoTabs}], active : Kilds \cup {NoKild},
            region : {"dashboard", "terminal"}, grid : Grids(L), attaching : [Attach -> Nat]] :
        /\ \A k \in Kilds : v.tabs[k] # NoTabs => k \in L
        /\ v.active # NoKild => v.active \in L
        /\ v.region = "terminal" => v.active # NoKild}

ViewInv ==
    /\ disk \subseteq Kilds /\ displays \subseteq Kilds /\ late \subseteq Kilds
    /\ events \in BOOLEAN /\ pending \in BOOLEAN
    /\ startup \in {"new", "watching", "up"}
    /\ startup # "up" => displays = {}
    /\ view \in Views(displays \cup late) /\ Fits(view)
    /\ ChangesAreAnnounced

-----------------------------------------------------------------------------
(* The main view: queues. *)

\* What is left of a queue is in it and not in S, in the same order.
LEMMA WithoutIs ==
    ASSUME NEW E, NEW q \in Seq(E), NEW S
    PROVE  /\ Without(q, S) \in Seq(E) /\ Range(Without(q, S)) = Range(q) \ S
           /\ IsInjective(q) => IsInjective(Without(q, S))
           /\ Range(q) \cap S = {} => Without(q, S) = q
<1> DEFINE Is(f) == f = [i \in 0 .. Len(q) |->
                            IF i = 0 THEN <<>>
                            ELSE IF q[i] \in S THEN f[i - 1] ELSE Append(f[i - 1], q[i])]
           step == [ix \in (1 .. Len(q)) \X Seq(E) |->
                       IF q[ix[1]] \in S THEN ix[2] ELSE Append(ix[2], q[ix[1]])]
           Before(i) == {q[j] : j \in 1 .. i}
           Good(i, x) == /\ x \in Seq(E) /\ Range(x) = Before(i) \ S
                         /\ IsInjective(q) => IsInjective(x)
                         /\ Before(i) \cap S = {} => x = SubSeq(q, 1, i)
           D == [i \in 0 .. Len(q) |-> {x \in Seq(E) : Good(i, x)}]
<1>1. Without(q, S) = (CHOOSE f : Is(f))[Len(q)]
  BY Zenon DEF Without
<1>2. Good(0, <<>>)
  <2>1. <<>> \in Seq(E) /\ Range(<<>>) = {} /\ IsInjective(<<>>) /\ Before(0) = {}
    BY DEF Range, IsInjective
  <2>2. SubSeq(q, 1, 0) = <<>>
    OBVIOUS
  <2> QED BY <2>1, <2>2
<1>3. ASSUME NEW i \in 1 .. Len(q), NEW x, Good(i - 1, x)
      PROVE  Good(i, IF q[i] \in S THEN x ELSE Append(x, q[i]))
  <2>1. /\ i - 1 \in 0 .. Len(q) /\ q[i] \in E /\ x \in Seq(E)
    BY <1>3
  <2>2. Before(i) = Before(i - 1) \cup {q[i]}
    OBVIOUS
  <2>3. CASE q[i] \in S
    <3>1. Before(i) \ S = Before(i - 1) \ S /\ Before(i) \cap S # {}
      BY <2>2, <2>3
    <3> QED BY <1>3, <2>3, <3>1
  <2>4. CASE q[i] \notin S
    <3> DEFINE y == Append(x, q[i])
    <3>1. /\ y \in Seq(E) /\ DOMAIN y = 1 .. Len(x) + 1 /\ DOMAIN x = 1 .. Len(x)
          /\ \A j \in 1 .. Len(x) : y[j] = x[j]
          /\ y[Len(x) + 1] = q[i] /\ Len(x) \in Nat
      BY <2>1
    <3> HIDE DEF y
    <3>2. Range(y) = Range(x) \cup {q[i]}
      BY <3>1 DEF Range
    <3>3. Range(y) = Before(i) \ S
      BY <1>3, <2>2, <2>4, <3>2
    <3>4. ASSUME IsInjective(q) PROVE IsInjective(y)
      <4>1. q[i] \notin Before(i - 1)
        BY <3>4, DOMAIN q = 1 .. Len(q) DEF IsInjective
      <4>2. IsInjective(x) /\ q[i] \notin Range(x)
        BY <1>3, <3>4, <4>1
      <4>3. \A j \in 1 .. Len(x) : x[j] # q[i]
        BY <3>1, <4>2 DEF Range
      <4>4. \A a, b \in 1 .. Len(x) : x[a] = x[b] => a = b
        BY <3>1, <4>2 DEF IsInjective
      <4> QED BY <3>1, <4>3, <4>4 DEF IsInjective
    <3>5. ASSUME Before(i) \cap S = {} PROVE y = SubSeq(q, 1, i)
      <4>1. x = SubSeq(q, 1, i - 1)
        BY <1>3, <2>2, <3>5
      <4>2. Append(SubSeq(q, 1, i - 1), q[i]) = SubSeq(q, 1, i)
        BY <2>1
      <4> QED BY <4>1, <4>2 DEF y
    <3> QED BY <2>4, <3>1, <3>3, <3>4, <3>5 DEF y
  <2> QED BY <2>3, <2>4
<1>4. <<>> \in D[0]
  BY <1>2
<1>5. ASSUME NEW i \in 1 .. Len(q), NEW x \in D[i - 1]
      PROVE  /\ x \in Seq(E) /\ step[<<i, x>>] = IF q[i] \in S THEN x ELSE Append(x, q[i])
             /\ step[<<i, x>>] \in D[i]
  <2>1. i - 1 \in 0 .. Len(q) /\ i \in 0 .. Len(q) /\ q[i] \in E
    OBVIOUS
  <2> HIDE DEF Good
  <2>2. x \in Seq(E) /\ Good(i - 1, x)
    BY <2>1
  <2>3. step[<<i, x>>] = IF q[i] \in S THEN x ELSE Append(x, q[i])
    BY <2>2
  <2>4. Good(i, step[<<i, x>>])
    BY <1>3, <2>2, <2>3
  <2>5. step[<<i, x>>] \in Seq(E)
    BY <2>1, <2>2, <2>3
  <2> HIDE DEF step
  <2> QED BY <2>1, <2>2, <2>3, <2>4, <2>5
<1>6. \E f : Is(f)
  <2> HIDE DEF step, D
  <2>1. Len(q) \in Nat
    OBVIOUS
  <2>2. PICK f : Recursive(f, Len(q), <<>>, step) /\ \A i \in 0 .. Len(q) : f[i] \in D[i]
    <3>1. \A i \in 1 .. Len(q) : \A x \in D[i - 1] : step[<<i, x>>] \in D[i]
      BY <1>5
    <3> QED BY <1>4, <2>1, <3>1, Recursion, Zenon
  <2>3. ASSUME NEW i \in 0 .. Len(q)
        PROVE  (IF i = 0 THEN <<>> ELSE step[<<i, f[i - 1]>>])
               = IF i = 0 THEN <<>>
                 ELSE IF q[i] \in S THEN f[i - 1] ELSE Append(f[i - 1], q[i])
    <3>1. CASE i = 0
      BY <3>1
    <3>2. CASE i # 0
      <4>1. i \in 1 .. Len(q) /\ i - 1 \in 0 .. Len(q)
        BY <3>2
      <4> QED BY <1>5, <2>2, <3>2, <4>1
    <3> QED BY <3>1, <3>2
  <2> QED BY <2>2, <2>3 DEF Recursive
<1>7. ASSUME NEW f, Is(f) PROVE Good(Len(q), f[Len(q)])
  <2> HIDE DEF Good
  <2> DEFINE T == {i \in 0 .. Len(q) : Good(i, f[i])}
  <2>1. \A i \in 0 .. Len(q) :
           f[i] = IF i = 0 THEN <<>>
                  ELSE IF q[i] \in S THEN f[i - 1] ELSE Append(f[i - 1], q[i])
    BY <1>7
  <2>2. 0 \in T
    <3>1. 0 \in 0 .. Len(q) /\ f[0] = <<>>
      BY <2>1
    <3> QED BY <1>2, <3>1
  <2>3. ASSUME NEW i \in 1 .. Len(q), i - 1 \in T PROVE i \in T
    <3>1. i \in 0 .. Len(q) /\ i # 0 /\ Good(i - 1, f[i - 1])
      BY <2>3
    <3>2. f[i] = IF q[i] \in S THEN f[i - 1] ELSE Append(f[i - 1], q[i])
      BY <2>1, <3>1
    <3>3. Good(i, f[i])
      BY <1>3, <3>1, <3>2
    <3> QED BY <3>1, <3>3
  <2>4. Len(q) \in T
    <3> HIDE DEF T
    <3>1. Len(q) \in Nat
      OBVIOUS
    <3>2. 0 .. Len(q) \subseteq T
      BY <2>2, <2>3, <3>1, UpTo
    <3> QED BY <3>1, <3>2
  <2> QED BY <2>4
<1>8. Good(Len(q), Without(q, S))
  <2> HIDE DEF Is, Good
  <2>1. Is(CHOOSE f : Is(f))
    BY <1>6
  <2> QED BY <1>1, <1>7, <2>1
<1>9. Range(q) = Before(Len(q)) /\ SubSeq(q, 1, Len(q)) = q
  BY DEF Range
<1> QED BY <1>8, <1>9

-----------------------------------------------------------------------------
(* The main view: the grid. *)

LEMMA SlotNumbers == Slots \subseteq Nat /\ Slots # {} /\ 0 \in Slots /\ NoSlot \notin Slots
  BY Bounds, NoneDistinct DEF Slots

LEMMA MinIn == ASSUME NEW S \in SUBSET Nat, S # {} PROVE Min(S) \in S
  BY LeastNumber DEF Min

LEMMA MinSlot == ASSUME NEW S \in SUBSET Slots, S # {} PROVE Min(S) \in S
  BY MinIn, SlotNumbers

\* A pane can be told from NoPane.
LEMMA OccupiedPane ==
    ASSUME NEW g \in PaneGrid
    PROVE  /\ Occupied(g) \in SUBSET Slots
           /\ \A s \in Occupied(g) : g.slots[s] \in Pane /\ g.slots[s].kild \in Kilds
                                     /\ g.slots[s].tab \in 0 .. MaxTabs
           /\ \A p \in Pane : FindSlot(g, p) \in SUBSET Occupied(g)
  BY NoneDistinct DEF PaneGrid, Occupied, Pane, FindSlot

LEMMA EmptyGridGood == EmptyGrid \in Grids({}) /\ Occupied(EmptyGrid) = {}
<1>1. EmptyGrid \in PaneGrid
  BY SlotNumbers DEF EmptyGrid, PaneGrid
<1>2. Occupied(EmptyGrid) = {}
  BY DEF Occupied, EmptyGrid
<1>3. EmptyGrid.order = <<>> /\ EmptyGrid.maximized = NoSlot
  BY DEF EmptyGrid
<1>4. IsInjective(<<>>) /\ Range(<<>>) = {}
  BY DEF IsInjective, Range
<1>5. Books(EmptyGrid)
  BY <1>2, <1>3, <1>4, SlotNumbers DEF Books
<1> QED BY <1>1, <1>2, <1>5 DEF Grids

\* Grids that show fewer kilds.
LEMMA GridsGrow == ASSUME NEW L, NEW M, L \subseteq M PROVE Grids(L) \subseteq Grids(M)
  BY DEF Grids

\* Removing panes keeps the books, whatever the kilds of the rest.
LEMMA RemovePanesGood ==
    ASSUME NEW L, NEW M, NEW g \in Grids(L), NEW S \in SUBSET Slots,
           \A s \in Occupied(g) \ S : g.slots[s].kild \in M
    PROVE  /\ RemovePanes(g, S) \in Grids(M)
           /\ Occupied(RemovePanes(g, S)) = Occupied(g) \ S
<1> DEFINE h == RemovePanes(g, S)
<1>1. g \in PaneGrid /\ Books(g)
  BY DEF Grids
<1>2. g.order \in Seq(Slots) /\ g.slots \in [Slots -> Pane \cup {NoPane}]
      /\ g.focused \in Slots /\ g.maximized \in Slots \cup {NoSlot}
  BY <1>1 DEF PaneGrid
<1>3. /\ h.slots = [s \in Slots |-> IF s \in S THEN NoPane ELSE g.slots[s]]
      /\ h.focused = g.focused
      /\ h.maximized = IF g.maximized \in S THEN NoSlot ELSE g.maximized
      /\ h.order = Without(g.order, S)
      /\ h = [slots |-> h.slots, focused |-> h.focused, maximized |-> h.maximized,
              order |-> h.order]
  BY DEF RemovePanes
<1> HIDE DEF h
<1>4. /\ h.order \in Seq(Slots) /\ Range(h.order) = Range(g.order) \ S
      /\ IsInjective(g.order) => IsInjective(h.order)
      /\ Range(g.order) \cap S = {} => h.order = g.order
  BY <1>2, <1>3, WithoutIs
<1>5. h \in PaneGrid
  <2>1. h.slots \in [Slots -> Pane \cup {NoPane}]
    BY <1>2, <1>3
  <2>2. h.maximized \in Slots \cup {NoSlot} /\ h.focused \in Slots
    BY <1>2, <1>3
  <2> QED BY <1>3, <1>4, <2>1, <2>2 DEF PaneGrid
<1>6. Occupied(h) = Occupied(g) \ S /\ \A s \in Occupied(h) : h.slots[s] = g.slots[s]
  BY <1>3 DEF Occupied
<1>7. Books(h)
  <2>1. IsInjective(h.order) /\ Range(h.order) = Occupied(h)
    BY <1>1, <1>4, <1>6 DEF Books
  <2>2. h.maximized \in Occupied(h) \cup {NoSlot}
    BY <1>1, <1>3, <1>6 DEF Books
  <2>3. \A s, t \in Occupied(h) : h.slots[s] = h.slots[t] => s = t
    BY <1>1, <1>6 DEF Books
  <2>4. ASSUME Occupied(h) = Slots PROVE Last(h.order) = h.focused
    <3>1. Occupied(g) = Slots /\ S = {}
      BY <1>1, <1>6, <2>4, OccupiedPane
    <3> QED BY <1>1, <1>3, <1>4, <3>1 DEF Books
  <2> QED BY <2>1, <2>2, <2>3, <2>4 DEF Books
<1>8. \A s \in Occupied(h) : h.slots[s].kild \in M
  BY <1>6
<1> QED BY <1>5, <1>6, <1>7, <1>8 DEF Grids, h

\* Focusing a slot makes books of which only that slot may be missing good.
LEMMA FocusGood ==
    ASSUME NEW L, NEW g \in PaneGrid, NEW s \in Occupied(g),
           IsInjective(g.order), Range(g.order) \subseteq Occupied(g),
           Occupied(g) \ {s} \subseteq Range(g.order),
           g.maximized \in Occupied(g) \cup {NoSlot},
           \A a, b \in Occupied(g) : g.slots[a] = g.slots[b] => a = b,
           \A a \in Occupied(g) : g.slots[a].kild \in L
    PROVE  SetFocus(g, s) \in Grids(L) /\ SetFocus(g, s).slots = g.slots
<1> DEFINE h == SetFocus(g, s)
           rest == Without(g.order, {s})
<1>1. /\ g.order \in Seq(Slots) /\ g.slots \in [Slots -> Pane \cup {NoPane}]
      /\ g.maximized \in Slots \cup {NoSlot} /\ s \in Slots
      /\ g = [slots |-> g.slots, focused |-> g.focused, maximized |-> g.maximized,
              order |-> g.order]
  BY OccupiedPane DEF PaneGrid
<1>2. /\ h = [slots |-> g.slots, focused |-> s, maximized |-> g.maximized,
              order |-> Append(rest, s)]
  BY <1>1 DEF SetFocus, PaneGrid
<1> HIDE DEF h
<1>3. rest \in Seq(Slots) /\ Range(rest) = Range(g.order) \ {s} /\ IsInjective(rest)
  BY <1>1, WithoutIs
<1> HIDE DEF rest
<1>4. /\ h.order \in Seq(Slots) /\ Len(h.order) = Len(rest) + 1 /\ Len(rest) \in Nat
      /\ DOMAIN h.order = 1 .. Len(rest) + 1 /\ DOMAIN rest = 1 .. Len(rest)
      /\ h.order[Len(rest) + 1] = s /\ \A i \in 1 .. Len(rest) : h.order[i] = rest[i]
  BY <1>1, <1>2, <1>3
<1>5. h \in PaneGrid
  BY <1>1, <1>2, <1>4 DEF PaneGrid
<1>6. Occupied(h) = Occupied(g) /\ h.slots = g.slots /\ h.focused = s
      /\ h.maximized = g.maximized
  BY <1>2 DEF Occupied
<1>7. Books(h)
  <2>1. Range(h.order) = Range(rest) \cup {s}
    BY <1>4 DEF Range
  <2>2. Range(h.order) = Occupied(h)
    BY <1>3, <1>6, <2>1
  <2>3. IsInjective(h.order)
    <3>1. \A i \in 1 .. Len(rest) : rest[i] # s
      <4>1. \A i \in DOMAIN rest : rest[i] \in Range(rest)
        BY DEF Range
      <4> QED BY <1>3, <1>4, <4>1
    <3>2. \A i, j \in 1 .. Len(rest) : rest[i] = rest[j] => i = j
      BY <1>3, <1>4 DEF IsInjective
    <3> QED BY <1>4, <3>1, <3>2 DEF IsInjective
  <2>4. Last(h.order) = h.focused
    BY <1>4, <1>6 DEF Last
  <2> QED BY <1>6, <2>2, <2>3, <2>4 DEF Books
<1> QED BY <1>5, <1>6, <1>7 DEF Grids, h

LEMMA SetFocusGood ==
    ASSUME NEW L, NEW g \in Grids(L), NEW s
    PROVE  SetFocus(g, s) \in Grids(L) /\ SetFocus(g, s).slots = g.slots
<1>1. CASE s \notin Occupied(g)
  BY <1>1 DEF SetFocus
<1>2. CASE s \in Occupied(g)
  <2>1. g \in PaneGrid /\ Books(g) /\ \A a \in Occupied(g) : g.slots[a].kild \in L
    BY DEF Grids
  <2>2. /\ IsInjective(g.order) /\ Range(g.order) \subseteq Occupied(g)
        /\ Occupied(g) \ {s} \subseteq Range(g.order)
        /\ g.maximized \in Occupied(g) \cup {NoSlot}
        /\ \A a, b \in Occupied(g) : g.slots[a] = g.slots[b] => a = b
    BY <2>1 DEF Books
  <2> QED BY <1>2, <2>1, <2>2, FocusGood
<1> QED BY <1>1, <1>2

\* A new pane is put into a free slot and focused.
LEMMA AddTerminalGood ==
    ASSUME NEW L, NEW g \in Grids(L), NEW p \in Pane, p.kild \in L
    PROVE  AddTerminal(g, p) \in Grids(L)
<1> DEFINE free == Slots \ Occupied(g)
<1>1. g \in PaneGrid /\ Books(g) /\ \A a \in Occupied(g) : g.slots[a].kild \in L
  BY DEF Grids
<1>2. CASE FindSlot(g, p) # {} \/ free = {}
  BY <1>2 DEF AddTerminal
<1>3. CASE FindSlot(g, p) = {} /\ free # {}
  <2> DEFINE s == Min(free)
             h == [g EXCEPT !.slots[s] = p]
  <2>1. s \in free /\ s \in Slots /\ s \notin Occupied(g)
    BY <1>3, MinSlot
  <2>2. AddTerminal(g, p) = SetFocus(h, s)
    BY <1>3 DEF AddTerminal
  <2> HIDE DEF s
  <2>3. /\ g.order \in Seq(Slots) /\ g.slots \in [Slots -> Pane \cup {NoPane}]
        /\ g.maximized \in Slots \cup {NoSlot} /\ g.focused \in Slots
        /\ g = [slots |-> g.slots, focused |-> g.focused, maximized |-> g.maximized,
                order |-> g.order]
    BY <1>1 DEF PaneGrid
  <2>4. h = [slots |-> [g.slots EXCEPT ![s] = p], focused |-> g.focused,
             maximized |-> g.maximized, order |-> g.order]
    BY <1>1, <2>1 DEF PaneGrid
  <2> HIDE DEF h
  <2>5. h.slots \in [Slots -> Pane \cup {NoPane}]
    BY <2>1, <2>3, <2>4
  <2>6. h \in PaneGrid
    BY <2>3, <2>4, <2>5 DEF PaneGrid
  <2>7. /\ h.slots[s] = p /\ \A a \in Slots \ {s} : h.slots[a] = g.slots[a]
        /\ h.order = g.order /\ h.maximized = g.maximized
    BY <2>1, <2>3, <2>4
  <2>8. Occupied(h) = Occupied(g) \cup {s}
    BY <2>1, <2>7, NoneDistinct DEF Occupied
  <2>9. /\ IsInjective(h.order) /\ Range(h.order) \subseteq Occupied(h)
        /\ Occupied(h) \ {s} \subseteq Range(h.order)
        /\ h.maximized \in Occupied(h) \cup {NoSlot}
    BY <1>1, <2>7, <2>8 DEF Books
  <2>10. \A a \in Occupied(g) : a \in Slots \ {s} /\ h.slots[a] = g.slots[a] /\ g.slots[a] # p
    BY <1>3, <2>1, <2>7 DEF Occupied, FindSlot
  <2>11. \A a, b \in Occupied(h) : h.slots[a] = h.slots[b] => a = b
    BY <1>1, <2>7, <2>8, <2>10 DEF Books
  <2>12. \A a \in Occupied(h) : h.slots[a].kild \in L
    BY <1>1, <2>7, <2>8, <2>10
  <2>13. s \in Occupied(h)
    BY <2>8
  <2> QED BY <2>2, <2>6, <2>9, <2>11, <2>12, <2>13, FocusGood
<1> QED BY <1>2, <1>3

\* A full grid has a least recently focused pane.
LEMMA LeastRecentlyFocusedExists ==
    ASSUME NEW L, NEW g \in Grids(L), Occupied(g) = Slots
    PROVE  LeastRecentlyFocused(g) \in Slots
<1> DEFINE order == Without(g.order, Slots \ Occupied(g))
<1>1. g.order \in Seq(Slots)
  BY DEF Grids, PaneGrid
<1>2. order \in Seq(Slots)
  BY <1>1, WithoutIs
<1>3. CASE order # <<>>
  BY <1>2, <1>3 DEF LeastRecentlyFocused
<1>4. CASE order = <<>>
  <2>1. Min(Occupied(g)) \in Slots
    BY MinSlot, SlotNumbers
  <2> QED BY <1>4, <2>1 DEF LeastRecentlyFocused
<1> QED BY <1>3, <1>4

LEMMA PlaceGood ==
    ASSUME NEW L, NEW g \in Grids(L), NEW p \in Pane, p.kild \in L
    PROVE  PlaceInPaneGrid(g, p) \in Grids(L)
<1>1. CASE FindSlot(g, p) # {}
  BY <1>1, SetFocusGood DEF PlaceInPaneGrid
<1>2. CASE FindSlot(g, p) = {} /\ Occupied(g) # Slots
  BY <1>2, AddTerminalGood DEF PlaceInPaneGrid
<1>3. CASE FindSlot(g, p) = {} /\ Occupied(g) = Slots
  <2> DEFINE h == RemovePanes(g, {LeastRecentlyFocused(g)})
  <2>1. {LeastRecentlyFocused(g)} \in SUBSET Slots
    BY <1>3, LeastRecentlyFocusedExists
  <2>2. \A s \in Occupied(g) \ {LeastRecentlyFocused(g)} : g.slots[s].kild \in L
    BY DEF Grids
  <2>3. h \in Grids(L)
    BY <2>1, <2>2, RemovePanesGood
  <2>4. PlaceInPaneGrid(g, p) = AddTerminal(h, p)
    BY <1>3 DEF PlaceInPaneGrid
  <2> QED BY <2>3, <2>4, AddTerminalGood
<1> QED BY <1>1, <1>2, <1>3

LEMMA NextIsOccupied ==
    ASSUME NEW g \in PaneGrid
    PROVE  NextOccupied(g) \in Occupied(g) \cup {NoSlot}
<1> DEFINE steps == {d \in 1 .. SlotCount - 1 : (g.focused + d) % SlotCount \in Occupied(g)}
<1>1. CASE steps = {}
  BY <1>1 DEF NextOccupied
<1>2. CASE steps # {}
  <2>1. steps \in SUBSET Nat
    OBVIOUS
  <2>2. Min(steps) \in steps
    <3> HIDE DEF steps
    <3> QED BY <1>2, <2>1, MinIn
  <2>3. (g.focused + Min(steps)) % SlotCount \in Occupied(g)
    BY <2>2
  <2> QED BY <1>2, <2>3 DEF NextOccupied
<1> QED BY <1>1, <1>2

\* Pruning leaves the kilds that live.
LEMMA PruneGridGood ==
    ASSUME NEW L, NEW g \in Grids(L), NEW live
    PROVE  PruneGrid(g, live) \in Grids(live)
<1> DEFINE S == {s \in Occupied(g) : g.slots[s].kild \notin live}
           h == RemovePanes(g, S)
<1>1. S \in SUBSET Slots /\ \A s \in Occupied(g) \ S : g.slots[s].kild \in live
  BY DEF Occupied
<1> HIDE DEF S
<1>2. h \in Grids(live)
  BY <1>1, RemovePanesGood
<1>3. PruneGrid(g, live) = IF h.focused \notin Occupied(h) /\ NextOccupied(h) # NoSlot
                           THEN [h EXCEPT !.focused = NextOccupied(h)] ELSE h
  BY Zenon DEF PruneGrid, S
<1> HIDE DEF h
<1>4. CASE h.focused \notin Occupied(h) /\ NextOccupied(h) # NoSlot
  <2> DEFINE k == [h EXCEPT !.focused = NextOccupied(h)]
  <2>1. h \in PaneGrid /\ Books(h) /\ \A s \in Occupied(h) : h.slots[s].kild \in live
    BY <1>2 DEF Grids
  <2>2. NextOccupied(h) \in Slots
    BY <1>4, <2>1, NextIsOccupied, OccupiedPane
  <2>3. k \in PaneGrid /\ k.slots = h.slots /\ k.order = h.order /\ k.maximized = h.maximized
    BY <2>1, <2>2 DEF PaneGrid
  <2> HIDE DEF k
  <2>4. Occupied(k) = Occupied(h)
    BY <2>3 DEF Occupied
  <2>5. Occupied(k) # Slots
    BY <1>4, <2>1, <2>4 DEF PaneGrid
  <2>6. Books(k)
    BY <2>1, <2>3, <2>4, <2>5 DEF Books
  <2>7. k \in Grids(live)
    BY <2>1, <2>3, <2>4, <2>6 DEF Grids
  <2> QED BY <1>3, <1>4, <2>7 DEF k
<1>5. CASE ~(h.focused \notin Occupied(h) /\ NextOccupied(h) # NoSlot)
  BY <1>2, <1>3, <1>5
<1> QED BY <1>4, <1>5

LEMMA ToggleMaximizeGood ==
    ASSUME NEW L, NEW g \in Grids(L), NEW s \in Occupied(g)
    PROVE  ToggleMaximize(g, s) \in Grids(L)
<1> DEFINE h == ToggleMaximize(g, s)
<1>1. g \in PaneGrid /\ Books(g) /\ \A a \in Occupied(g) : g.slots[a].kild \in L
  BY DEF Grids
<1>2. s \in Slots
  BY <1>1, OccupiedPane
<1>3. /\ h \in PaneGrid /\ h.slots = g.slots /\ h.order = g.order /\ h.focused = g.focused
      /\ h.maximized \in {s, NoSlot}
  BY <1>1, <1>2 DEF ToggleMaximize, PaneGrid
<1> HIDE DEF h
<1>4. Occupied(h) = Occupied(g)
  BY <1>3 DEF Occupied
<1>5. Books(h)
  BY <1>1, <1>3, <1>4 DEF Books
<1> QED BY <1>1, <1>3, <1>4, <1>5 DEF Grids, h

LEMMA AutoPopulateGood ==
    ASSUME NEW L \in SUBSET Kilds, NEW q \in Seq(L)
    PROVE  AutoPopulate(q) \in Grids(L)
<1> DEFINE First(k) == [kild |-> k, tab |-> 0]
           Is(f) == f = [i \in 0 .. Len(q) |->
                            IF i = 0 THEN EmptyGrid ELSE AddTerminal(f[i - 1], [kild |-> q[i], tab |-> 0])]
           step == [ix \in (1 .. Len(q)) \X Grids(L) |-> AddTerminal(ix[2], First(q[ix[1]]))]
           D == [i \in 0 .. Len(q) |-> Grids(L)]
<1>1. AutoPopulate(q) = (CHOOSE f : Is(f))[Len(q)]
  BY Zenon DEF AutoPopulate
<1>2. EmptyGrid \in Grids(L)
  BY EmptyGridGood, GridsGrow
<1>3. ASSUME NEW i \in 1 .. Len(q), NEW g \in Grids(L)
      PROVE  AddTerminal(g, First(q[i])) \in Grids(L)
  <2>1. First(q[i]) \in Pane /\ First(q[i]).kild \in L
    BY Bounds DEF Pane
  <2> QED BY <2>1, AddTerminalGood
<1>4. ASSUME NEW i \in 1 .. Len(q), NEW x \in D[i - 1]
      PROVE  x \in Grids(L) /\ step[<<i, x>>] = AddTerminal(x, First(q[i]))
             /\ step[<<i, x>>] \in D[i]
  <2>1. i - 1 \in 0 .. Len(q) /\ i \in 0 .. Len(q)
    OBVIOUS
  <2> HIDE DEF First
  <2>2. x \in Grids(L)
    BY <2>1
  <2>3. step[<<i, x>>] = AddTerminal(x, First(q[i]))
    BY <2>2
  <2> QED BY <1>3, <2>1, <2>2, <2>3
<1>5. \E f : Is(f)
  <2> HIDE DEF step, D
  <2>1. Len(q) \in Nat /\ EmptyGrid \in D[0]
    BY <1>2 DEF D
  <2>2. PICK f : Recursive(f, Len(q), EmptyGrid, step) /\ \A i \in 0 .. Len(q) : f[i] \in D[i]
    <3>1. \A i \in 1 .. Len(q) : \A x \in D[i - 1] : step[<<i, x>>] \in D[i]
      BY <1>4
    <3> QED BY <2>1, <3>1, Recursion, Zenon
  <2>3. ASSUME NEW i \in 0 .. Len(q)
        PROVE  (IF i = 0 THEN EmptyGrid ELSE step[<<i, f[i - 1]>>])
               = IF i = 0 THEN EmptyGrid ELSE AddTerminal(f[i - 1], [kild |-> q[i], tab |-> 0])
    <3>1. CASE i = 0
      BY <3>1
    <3>2. CASE i # 0
      <4>1. i \in 1 .. Len(q) /\ i - 1 \in 0 .. Len(q)
        BY <3>2
      <4> QED BY <1>4, <2>2, <3>2, <4>1
    <3> QED BY <3>1, <3>2
  <2> QED BY <2>2, <2>3 DEF Recursive
<1>6. ASSUME NEW f, Is(f) PROVE f[Len(q)] \in Grids(L)
  <2> DEFINE T == {i \in 0 .. Len(q) : f[i] \in Grids(L)}
  <2>1. \A i \in 0 .. Len(q) : f[i] = IF i = 0 THEN EmptyGrid ELSE AddTerminal(f[i - 1], First(q[i]))
    BY <1>6
  <2> HIDE DEF First
  <2>2. 0 \in T
    BY <1>2, <2>1
  <2>3. ASSUME NEW i \in 1 .. Len(q), i - 1 \in T PROVE i \in T
    BY <1>3, <2>1, <2>3
  <2>4. Len(q) \in T
    <3> HIDE DEF T
    <3>1. Len(q) \in Nat
      OBVIOUS
    <3>2. 0 .. Len(q) \subseteq T
      BY <2>2, <2>3, <3>1, UpTo
    <3> QED BY <3>1, <3>2
  <2> QED BY <2>4
<1> HIDE DEF Is
<1>7. Is(CHOOSE f : Is(f))
  BY <1>5
<1> QED BY <1>1, <1>6, <1>7

-----------------------------------------------------------------------------
(* The main view: the handlers. *)

\* What a handler may make of v: a view of kilds of L in which no kild has lost
\* all its tabs.
Kept(v, L) == {w \in Views(L) : \A k \in Kilds : v.tabs[k] # NoTabs => w.tabs[k] # NoTabs}

LEMMA KeptTwice ==
    ASSUME NEW L, NEW v, NEW w \in Kept(v, L), NEW x \in Kept(w, L)
    PROVE  x \in Kept(v, L)
  BY DEF Kept

LEMMA KeptIsView == ASSUME NEW L, NEW v, NEW w \in Kept(v, L) PROVE w \in Views(L)
  BY DEF Kept

\* What a view consists of.
LEMMA ViewIs ==
    ASSUME NEW L, NEW v \in Views(L)
    PROVE  /\ v = [tabs |-> v.tabs, active |-> v.active, region |-> v.region,
                   grid |-> v.grid, attaching |-> v.attaching]
           /\ v.tabs \in [Kilds -> SoundTabs \cup {NoTabs}] /\ v.active \in Kilds \cup {NoKild}
           /\ v.region \in {"dashboard", "terminal"} /\ v.grid \in Grids(L)
           /\ v.attaching \in [Attach -> Nat]
           /\ \A k \in Kilds : v.tabs[k] # NoTabs => k \in L
           /\ v.active # NoKild => v.active \in L
           /\ v.region = "terminal" => v.active # NoKild
  BY DEF Views

\* v with another grid, active kild and focus.
Arrangement(v, g, a, r) ==
    [tabs |-> v.tabs, active |-> a, region |-> r, grid |-> g, attaching |-> v.attaching]

\* As the handlers write it.
Shows(v, g, a, r) == [v EXCEPT !.grid = g, !.active = a, !.region = r]
Activates(v, a, r) == [v EXCEPT !.active = a, !.region = r]
Turns(v, g, a) == [v EXCEPT !.grid = g, !.active = a]

LEMMA Rearranged ==
    ASSUME NEW L, NEW v \in Views(L), NEW g, NEW a, NEW r
    PROVE  /\ Shows(v, g, a, r) = Arrangement(v, g, a, r)
           /\ Turns(v, g, a) = Arrangement(v, g, a, v.region)
           /\ Activates(v, a, r) = Arrangement(v, v.grid, a, r)
<1> DEFINE w1 == [v EXCEPT !.grid = g]
           w2 == [w1 EXCEPT !.active = a]
           w3 == [w2 EXCEPT !.region = r]
           u1 == [v EXCEPT !.active = a]
           u2 == [u1 EXCEPT !.region = r]
<1>1. v = Arrangement(v, v.grid, v.active, v.region)
  BY ViewIs DEF Arrangement
<1>2. Shows(v, g, a, r) = w3 /\ Turns(v, g, a) = w2 /\ Activates(v, a, r) = u2
  BY DEF Shows, Turns, Activates
<1>3. w1 = Arrangement(v, g, v.active, v.region)
  BY <1>1 DEF Arrangement
<1>4. u1 = Arrangement(v, v.grid, a, v.region)
  BY <1>1 DEF Arrangement
<1> HIDE DEF w1, u1
<1>5. w2 = Arrangement(v, g, a, v.region)
  BY <1>3 DEF Arrangement
<1>6. u2 = Arrangement(v, v.grid, a, r)
  BY <1>4 DEF Arrangement
<1> HIDE DEF w2, u2
<1>7. w3 = Arrangement(v, g, a, r)
  BY <1>5 DEF Arrangement
<1> HIDE DEF w3
<1> QED BY <1>2, <1>5, <1>6, <1>7

\* A handler may change the grid and who is active.
LEMMA Arranged ==
    ASSUME NEW L, NEW v \in Views(L), NEW g \in Grids(L), NEW a \in Kilds \cup {NoKild},
           NEW r \in {"dashboard", "terminal"}, a # NoKild => a \in L,
           r = "terminal" => a # NoKild
    PROVE  Arrangement(v, g, a, r) \in Kept(v, L)
<1> DEFINE w == Arrangement(v, g, a, r)
<1>1. w = [tabs |-> v.tabs, active |-> a, region |-> r, grid |-> g,
           attaching |-> v.attaching]
  BY DEF Arrangement
<1> HIDE DEF w
<1>2. w \in Views(L)
  BY <1>1, ViewIs DEF Views
<1> QED BY <1>1, <1>2 DEF Kept, w

\* A handler may change the tabs of a kild of L.
LEMMA Tabbed ==
    ASSUME NEW L, NEW v \in Views(L), NEW k \in Kilds, k \in L, NEW t \in SoundTabs
    PROVE  [v EXCEPT !.tabs[k] = t] \in Kept(v, L)
<1> DEFINE w == [v EXCEPT !.tabs[k] = t]
<1>1. w = [tabs |-> [v.tabs EXCEPT ![k] = t], active |-> v.active, region |-> v.region,
           grid |-> v.grid, attaching |-> v.attaching]
  BY ViewIs
<1>2. t # NoTabs
  BY NoneDistinct DEF SoundTabs
<1> HIDE DEF w
<1>3. w \in Views(L)
  BY <1>1, ViewIs DEF Views
<1> QED BY <1>1, <1>2, <1>3, ViewIs DEF Kept, w

\* It may start an attach, or hear of one.
LEMMA Counted ==
    ASSUME NEW L, NEW v \in Views(L), NEW n \in [Attach -> Nat]
    PROVE  [v EXCEPT !.attaching = n] \in Kept(v, L)
<1> DEFINE w == [v EXCEPT !.attaching = n]
<1>1. w = [tabs |-> v.tabs, active |-> v.active, region |-> v.region,
           grid |-> v.grid, attaching |-> n]
  BY ViewIs
<1> HIDE DEF w
<1>2. w \in Views(L)
  BY <1>1, ViewIs DEF Views
<1> QED BY <1>1, <1>2 DEF Kept, w

\* Pushing and closing keep the active tab an existing one.
LEMMA TabsGood ==
    ASSUME NEW t \in SoundTabs \cup {NoTabs}
    PROVE  /\ Push(t) \in SoundTabs /\ PushTeammate(t) \in SoundTabs
           /\ Push(t).len = OrDefault(t).len + 1
           /\ PushTeammate(t).len = OrDefault(t).len + 1 /\ OrDefault(t).len \in Nat
           /\ \A i \in Nat : t # NoTabs /\ i < t.len => Close(t, i) \in SoundTabs
<1>1. OrDefault(t) \in SoundTabs
  BY DEF OrDefault, SoundTabs
<1>2. Push(t) \in SoundTabs /\ Push(t).len = OrDefault(t).len + 1
  BY <1>1 DEF Push, SoundTabs
<1>3. PushTeammate(t) \in SoundTabs /\ PushTeammate(t).len = OrDefault(t).len + 1
  BY <1>1 DEF PushTeammate, SoundTabs
<1>4. ASSUME NEW i \in Nat, t # NoTabs, i < t.len PROVE Close(t, i) \in SoundTabs
  <2>1. t \in SoundTabs /\ t.len \in Nat /\ t.active \in Nat /\ t.active < t.len
    BY <1>4 DEF SoundTabs
  <2> DEFINE n == t.len - 1
             a == AdjustActiveAfterClose(t.active, i, n)
  <2>2. n \in Nat /\ t.active <= n
    BY <1>4, <2>1
  <2>3. a \in Nat /\ (a < n \/ (n = 0 /\ a = 0))
    BY <1>4, <2>1, <2>2 DEF AdjustActiveAfterClose
  <2>4. Close(t, i) = [len |-> n, active |-> a]
    BY DEF Close
  <2> HIDE DEF n, a
  <2> QED BY <2>2, <2>3, <2>4 DEF SoundTabs
<1> QED BY <1>1, <1>2, <1>3, <1>4 DEF SoundTabs

LEMMA ShownGood ==
    ASSUME NEW L \in SUBSET Kilds, NEW v \in Views(L), NEW k \in L, NEW i \in 0 .. MaxTabs
    PROVE  Shown(v, k, i) \in Kept(v, L)
<1> DEFINE g == PlaceInPaneGrid(v.grid, [kild |-> k, tab |-> i])
<1>1. [kild |-> k, tab |-> i] \in Pane /\ [kild |-> k, tab |-> i].kild \in L
  BY DEF Pane
<1>2. g \in Grids(L)
  BY <1>1, PlaceGood, ViewIs
<1>3. Shown(v, k, i) = Arrangement(v, g, k, "terminal")
  <2>1. Shown(v, k, i) = Shows(v, g, k, "terminal")
    BY DEF Shown, Shows
  <2> QED BY <2>1, Rearranged
<1>4. k # NoKild /\ k \in Kilds
  BY NoneDistinct
<1> HIDE DEF g
<1> QED BY <1>2, <1>3, <1>4, Arranged

LEMMA UnfocusedGood ==
    ASSUME NEW L, NEW v \in Views(L)
    PROVE  Unfocused(v) \in Kept(v, L)
<1>1. Unfocused(v) = Arrangement(v, v.grid, NoKild, "dashboard")
  <2>1. Unfocused(v) = Activates(v, NoKild, "dashboard")
    BY DEF Unfocused, Activates
  <2> QED BY <2>1, Rearranged
<1> QED BY <1>1, ViewIs, Arranged

LEMMA FocusedOnNextGood ==
    ASSUME NEW L \in SUBSET Kilds, NEW v \in Views(L)
    PROVE  FocusedOnNext(v) \in Kept(v, L)
<1> DEFINE next == NextOccupied(v.grid)
<1>1. v.grid \in Grids(L) /\ v.grid \in PaneGrid
  BY ViewIs DEF Grids
<1>2. CASE next = NoSlot
  BY <1>2, UnfocusedGood DEF FocusedOnNext
<1>3. CASE next # NoSlot
  <2> DEFINE a == v.grid.slots[next].kild
             g == SetFocus(v.grid, next)
  <2>1. next \in Occupied(v.grid)
    BY <1>1, <1>3, NextIsOccupied
  <2>2. a \in L /\ a \in Kilds /\ a # NoKild
    BY <1>1, <2>1, NoneDistinct DEF Grids
  <2>3. g \in Grids(L)
    BY <1>1, SetFocusGood
  <2>4. FocusedOnNext(v) = Turns(v, g, a)
    BY <1>3, Zenon DEF FocusedOnNext, Turns
  <2>5. FocusedOnNext(v) = Arrangement(v, g, a, v.region)
    BY <2>4, Rearranged
  <2> HIDE DEF g, a, next
  <2> QED BY <2>2, <2>3, <2>5, ViewIs, Arranged
<1> QED BY <1>2, <1>3

LEMMA WithoutPaneGood ==
    ASSUME NEW L, NEW v \in Views(L), NEW s \in Slots
    PROVE  WithoutPane(v, s) \in Kept(v, L)
<1> DEFINE g == RemovePanes(v.grid, {s})
<1>1. g \in Grids(L)
  <2>1. v.grid \in Grids(L) /\ \A a \in Occupied(v.grid) \ {s} : v.grid.slots[a].kild \in L
    BY ViewIs DEF Grids
  <2> QED BY <2>1, RemovePanesGood
<1>2. WithoutPane(v, s) = Arrangement(v, g, v.active, v.region)
  BY ViewIs DEF WithoutPane, Arrangement
<1> HIDE DEF g
<1> QED BY <1>1, <1>2, ViewIs, Arranged

LEMMA MinimizedGood ==
    ASSUME NEW L \in SUBSET Kilds, NEW v \in Views(L), NEW k, NEW i, PaneOf(v, k, i) # {}
    PROVE  Minimized(v, k, i) \in Kept(v, L)
<1> DEFINE s == Min(PaneOf(v, k, i))
           w == WithoutPane(v, s)
<1>1. s \in Slots
  <2>1. PaneOf(v, k, i) \in SUBSET Slots
    BY DEF PaneOf, FindSlot
  <2>2. s \in PaneOf(v, k, i)
    BY <2>1, MinSlot
  <2> QED BY <2>1, <2>2
<1> HIDE DEF s
<1>2. w \in Kept(v, L)
  BY <1>1, WithoutPaneGood
<1>3. FocusedOnNext(w) \in Kept(w, L)
  BY <1>2, KeptIsView, FocusedOnNextGood
<1>4. Minimized(v, k, i) = FocusedOnNext(w)
  BY DEF Minimized, s
<1> HIDE DEF w
<1> QED BY <1>2, <1>3, <1>4, KeptTwice

LEMMA SetActiveGood ==
    ASSUME NEW L \in SUBSET Kilds, NEW v \in Views(L), NEW k \in Kilds, NEW i \in Nat
    PROVE  SetActive(v, k, i) \in Kept(v, L)
<1>1. v \in Kept(v, L)
  BY DEF Kept
<1>2. CASE HasTerminal(v, k) /\ i < v.tabs[k].len
  <2> DEFINE t == [v.tabs[k] EXCEPT !.active = i]
  <2>1. k \in L /\ v.tabs[k] \in SoundTabs
    BY <1>2, ViewIs DEF HasTerminal
  <2>2. t \in SoundTabs
    BY <1>2, <2>1 DEF SoundTabs
  <2>3. SetActive(v, k, i) = [v EXCEPT !.tabs[k] = t]
    BY <1>2, ViewIs DEF SetActive
  <2> HIDE DEF t
  <2> QED BY <2>1, <2>2, <2>3, Tabbed
<1>3. CASE ~(HasTerminal(v, k) /\ i < v.tabs[k].len)
  BY <1>1, <1>3 DEF SetActive
<1> QED BY <1>2, <1>3

LEMMA RowClickedGood ==
    ASSUME NEW L \in SUBSET Kilds, NEW v \in Views(L), NEW k \in L, NEW i \in 0 .. MaxTabs
    PROVE  RowClicked(v, k, i) \in Kept(v, L)
<1>1. CASE PaneOf(v, k, i) # {}
  BY <1>1, MinimizedGood DEF RowClicked
<1>2. CASE PaneOf(v, k, i) = {}
  <2> DEFINE w == SetActive(v, k, i)
  <2>1. w \in Kept(v, L)
    BY SetActiveGood
  <2>2. Shown(w, k, i) \in Kept(w, L)
    BY <2>1, KeptIsView, ShownGood
  <2>3. RowClicked(v, k, i) = Shown(w, k, i)
    BY <1>2 DEF RowClicked
  <2> HIDE DEF w
  <2> QED BY <2>1, <2>2, <2>3, KeptTwice
<1> QED BY <1>1, <1>2

\* Selecting a kild, whose terminal may have exited and may fail to start.
LEMMA SelectionsGood ==
    ASSUME NEW L \in SUBSET Kilds, NEW v \in Views(L), NEW k \in L,
           NEW x \in Selections(v, k)
    PROVE  x \in Kept(v, L)
<1> DEFINE T(exited) == IF exited THEN Close(v.tabs[k], v.tabs[k].active) ELSE v.tabs[k]
           W(exited) == [v EXCEPT !.tabs[k] = T(exited)]
           A(w) == [w EXCEPT !.attaching[<<k, "agent">>] = @ + 1]
           P(w) == [w EXCEPT !.tabs[k] = Push(@)]
<1>1. PICK exited \in {FALSE, HasTerminal(v, k)} :
         LET w == W(exited)
         IN x \in IF HasTerminal(w, k) THEN {Shown(w, k, 0)}
                  ELSE {Shown(A(w), k, 0), Shown(P(w), k, 0), w}
  BY Zenon DEF Selections
<1> DEFINE w == W(exited)
<1>2. w \in Kept(v, L)
  <2>1. CASE exited
    <3>1. HasTerminal(v, k)
      BY <2>1
    <3>2. v.tabs[k] \in SoundTabs /\ v.tabs[k] # NoTabs /\ v.tabs[k].active < v.tabs[k].len
          /\ v.tabs[k].active \in Nat
      BY <3>1, ViewIs DEF HasTerminal, SoundTabs
    <3>3. T(exited) \in SoundTabs
      BY <2>1, <3>2, TabsGood
    <3> HIDE DEF T
    <3> QED BY <3>3, Tabbed
  <2>2. CASE ~exited
    <3>1. w = v
      BY <2>2, ViewIs
    <3> QED BY <3>1 DEF Kept
  <2> QED BY <2>1, <2>2
<1>3. x \in {Shown(w, k, 0), Shown(A(w), k, 0), Shown(P(w), k, 0), w}
  BY <1>1
<1> HIDE DEF w
<1>4. w \in Views(L) /\ k \in Kilds /\ 0 \in 0 .. MaxTabs
  BY <1>2, KeptIsView, Bounds
<1>5. A(w) \in Kept(w, L)
  <2>1. <<k, "agent">> \in Attach
    BY <1>4 DEF Attach
  <2> DEFINE n == [w.attaching EXCEPT ![<<k, "agent">>] = @ + 1]
  <2>2. n \in [Attach -> Nat]
    BY <1>4, <2>1, ViewIs
  <2>3. A(w) = [w EXCEPT !.attaching = n]
    BY <1>4, ViewIs
  <2> HIDE DEF n
  <2> QED BY <1>4, <2>2, <2>3, Counted
<1>6. P(w) \in Kept(w, L)
  <2>1. Push(w.tabs[k]) \in SoundTabs
    BY <1>4, ViewIs, TabsGood
  <2>2. P(w) = [w EXCEPT !.tabs[k] = Push(w.tabs[k])]
    BY <1>4, ViewIs
  <2> QED BY <1>4, <2>1, <2>2, Tabbed
<1> HIDE DEF A, P
<1>7. /\ Shown(w, k, 0) \in Kept(w, L)
      /\ Shown(A(w), k, 0) \in Kept(A(w), L) /\ Shown(P(w), k, 0) \in Kept(P(w), L)
  BY <1>4, <1>5, <1>6, KeptIsView, ShownGood
<1>8. /\ Shown(A(w), k, 0) \in Kept(w, L) /\ Shown(P(w), k, 0) \in Kept(w, L)
  BY <1>5, <1>6, <1>7, KeptTwice
<1> QED BY <1>2, <1>3, <1>7, <1>8, KeptTwice

\* Pruning leaves a view of the kilds that live, with their tabs.
LEMMA PrunedGood ==
    ASSUME NEW L, NEW v \in Views(L), NEW live \in SUBSET Kilds
    PROVE  /\ Pruned(v, live) \in Views(live)
           /\ \A k \in live : Pruned(v, live).tabs[k] = v.tabs[k]
           /\ Fits(v) => Fits(Pruned(v, live))
<1> DEFINE T == [k \in Kilds |-> IF k \in live THEN v.tabs[k] ELSE NoTabs]
           g == PruneGrid(v.grid, live)
           w1 == [v EXCEPT !.tabs = T]
           w == [w1 EXCEPT !.grid = g]
           gone == v.active # NoKild /\ v.active \notin live
           a == IF gone THEN NoKild ELSE v.active
           r == IF gone THEN "dashboard" ELSE v.region
           x == [tabs |-> T, active |-> a, region |-> r, grid |-> g, attaching |-> v.attaching]
<1>0. v = [tabs |-> v.tabs, active |-> v.active, region |-> v.region,
           grid |-> v.grid, attaching |-> v.attaching]
  BY ViewIs
<1>1. g \in Grids(live)
  BY ViewIs, PruneGridGood
<1>2. /\ T \in [Kilds -> SoundTabs \cup {NoTabs}]
      /\ \A k \in Kilds : T[k] # NoTabs => k \in live
      /\ \A k \in live : T[k] = v.tabs[k]
      /\ \A k \in Kilds : T[k] \in {v.tabs[k], NoTabs}
  BY ViewIs
<1>3. Pruned(v, live) = IF gone THEN Unfocused(w) ELSE w
  BY DEF Pruned
<1> HIDE DEF g, T
<1>4. w1 = [tabs |-> T, active |-> v.active, region |-> v.region, grid |-> v.grid,
            attaching |-> v.attaching]
  BY <1>0
<1> HIDE DEF w1
<1>5. w = [tabs |-> T, active |-> v.active, region |-> v.region, grid |-> g,
           attaching |-> v.attaching]
  BY <1>4
<1> HIDE DEF w
<1>6. Unfocused(w) = [tabs |-> T, active |-> NoKild, region |-> "dashboard", grid |-> g,
                      attaching |-> v.attaching]
  <2> DEFINE u == [w EXCEPT !.active = NoKild]
  <2>1. u = [tabs |-> T, active |-> NoKild, region |-> v.region, grid |-> g,
             attaching |-> v.attaching]
    BY <1>5
  <2>2. Unfocused(w) = [u EXCEPT !.region = "dashboard"]
    BY DEF Unfocused
  <2> HIDE DEF u
  <2> QED BY <2>1, <2>2
<1>7. Pruned(v, live) = x
  <2>1. CASE gone
    BY <1>3, <1>6, <2>1
  <2>2. CASE ~gone
    BY <1>3, <1>5, <2>2
  <2> QED BY <2>1, <2>2
<1>8. /\ a \in Kilds \cup {NoKild} /\ r \in {"dashboard", "terminal"}
      /\ a # NoKild => a \in live
      /\ r = "terminal" => a # NoKild
  BY ViewIs
<1>9. x.tabs = T /\ x.attaching = v.attaching
  OBVIOUS
<1> HIDE DEF a, r
<1>10. x \in Views(live)
  BY <1>1, <1>2, <1>8, ViewIs DEF Views
<1> HIDE DEF x
<1>11. ASSUME Fits(v) PROVE Fits(x)
  <2> SUFFICES ASSUME NEW k \in Kilds
               PROVE  OrDefault(x.tabs[k]).len + x.attaching[<<k, "agent">>]
                        + x.attaching[<<k, "teammate">>] <= MaxTabs
      BY DEF Fits
  <2> DEFINE m == v.attaching[<<k, "agent">>]
             n == v.attaching[<<k, "teammate">>]
             y == OrDefault(v.tabs[k]).len
             z == OrDefault(x.tabs[k]).len
  <2>1. m \in Nat /\ n \in Nat /\ MaxTabs \in Nat
    BY ViewIs, Bounds DEF Attach
  <2>2. y + m + n <= MaxTabs
    BY <1>11 DEF Fits
  <2>3. y \in Nat /\ z \in {y, 0}
    BY <1>2, <1>9, ViewIs, TabsGood DEF OrDefault
  <2>4. x.attaching[<<k, "agent">>] = m /\ x.attaching[<<k, "teammate">>] = n
    BY <1>9
  <2> HIDE DEF m, n, y, z
  <2>5. z + m + n <= MaxTabs
    BY <2>1, <2>2, <2>3
  <2> QED BY <2>4, <2>5 DEF z
<1>12. \A k \in live : x.tabs[k] = v.tabs[k]
  BY <1>2, <1>9, Zenon
<1> QED BY <1>7, <1>10, <1>11, <1>12, Zenon

LEMMA RepopulatedGood ==
    ASSUME NEW L \in SUBSET Kilds, NEW v \in Views(L), NEW x \in Repopulated(v)
    PROVE  x \in Views(L) /\ x.tabs = v.tabs /\ x.attaching = v.attaching
<1> DEFINE K == {k \in Kilds : v.tabs[k] # NoTabs}
<1>1. PICK q \in UNION {SetToSeqs(S) : S \in SUBSET K} : x = [v EXCEPT !.grid = AutoPopulate(q)]
  BY Zenon DEF Repopulated
<1>2. PICK S \in SUBSET K : q \in SetToSeqs(S)
  BY <1>1
<1>3. K \subseteq L
  BY ViewIs
<1>4. Cardinality(S) \in Nat
  BY Bounds, FS_Subset, FS_CardinalityType
<1>5. q \in [1 .. Cardinality(S) -> S]
  BY <1>2, Zenon DEF SetToSeqs
<1>6. q \in Seq(L)
  <2>1. q \in [1 .. Cardinality(S) -> L]
    BY <1>3, <1>5
  <2> QED BY <1>4, <2>1
<1>7. AutoPopulate(q) \in Grids(L)
  BY <1>6, AutoPopulateGood
<1>8. x = Arrangement(v, AutoPopulate(q), v.active, v.region)
  <2> DEFINE g == AutoPopulate(q)
  <2> HIDE DEF g
  <2>1. x = [v EXCEPT !.grid = g]
    BY <1>1 DEF g
  <2>2. x = Arrangement(v, g, v.active, v.region)
    BY <2>1, ViewIs DEF Arrangement
  <2> QED BY <2>2 DEF g
<1>9. x \in Views(L)
  BY <1>7, <1>8, Arranged, KeptIsView, ViewIs
<1> QED BY <1>8, <1>9 DEF Arrangement

\* A view of fewer kilds.
LEMMA ViewsGrow == ASSUME NEW L, NEW M, L \subseteq M PROVE Views(L) \subseteq Views(M)
<1> SUFFICES ASSUME NEW v \in Views(L) PROVE v \in Views(M)
    OBVIOUS
<1>1. v.grid \in Grids(M)
  BY ViewIs, GridsGrow
<1> QED BY <1>1, ViewIs DEF Views

\* What comes of an attach.
LEMMA AttachedGood ==
    ASSUME NEW L \in SUBSET Kilds, NEW v \in Views(L), Fits(v), NEW k \in L,
           NEW who \in {"agent", "teammate"}, v.attaching[<<k, who>>] > 0
    PROVE  Attached(v, k, who) \in Kept(v, L) /\ Fits(Attached(v, k, who))
<1> DEFINE n == [v.attaching EXCEPT ![<<k, who>>] = @ - 1]
           w == [v EXCEPT !.attaching = n]
           t == IF who = "teammate" THEN PushTeammate(v.tabs[k]) ELSE Push(v.tabs[k])
           x == [w EXCEPT !.tabs[k] = t]
           y == Attached(v, k, who)
<1>1. <<k, who>> \in Attach /\ k \in Kilds /\ k # NoKild
  BY NoneDistinct DEF Attach
<1>2. n \in [Attach -> Nat] /\ n[<<k, who>>] = v.attaching[<<k, who>>] - 1
      /\ \A a \in Attach : a # <<k, who>> => n[a] = v.attaching[a]
  BY <1>1, ViewIs
<1>3. t \in SoundTabs /\ t.len = OrDefault(v.tabs[k]).len + 1 /\ OrDefault(v.tabs[k]).len \in Nat
      /\ t # NoTabs
  BY ViewIs, TabsGood, NoneDistinct DEF SoundTabs
<1>4. w = [v EXCEPT !.attaching[<<k, who>>] = @ - 1]
  BY ViewIs
<1>5. w = [tabs |-> v.tabs, active |-> v.active, region |-> v.region,
           grid |-> v.grid, attaching |-> n]
  <2> HIDE DEF n
  <2> QED BY ViewIs
<1>6. w \in Kept(v, L)
  BY <1>2, Counted
<1>7. IF who = "teammate" THEN y = [w EXCEPT !.tabs[k] = PushTeammate(@)]
      ELSE y = [w EXCEPT !.tabs[k] = Push(@), !.active = k, !.region = "terminal"]
  BY <1>4, Zenon DEF Attached
<1> HIDE DEF n, w, t
<1>8. x \in Kept(w, L) /\ x \in Views(L)
  BY <1>1, <1>3, <1>6, KeptIsView, Tabbed
<1>9. x = [tabs |-> [v.tabs EXCEPT ![k] = t], active |-> v.active, region |-> v.region,
           grid |-> v.grid, attaching |-> n]
  BY <1>5
<1>10. y \in Kept(v, L) /\ y.tabs = x.tabs /\ y.attaching = x.attaching
  <2>1. CASE who = "teammate"
    <3>1. y = x
      BY <1>5, <1>7, <2>1 DEF t
    <3> QED BY <1>6, <1>8, <3>1, KeptTwice
  <2>2. CASE who # "teammate"
    <3>1. y = [[x EXCEPT !.active = k] EXCEPT !.region = "terminal"]
      BY <1>5, <1>7, <2>2 DEF t
    <3>2. y = Activates(x, k, "terminal")
      BY <3>1 DEF Activates
    <3>3. y = Arrangement(x, x.grid, k, "terminal")
      BY <1>8, <3>2, Rearranged
    <3> HIDE DEF x, y
    <3>4. y \in Kept(x, L)
      BY <1>1, <1>8, <3>3, Arranged, ViewIs
    <3>5. y \in Kept(v, L)
      BY <1>6, <1>8, <3>4, KeptTwice
    <3> QED BY <3>3, <3>5 DEF Arrangement
  <2> QED BY <2>1, <2>2
<1>11. x.tabs = [v.tabs EXCEPT ![k] = t] /\ x.attaching = n
  BY <1>9
<1> HIDE DEF x, y
<1>12. ASSUME NEW j \in Kilds
       PROVE  OrDefault(y.tabs[j]).len + y.attaching[<<j, "agent">>]
                + y.attaching[<<j, "teammate">>] <= MaxTabs
  <2> DEFINE a == v.attaching[<<j, "agent">>]
             b == v.attaching[<<j, "teammate">>]
             o == OrDefault(v.tabs[j]).len
  <2>1. /\ <<j, "agent">> \in Attach /\ <<j, "teammate">> \in Attach
        /\ a \in Nat /\ b \in Nat /\ MaxTabs \in Nat /\ a + b \in Nat
    BY ViewIs, Bounds DEF Attach
  <2>2. o \in Nat /\ o + a + b <= MaxTabs
    BY ViewIs, TabsGood DEF Fits
  <2>3. CASE j # k
    <3>1. <<j, "agent">> # <<k, who>> /\ <<j, "teammate">> # <<k, who>>
      BY <2>3
    <3>2. y.attaching[<<j, "agent">>] = a /\ y.attaching[<<j, "teammate">>] = b
      BY <1>2, <1>10, <1>11, <2>1, <3>1
    <3>3. y.tabs[j] = v.tabs[j]
      BY <1>10, <1>11, <2>3, ViewIs
    <3> QED BY <2>2, <3>2, <3>3
  <2>4. CASE j = k
    <3>1. y.tabs[j] = t
      BY <1>1, <1>10, <1>11, <2>4, ViewIs
    <3>2. OrDefault(y.tabs[j]).len = o + 1
      BY <1>3, <2>4, <3>1 DEF OrDefault
    <3>3. \/ y.attaching[<<j, "agent">>] = a - 1 /\ y.attaching[<<j, "teammate">>] = b
          \/ y.attaching[<<j, "agent">>] = a /\ y.attaching[<<j, "teammate">>] = b - 1
      <4>1. CASE who = "agent"
        <5>1. <<j, "teammate">> # <<k, who>> /\ <<j, "agent">> = <<k, who>>
          BY <2>4, <4>1
        <5> QED BY <1>2, <1>10, <1>11, <2>1, <5>1
      <4>2. CASE who = "teammate"
        <5>1. <<j, "agent">> # <<k, who>> /\ <<j, "teammate">> = <<k, who>>
          BY <2>4, <4>2
        <5> QED BY <1>2, <1>10, <1>11, <2>1, <5>1
      <4> QED BY <4>1, <4>2
    <3> HIDE DEF a, b, o
    <3>4. (o + 1) + (a - 1) + b <= MaxTabs /\ (o + 1) + a + (b - 1) <= MaxTabs
      BY <2>1, <2>2
    <3> QED BY <3>2, <3>3, <3>4
  <2> QED BY <2>3, <2>4
<1>13. Fits(y)
  BY <1>12 DEF Fits
<1> QED BY <1>10, <1>13 DEF y

-----------------------------------------------------------------------------
(* The main view: the invariant is inductive. *)

\* What TerminalsSurvive says of a step.
Survives ==
    \A k \in displays \cap disk :
        view.tabs[k] # NoTabs /\ view'.tabs[k] = NoTabs => displays' = {}

\* Every step keeps the invariant and the terminals of the kilds that exist.
Good == ViewInv' /\ Survives

LEMMA InitGood == ViewInit => ViewInv
<1> SUFFICES ASSUME ViewInit PROVE ViewInv
    OBVIOUS
<1>1. EmptyGrid \in Grids({})
  BY EmptyGridGood
<1>2. view = [tabs |-> [k \in Kilds |-> NoTabs], active |-> NoKild, region |-> "dashboard",
              grid |-> EmptyGrid, attaching |-> [a \in Attach |-> 0]]
  BY DEF ViewInit
<1>3. view \in Views({})
  BY <1>1, <1>2 DEF Views
<1>4. Fits(view)
  BY <1>2, Bounds DEF Fits, OrDefault, Attach
<1>5. displays \cup late = {}
  BY DEF ViewInit
<1> QED BY <1>3, <1>4, <1>5 DEF ViewInv, ViewInit, ChangesAreAnnounced

\* A handler of clicks, keys or a failed attach.
LEMMA BecomesGood ==
    ASSUME ViewInv, NEW w \in Kept(view, displays \cup late), Becomes(w)
    PROVE  Good
<1>1. /\ view' = w /\ Fits(w) /\ startup' = startup /\ disk' = disk
      /\ UNCHANGED <<events, displays, pending, late>>
  BY DEF Becomes, Up, Bounded
<1>2. w \in Views(displays \cup late) /\ \A k \in Kilds : view.tabs[k] # NoTabs => w.tabs[k] # NoTabs
  BY DEF Kept
<1>3. Survives
  BY <1>1, <1>2 DEF Survives, ViewInv
<1>4. ChangesAreAnnounced'
  BY <1>1 DEF ViewInv, ChangesAreAnnounced
<1>5. view' \in Views(displays' \cup late') /\ Fits(view)'
  BY <1>1, <1>2 DEF Fits
<1> QED BY <1>1, <1>3, <1>4, <1>5 DEF Good, ViewInv

\* A list that is that of the disk, or empty, is announced.
LEMMA ListedIsAnnounced ==
    ASSUME ViewInv, Refresh, disk' = disk
    PROVE  /\ displays' \subseteq Kilds
           /\ displays' # disk' => Cardinality(displays') # Cardinality(disk')
<1>1. disk \subseteq Kilds /\ IsFiniteSet(disk)
  BY Bounds, FS_Subset DEF ViewInv
<1>2. disk # {} => Cardinality(disk) # Cardinality({})
  BY <1>1, FS_EmptySet
<1> QED BY <1>1, <1>2 DEF Refresh

\* A handler that refreshed the list, or not, and prunes.
LEMMA PruneGood ==
    ASSUME ViewInv, PruneTerminalCache, startup' = startup, disk' = disk,
           displays' \subseteq Kilds, Refresh \/ displays' = displays,
           events' \in BOOLEAN, pending' \in BOOLEAN, startup = "up", ChangesAreAnnounced'
    PROVE  Good
<1>1. view' = Pruned(view, displays') /\ late' = {}
  BY DEF PruneTerminalCache
<1>2. /\ Pruned(view, displays') \in Views(displays')
      /\ \A k \in displays' : Pruned(view, displays').tabs[k] = view.tabs[k]
      /\ Fits(Pruned(view, displays'))
  BY PrunedGood DEF ViewInv
<1>3. Fits(view)'
  BY <1>1, <1>2 DEF Fits
<1>4. view' \in Views(displays' \cup late')
  BY <1>1, <1>2
<1>5. Survives
  BY <1>1, <1>2 DEF Survives, Refresh
<1>6. late' \subseteq Kilds /\ disk' \subseteq Kilds /\ startup' = "up"
  BY <1>1 DEF ViewInv
<1> QED BY <1>3, <1>4, <1>5, <1>6 DEF Good, ViewInv

LEMMA ListStepGood == ViewInv /\ (ListStep \/ SessionsChange) => Good
<1> SUFFICES ASSUME ViewInv, ListStep \/ SessionsChange PROVE Good
    OBVIOUS
<1>0. view' = view /\ displays' = displays /\ late' = late /\ disk' \subseteq Kilds
      /\ events' \in BOOLEAN /\ pending' \in BOOLEAN /\ startup' \in {"new", "watching", "up"}
      /\ (startup' # "up" => displays = {}) /\ ChangesAreAnnounced' => Good
  BY DEF Good, Survives, ViewInv, Fits
<1>1. CASE SessionsChange
  BY <1>0, <1>1 DEF SessionsChange, list, ViewInv, ChangesAreAnnounced
<1>2. CASE StartWatcher
  BY <1>0, <1>2 DEF StartWatcher, ViewInv, ChangesAreAnnounced
<1>3. CASE LoadSessions
  <2>1. /\ startup' = "up" /\ displays = {} /\ view' = view /\ late' = late /\ disk' = disk
        /\ events' = events /\ pending' = pending /\ Refresh
    BY <1>3 DEF LoadSessions, ViewInv
  <2>2. displays' \subseteq Kilds /\ ChangesAreAnnounced'
    BY <2>1, ListedIsAnnounced DEF ChangesAreAnnounced
  <2>3. view \in Views(displays' \cup late')
    BY <2>1, ViewsGrow DEF ViewInv
  <2>4. Survives
    BY <2>1 DEF Survives
  <2>5. Fits(view)'
    BY <2>1 DEF ViewInv, Fits
  <2> QED BY <2>1, <2>2, <2>3, <2>4, <2>5 DEF Good, ViewInv
<1>4. CASE Debounce
  BY <1>0, <1>4 DEF Debounce, Up, ViewInv, ChangesAreAnnounced
<1>5. CASE WatcherRefresh
  <2>1. Refresh /\ PruneTerminalCache /\ startup' = startup /\ disk' = disk /\ startup = "up"
        /\ events' \in BOOLEAN /\ pending' \in BOOLEAN
    BY <1>5 DEF WatcherRefresh, Up
  <2> QED BY <2>1, ListedIsAnnounced, PruneGood DEF ChangesAreAnnounced
<1>6. CASE PollTick
  <2>1. PruneTerminalCache /\ startup' = startup /\ disk' = disk /\ startup = "up"
        /\ events' = events /\ pending' = pending /\ (Refresh \/ displays' = displays)
    BY <1>6 DEF PollTick, Up
  <2>2. CASE Refresh
    BY <2>1, <2>2, ListedIsAnnounced, PruneGood DEF ChangesAreAnnounced, ViewInv
  <2>3. CASE displays' = displays
    <3>1. ChangesAreAnnounced'
      BY <2>1, <2>3 DEF ViewInv, ChangesAreAnnounced
    <3> QED BY <2>1, <2>3, <3>1, PruneGood DEF ViewInv
  <2> QED BY <2>1, <2>2, <2>3
<1>7. CASE ApplyEvents
  <2>1. Refresh /\ PruneTerminalCache /\ startup' = startup /\ disk' = disk /\ startup = "up"
        /\ events' = events /\ pending' = pending
    BY <1>7 DEF ApplyEvents, Up
  <2> QED BY <2>1, ListedIsAnnounced, PruneGood DEF ChangesAreAnnounced, ViewInv
<1>8. CASE SelectProject
  <2> DEFINE v == Pruned(view, displays)
  <2>1. /\ startup' = startup /\ disk' = disk /\ startup = "up" /\ view' \in Repopulated(v)
        /\ late' = {} /\ events' = events /\ displays' = displays /\ pending' = pending
    BY <1>8 DEF SelectProject, Up
  <2>2. displays \in SUBSET Kilds
    BY DEF ViewInv
  <2>3. v \in Views(displays) /\ Fits(v) /\ \A k \in displays : v.tabs[k] = view.tabs[k]
    BY <2>2, PrunedGood DEF ViewInv
  <2> HIDE DEF v
  <2>4. view' \in Views(displays) /\ view'.tabs = v.tabs /\ view'.attaching = v.attaching
    BY <2>1, <2>2, <2>3, RepopulatedGood
  <2>5. Fits(view)'
    BY <2>3, <2>4 DEF Fits
  <2>6. Survives
    BY <2>3, <2>4 DEF Survives
  <2>7. ChangesAreAnnounced'
    BY <2>1 DEF ViewInv, ChangesAreAnnounced
  <2>8. view' \in Views(displays' \cup late')
    BY <2>1, <2>4
  <2> QED BY <2>1, <2>5, <2>6, <2>7, <2>8 DEF Good, ViewInv
<1> QED BY <1>1, <1>2, <1>3, <1>4, <1>5, <1>6, <1>7, <1>8 DEF ListStep

\* The kilds a row or a pane can be of.
LEMMA Reached ==
    ASSUME ViewInv
    PROVE  /\ displays \cup late \in SUBSET Kilds
           /\ view \in Views(displays \cup late)
           /\ \A k \in displays : k \in displays \cup late /\ k \in Kilds
           /\ \A s : OnScreen(s) => /\ s \in Occupied(view.grid) /\ s \in Slots
                                    /\ view.grid.slots[s].kild \in displays \cup late
                                    /\ view.grid.slots[s].tab \in Nat
<1>1. displays \cup late \in SUBSET Kilds /\ view \in Views(displays \cup late)
  BY DEF ViewInv
<1>2. view.grid \in Grids(displays \cup late) /\ view.grid \in PaneGrid
  BY <1>1, ViewIs DEF Grids
<1>3. ASSUME NEW s, OnScreen(s)
      PROVE  /\ s \in Occupied(view.grid) /\ s \in Slots
             /\ view.grid.slots[s].kild \in displays \cup late
             /\ view.grid.slots[s].tab \in Nat
  <2>1. s \in Occupied(view.grid)
    BY <1>3 DEF OnScreen
  <2>2. view.grid.slots[s].tab \in 0 .. MaxTabs
    BY <1>2, <2>1, OccupiedPane
  <2> QED BY <1>2, <2>1, <2>2, OccupiedPane DEF Grids
<1> QED BY <1>1, <1>3

LEMMA InRowGood ==
    ASSUME ViewInv, NEW v \in Kept(view, displays \cup late),
           NEW k \in displays, NEW i \in 0 .. MaxTabs, InRow(v, k, i)
    PROVE  Good
<1> DEFINE L == displays \cup late
<1>1. v \in Views(L) /\ L \in SUBSET Kilds /\ k \in L
  BY Reached, KeptIsView
<1> HIDE DEF L
<1>2. RowClicked(v, k, i) \in Kept(v, L)
  BY <1>1, RowClickedGood
<1>3. RowClicked(v, k, i) \in Kept(view, L)
  BY <1>2, KeptTwice DEF L
<1> QED BY <1>3, BecomesGood DEF InRow, L

LEMMA SelectGood == ASSUME ViewInv, NEW k \in Kilds, OnKildSelect(k) \/ OnAddTerminal(k) PROVE Good
<1> DEFINE L == displays \cup late
<1>1. view \in Views(L) /\ L \in SUBSET Kilds /\ k \in L
  BY Reached DEF OnKildSelect, OnAddTerminal
<1>2. CASE OnKildSelect(k)
  <2>1. PICK v \in Selections(view, k) : Becomes(v)
    BY <1>2 DEF OnKildSelect
  <2>2. v \in Kept(view, L)
    BY <1>1, SelectionsGood
  <2> QED BY <2>1, <2>2, BecomesGood
<1>3. CASE OnAddTerminal(k)
  <2>1. PICK v \in Selections(view, k) : Becomes([v EXCEPT !.tabs[k] = Push(@)])
    BY <1>3 DEF OnAddTerminal
  <2>2. v \in Kept(view, L) /\ v \in Views(L)
    BY <1>1, SelectionsGood, KeptIsView
  <2> DEFINE x == [v EXCEPT !.tabs[k] = Push(v.tabs[k])]
  <2>3. Push(v.tabs[k]) \in SoundTabs
    BY <1>1, <2>2, ViewIs, TabsGood
  <2>4. x \in Kept(v, L)
    BY <1>1, <2>2, <2>3, Tabbed
  <2>5. x = [v EXCEPT !.tabs[k] = Push(@)]
    BY <2>2, ViewIs
  <2> HIDE DEF x
  <2>6. x \in Kept(view, L)
    BY <2>2, <2>4, KeptTwice
  <2>7. Becomes(x)
    BY <2>1, <2>5
  <2> QED BY <2>6, <2>7, BecomesGood
<1> QED BY <1>2, <1>3

LEMMA RowGood ==
    ASSUME ViewInv, NEW k \in Kilds, NEW i \in 0 .. MaxTabs - 1,
           OnSidebarTerminalClick(k, i) \/ OnMinimizeTab(k, i) \/ OnCloseTab(k, i)
    PROVE  Good
<1> DEFINE L == displays \cup late
<1>1. view \in Views(L) /\ L \in SUBSET Kilds /\ k \in displays /\ HasRow(k, i)
  BY Reached DEF OnSidebarTerminalClick, OnMinimizeTab, OnCloseTab, HasRow
<1>2. i \in 0 .. MaxTabs /\ i \in Nat /\ k \in L
  BY <1>1, Bounds
<1>3. CASE OnSidebarTerminalClick(k, i)
  <2>1. RowClicked(view, k, i) \in Kept(view, L)
    BY <1>1, <1>2, RowClickedGood
  <2> QED BY <1>3, <2>1, BecomesGood DEF OnSidebarTerminalClick
<1>4. CASE OnMinimizeTab(k, i)
  <2>1. Minimized(view, k, i) \in Kept(view, L)
    BY <1>1, <1>4, MinimizedGood DEF OnMinimizeTab
  <2> QED BY <1>1, <1>2, <1>4, <2>1, InRowGood DEF OnMinimizeTab
<1>5. CASE OnCloseTab(k, i)
  <2> DEFINE v == [view EXCEPT !.tabs[k] = Close(view.tabs[k], i)]
             w == IF v.tabs[k].len = 0 THEN Unfocused(v) ELSE v
  <2>1. view.tabs[k] # NoTabs /\ i < view.tabs[k].len
    BY <1>1 DEF HasRow, HasTerminal
  <2>2. Close(view.tabs[k], i) \in SoundTabs
    BY <1>1, <1>2, <2>1, ViewIs, TabsGood
  <2>3. v \in Kept(view, L)
    BY <1>1, <1>2, <2>2, Tabbed
  <2>4. v = [view EXCEPT !.tabs[k] = Close(@, i)]
    BY <1>1, ViewIs
  <2> HIDE DEF v
  <2>5. InRow(w, k, i)
    BY <1>5, <2>4, Zenon DEF OnCloseTab
  <2>6. Unfocused(v) \in Kept(v, L)
    BY <2>3, KeptIsView, UnfocusedGood
  <2>7. w \in Kept(view, L)
    BY <2>3, <2>6, KeptTwice
  <2> HIDE DEF w
  <2> QED BY <1>1, <1>2, <2>5, <2>7, InRowGood
<1> QED BY <1>3, <1>4, <1>5

LEMMA PaneGood ==
    ASSUME ViewInv, NEW s \in Slots, OnPaneFocus(s) \/ OnPaneMaximize(s) \/ OnPaneClose(s)
    PROVE  Good
<1> DEFINE L == displays \cup late
<1>1. /\ view \in Views(L) /\ L \in SUBSET Kilds /\ s \in Occupied(view.grid)
      /\ view.grid.slots[s].kild \in L /\ view.grid.slots[s].tab \in Nat
  BY Reached DEF OnPaneFocus, OnPaneMaximize, OnPaneClose
<1>2. CASE OnPaneFocus(s)
  <2> DEFINE p == view.grid.slots[s]
             g == SetFocus(view.grid, s)
             v == Shows(view, g, p.kild, "terminal")
             w == SetActive(v, p.kild, p.tab)
  <2>1. g \in Grids(L) /\ p.kild \in L /\ p.kild \in Kilds /\ p.kild # NoKild /\ p.tab \in Nat
    BY <1>1, ViewIs, SetFocusGood, NoneDistinct
  <2>2. Becomes(w)
    BY <1>2, Zenon DEF OnPaneFocus, Shows
  <2> HIDE DEF p, g
  <2>3. v = Arrangement(view, g, p.kild, "terminal")
    BY <1>1, Rearranged
  <2>4. v \in Kept(view, L)
    BY <1>1, <2>1, <2>3, Arranged
  <2> HIDE DEF v
  <2>5. w \in Kept(v, L)
    BY <1>1, <2>1, <2>4, KeptIsView, SetActiveGood
  <2>6. w \in Kept(view, L)
    BY <2>4, <2>5, KeptTwice
  <2> HIDE DEF w
  <2> QED BY <2>2, <2>6, BecomesGood
<1>3. CASE OnPaneMaximize(s)
  <2> DEFINE g == ToggleMaximize(view.grid, s)
             w == [view EXCEPT !.grid = g]
  <2>1. g \in Grids(L)
    BY <1>1, ViewIs, ToggleMaximizeGood
  <2>2. Becomes(w)
    BY <1>3, Zenon DEF OnPaneMaximize
  <2> HIDE DEF g
  <2>3. w = Arrangement(view, g, view.active, view.region)
    BY <1>1, ViewIs DEF Arrangement
  <2>4. w \in Kept(view, L)
    BY <1>1, <2>1, <2>3, ViewIs, Arranged
  <2> HIDE DEF w
  <2> QED BY <2>2, <2>4, BecomesGood
<1>4. CASE OnPaneClose(s)
  <2> DEFINE v == WithoutPane(view, s)
             w == IF view.grid.focused = s THEN FocusedOnNext(v) ELSE v
  <2>1. v \in Kept(view, L)
    BY <1>1, WithoutPaneGood
  <2>2. Becomes(w)
    BY <1>4, Zenon DEF OnPaneClose
  <2> HIDE DEF v
  <2>3. FocusedOnNext(v) \in Kept(v, L)
    BY <1>1, <2>1, KeptIsView, FocusedOnNextGood
  <2>4. w \in Kept(view, L)
    BY <2>1, <2>3, KeptTwice
  <2> HIDE DEF w
  <2> QED BY <2>2, <2>4, BecomesGood
<1> QED BY <1>2, <1>3, <1>4

LEMMA KeyGood ==
    ASSUME ViewInv, CycleTab \/ DeactivateTerminal \/ LeaveTerminal \/ EnterTerminal
    PROVE  Good
<1> DEFINE L == displays \cup late
<1>1. view \in Views(L) /\ L \in SUBSET Kilds
  BY Reached
<1>2. CASE CycleTab
  <2> DEFINE a == view.active
             t == view.tabs[a]
  <2>1. a \in Kilds /\ t # NoTabs /\ t.len > 1
    BY <1>1, <1>2, ViewIs DEF CycleTab, HasTerminal
  <2>2. a \in L /\ t \in SoundTabs /\ t.len \in Nat /\ t.active \in Nat
    BY <1>1, <2>1, ViewIs DEF SoundTabs
  <2>3. PICK d \in {1, t.len - 1} : Becomes([view EXCEPT !.tabs[a].active = (@ + d) % t.len])
    BY <1>2, Zenon DEF CycleTab
  <2> DEFINE n == (t.active + d) % t.len
             u == [t EXCEPT !.active = n]
             w == [view EXCEPT !.tabs[a] = u]
  <2>4. n \in Nat /\ n < t.len
    <3>1. \A x \in Nat, y \in Nat \ {0} : x % y \in 0 .. y - 1
      OBVIOUS
    <3>2. PICK x \in Nat, y \in Nat \ {0} : x = t.active + d /\ y = t.len
      BY <2>1, <2>2
    <3>3. n = x % y
      BY <3>2
    <3>4. x % y \in 0 .. y - 1
      BY <3>1
    <3> HIDE DEF n
    <3> QED BY <3>2, <3>3, <3>4
  <2>5. u \in SoundTabs
    <3> HIDE DEF n
    <3> QED BY <2>2, <2>4 DEF SoundTabs
  <2>6. w = [view EXCEPT !.tabs[a].active = (@ + d) % t.len]
    BY <1>1, <2>1, ViewIs
  <2>7. w \in Kept(view, L)
    <3> HIDE DEF u, a
    <3> QED BY <1>1, <2>1, <2>2, <2>5, Tabbed
  <2>8. Becomes(w)
    BY <2>3, <2>6
  <2> HIDE DEF w
  <2> QED BY <2>7, <2>8, BecomesGood
<1>3. CASE DeactivateTerminal
  <2>1. Unfocused(view) \in Kept(view, L)
    BY <1>1, UnfocusedGood
  <2> QED BY <1>3, <2>1, BecomesGood DEF DeactivateTerminal
<1>4. ASSUME NEW r \in {"dashboard", "terminal"}, Becomes([view EXCEPT !.region = r]),
             r = "terminal" => view.active # NoKild
      PROVE  Good
  <2> DEFINE w == [view EXCEPT !.region = r]
  <2>1. w = Arrangement(view, view.grid, view.active, r)
    BY <1>1, ViewIs DEF Arrangement
  <2>2. w \in Kept(view, L)
    BY <1>1, <1>4, <2>1, ViewIs, Arranged
  <2>3. Becomes(w)
    BY <1>4
  <2> HIDE DEF w
  <2> QED BY <2>2, <2>3, BecomesGood
<1>5. CASE LeaveTerminal
  BY <1>4, <1>5 DEF LeaveTerminal
<1>6. CASE EnterTerminal
  BY <1>4, <1>6 DEF EnterTerminal
<1> QED BY <1>2, <1>3, <1>5, <1>6

LEMMA AttachStepGood == ViewInv /\ AttachStep => Good
<1> SUFFICES ASSUME ViewInv, AttachStep PROVE Good
    OBVIOUS
<1> DEFINE L == displays \cup late
<1>1. view \in Views(L) /\ L \in SUBSET Kilds
  BY Reached
<1>2. CASE SyncTeammateTabs
  <2>1. PICK S \in SUBSET displays \ {{}} :
           Becomes([view EXCEPT !.attaching =
             [a \in Attach |-> IF a[1] \in S /\ a[2] = "teammate" THEN @[a] + 1 ELSE @[a]]])
    BY <1>2, Zenon DEF SyncTeammateTabs
  <2> DEFINE n == [a \in Attach |-> IF a[1] \in S /\ a[2] = "teammate"
                                    THEN view.attaching[a] + 1 ELSE view.attaching[a]]
  <2>2. n \in [Attach -> Nat]
    BY <1>1, ViewIs
  <2>3. Becomes([view EXCEPT !.attaching = n])
    BY <2>1
  <2> HIDE DEF n
  <2>4. [view EXCEPT !.attaching = n] \in Kept(view, L)
    BY <1>1, <2>2, Counted
  <2> QED BY <2>3, <2>4, BecomesGood
<1>3. ASSUME NEW k \in Kilds, NEW who \in {"agent", "teammate"}, AttachFails(k, who)
      PROVE  Good
  <2> DEFINE n == [view.attaching EXCEPT ![<<k, who>>] = view.attaching[<<k, who>>] - 1]
             w == [view EXCEPT !.attaching = n]
  <2>1. n \in [Attach -> Nat]
    BY <1>1, <1>3, ViewIs DEF AttachFails, Attach
  <2>2. w = [view EXCEPT !.attaching[<<k, who>>] = @ - 1]
    BY <1>1, ViewIs
  <2> HIDE DEF n
  <2>3. w \in Kept(view, L)
    BY <1>1, <2>1, Counted
  <2> HIDE DEF w
  <2> QED BY <1>3, <2>2, <2>3, BecomesGood DEF AttachFails
<1>4. ASSUME NEW k \in Kilds, NEW who \in {"agent", "teammate"}, AttachSucceeds(k, who)
      PROVE  Good
  <2> DEFINE M == displays \cup late'
             w == Attached(view, k, who)
  <2>1. /\ view' = w /\ view.attaching[<<k, who>>] > 0 /\ startup' = startup /\ disk' = disk
        /\ late' = (IF k \in displays THEN late ELSE late \cup {k})
        /\ UNCHANGED <<events, displays, pending>>
    BY <1>4 DEF AttachSucceeds, Up
  <2>2. M \in SUBSET Kilds /\ k \in M /\ L \subseteq M /\ late' \subseteq Kilds
    BY <2>1 DEF ViewInv
  <2>3. view \in Views(M) /\ Fits(view)
    BY <1>1, <2>2, ViewsGrow DEF ViewInv
  <2>4. w \in Kept(view, M) /\ Fits(w)
    BY <2>1, <2>2, <2>3, AttachedGood
  <2>5. view' \in Views(displays' \cup late') /\ Fits(view)'
    BY <2>1, <2>4, KeptIsView DEF Fits
  <2>6. Survives
    BY <2>1, <2>4 DEF Survives, Kept, ViewInv
  <2>7. ChangesAreAnnounced'
    BY <2>1 DEF ViewInv, ChangesAreAnnounced
  <2> QED BY <2>1, <2>2, <2>5, <2>6, <2>7 DEF Good, ViewInv
<1> QED BY <1>2, <1>3, <1>4, Zenon DEF AttachStep

\* ViewInv is inductive, and every step keeps the terminals.
LEMMA ViewStep == ViewInv /\ [ViewNext]_viewVars => Good
<1> SUFFICES ASSUME ViewInv, [ViewNext]_viewVars PROVE Good
    OBVIOUS
<1>1. CASE ListStep \/ SessionsChange
  BY <1>1, ListStepGood
<1>2. CASE Input
  BY <1>2, SelectGood, RowGood, PaneGood, KeyGood, Zenon DEF Input
<1>3. CASE AttachStep
  BY <1>3, AttachStepGood
<1>4. CASE UNCHANGED viewVars
  BY <1>4 DEF viewVars, Good, Survives, ViewInv, Fits, ChangesAreAnnounced
<1> QED BY <1>1, <1>2, <1>3, <1>4 DEF ViewNext

\* The inductive invariant of the main view holds.
THEOREM ViewInvariant == ViewSpec => []ViewInv
<1>1. ViewInv /\ [ViewNext]_viewVars => ViewInv'
  BY ViewStep DEF Good
<1> QED BY InitGood, <1>1, PTL DEF ViewSpec

-----------------------------------------------------------------------------
(* The main view: what follows. *)

\* The variables have their types: tabs fit, the active one is among them.
THEOREM ViewTypeCorrect == ViewSpec => []ViewTypeOK
<1>1. ViewInv => ViewTypeOK
  <2> SUFFICES ASSUME ViewInv PROVE ViewTypeOK
      OBVIOUS
  <2> DEFINE L == displays \cup late
  <2>1. view \in Views(L) /\ Fits(view)
    BY DEF ViewInv
  <2>2. ASSUME NEW k \in Kilds, NEW who \in {"agent", "teammate"}
        PROVE  /\ view.tabs[k] # NoTabs => view.tabs[k] \in TerminalTabs
               /\ view.attaching[<<k, who>>] \in 0 .. MaxTabs
    <3> DEFINE m == view.attaching[<<k, "agent">>]
               n == view.attaching[<<k, "teammate">>]
               t == OrDefault(view.tabs[k])
    <3>1. m \in Nat /\ n \in Nat /\ MaxTabs \in Nat
      BY <2>1, ViewIs, Bounds DEF Attach
    <3>2. t.len \in Nat /\ t.len + m + n <= MaxTabs
      BY <2>1, ViewIs, TabsGood DEF Fits
    <3>3. view.tabs[k] # NoTabs => view.tabs[k] \in SoundTabs /\ view.tabs[k] = t
      BY <2>1, ViewIs DEF OrDefault
    <3> HIDE DEF t
    <3>4. view.tabs[k] # NoTabs => view.tabs[k] \in TerminalTabs
      BY <3>1, <3>2, <3>3 DEF SoundTabs, TerminalTabs
    <3> QED BY <3>1, <3>2, <3>4
  <2>3. view.tabs \in [Kilds -> TerminalTabs \cup {NoTabs}]
    BY <2>1, <2>2, ViewIs
  <2>4. view.attaching \in [Attach -> 0 .. MaxTabs]
    <3>1. ASSUME NEW a \in Attach PROVE view.attaching[a] \in 0 .. MaxTabs
      <4>1. PICK k \in Kilds, who \in {"agent", "teammate"} : a = <<k, who>>
        BY DEF Attach
      <4> QED BY <2>2, <4>1
    <3> QED BY <2>1, <3>1, ViewIs
  <2>5. view \in View
    BY <2>1, <2>3, <2>4, ViewIs DEF View, Grids
  <2> QED BY <2>5 DEF ViewTypeOK, ViewInv
<1> QED BY <1>1, ViewInvariant, PTL

\* The focus order names each occupied slot once, no terminal is shown twice,
\* and the focused pane is the last to be evicted, after any sequence of
\* placements, removals, prunes and moves of the focus.
THEOREM GridsAreConsistent == ViewSpec => []GridIsConsistent
<1>1. ViewInv => GridIsConsistent
  <2> SUFFICES ASSUME ViewInv PROVE GridIsConsistent
      OBVIOUS
  <2> DEFINE g == view.grid
  <2>1. g \in PaneGrid /\ Books(g)
    BY ViewIs DEF ViewInv, Grids
  <2>2. Len(g.order) = Cardinality(Occupied(g))
    <3>1. g.order \in Seq(Slots) /\ Len(g.order) \in Nat /\ DOMAIN g.order = 1 .. Len(g.order)
      BY <2>1 DEF PaneGrid
    <3>2. g.order \in Bijection(1 .. Len(g.order), Occupied(g))
      <4>1. \A i \in 1 .. Len(g.order) : g.order[i] \in Occupied(g)
        BY <2>1, <3>1 DEF Books, Range
      <4>2. \A s \in Occupied(g) : \E i \in 1 .. Len(g.order) : g.order[i] = s
        BY <2>1, <3>1 DEF Books, Range
      <4>3. g.order \in [1 .. Len(g.order) -> Occupied(g)]
        BY <3>1, <4>1
      <4>4. \A i, j \in 1 .. Len(g.order) : g.order[i] = g.order[j] => i = j
        BY <2>1, <3>1 DEF Books, IsInjective
      <4> QED BY <4>2, <4>3, <4>4, Zenon DEF Bijection, Injection, Surjection, IsInjective
    <3>3. ExistsBijection(1 .. Len(g.order), Occupied(g))
      BY <3>2 DEF ExistsBijection
    <3> QED BY <3>1, <3>3, FS_CountingElements
  <2> QED BY <2>1, <2>2 DEF GridIsConsistent, Books
<1> QED BY <1>1, ViewInvariant, PTL

\* The active tab of a kild that has tabs is one of them, after any sequence of
\* pushes, closes and attaches.
THEOREM ActiveTabsExist == ViewSpec => []ActiveTabExists
<1>1. ViewInv => ActiveTabExists
  BY ViewIs DEF ViewInv, ActiveTabExists, HasTerminal, SoundTabs
<1> QED BY <1>1, ViewInvariant, PTL

\* Tabs, panes and the active terminal are of kilds that are listed, but for
\* those a late attach brought back since the last prune.
THEOREM ViewsStayListed == ViewSpec => []ViewsAreListed
<1>1. ViewInv => ViewsAreListed
  BY ViewIs DEF ViewInv, ViewsAreListed, Grids
<1> QED BY <1>1, ViewInvariant, PTL

\* The keyboard focus is never on a terminal when none is active.
THEOREM FocusedTerminalExists == ViewSpec => []FocusHasTerminal
<1>1. ViewInv => FocusHasTerminal
  BY ViewIs DEF ViewInv, FocusHasTerminal
<1> QED BY <1>1, ViewInvariant, PTL

\* No change of the sessions directory is forgotten, for any number of kilds.
THEOREM NoChangeIsForgotten == ViewSpec => []ChangesAreAnnounced
<1>1. ViewInv => ChangesAreAnnounced
  BY DEF ViewInv
<1> QED BY <1>1, ViewInvariant, PTL

\* No step drops the tabs of a listed kild that has a session file, unless its
\* listing fails.
THEOREM TerminalsAreKept == ViewSpec => TerminalsSurvive
<1>1. ViewInv /\ [ViewNext]_viewVars => [Survives]_viewVars
  BY ViewStep DEF Good
<1>2. [Survives]_viewVars
      => [\A k \in displays \cap disk :
             view.tabs[k] # NoTabs /\ view'.tabs[k] = NoTabs => displays' = {}]_viewVars
  BY DEF Survives
<1> QED BY <1>1, <1>2, ViewInvariant, PTL DEF ViewSpec, TerminalsSurvive
=============================================================================
