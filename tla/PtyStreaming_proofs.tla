------------------------- MODULE PtyStreaming_proofs -------------------------
(***************************************************************************)
(* StreamInv of PtyStreaming is inductive, for any number of clients,      *)
(* tasks, chunks and any capacity: the scrollback is always the tail of    *)
(* the output, and no streaming task ever skips output silently.  With     *)
(* AnswerHoldsWriter, no task's output comes between an Attach's answers.  *)
(***************************************************************************)
EXTENDS PtyStreaming, Integers, SequenceTheorems, TLAPS

\* The byte positions of the output are numbers.
LEMMA PositionsAreNat ==
    ASSUME out \in Seq(Chunk)
    PROVE  /\ \A i \in 0 .. Len(out) : EndOf(i) \in Nat
           /\ Total \in Nat
<1>1. Len(out) \in Nat /\ \A i \in 1 .. Len(out) : out[i] \in Chunk
  OBVIOUS
<1>2. \A i \in 1 .. Len(out) : out[i].end \in Nat
  BY <1>1 DEF Chunk
<1>3. \A i \in 0 .. Len(out) : i = 0 \/ i \in 1 .. Len(out)
  BY <1>1
<1>4. \A i \in 0 .. Len(out) : EndOf(i) \in Nat
  BY <1>2, <1>3 DEF EndOf
<1> QED
  BY <1>1, <1>4 DEF Total

\* What ScrollbackBuffer::push leaves is again the tail of all bytes pushed,
\* whether or not the new data alone fills the ring.
LEMMA PushKeepsTail ==
    ASSUME NEW t \in Nat, NEW n \in Nat \ {0}, NEW sb \in [from : Nat, to : Nat],
           sb.to = t,
           sb.from = IF t > ScrollCap THEN t - ScrollCap ELSE 0
    PROVE  /\ Push(sb, n) \in [from : Nat, to : Nat]
           /\ Push(sb, n).to = t + n
           /\ Push(sb, n).from = IF t + n > ScrollCap THEN t + n - ScrollCap ELSE 0
  BY Bounds DEF Push

\* The initial state satisfies the invariant.
LEMMA InitInv == Init => StreamInv
<1> SUFFICES ASSUME Init PROVE StreamInv
    OBVIOUS
<1>1. NoTask \in Task
  BY DEF NoTask, Task, NotPending, Pending
<1>2. TypeOK
  <2>1. /\ <<>> \in Seq(Chunk) /\ <<>> \in Seq(Message)
        /\ [from |-> 0, to |-> 0] \in [from : Nat, to : Nat]
    OBVIOUS
  <2> QED
    BY <1>1, <2>1, Zenon DEF Init, TypeOK
<1>3. OutputGrows /\ ScrollbackIsTail
  BY Bounds DEF Init, OutputGrows, ScrollbackIsTail, Total, EndOf
<1>4. \A a \in Streams : ~Live(a)
  BY DEF Init, Live, NoTask
<1>5. Receivers /\ StreamIsGapless
  BY <1>4 DEF Receivers, StreamIsGapless
<1>6. OpeningTask
  BY DEF Init, OpeningTask
<1> QED
  BY <1>2, <1>3, <1>5, <1>6 DEF StreamInv

-----------------------------------------------------------------------------
(* Steps that leave the output, the tasks and the openings alone. *)

\* The parts of the invariant that do not speak of types.
Stream == OutputGrows /\ ScrollbackIsTail /\ Receivers /\ OpeningTask
          /\ StreamIsGapless

LEMMA StreamUnchanged ==
    ASSUME Stream, UNCHANGED <<out, scrollback, reader, task, opening>>
    PROVE  Stream'
  BY DEF Stream, OutputGrows, ScrollbackIsTail, Receivers, OpeningTask,
         StreamIsGapless, Live, FirstDue, Sent, StartOf, EndOf, Total

-----------------------------------------------------------------------------
(* The reader. *)

\* A chunk that is pushed continues the output; no receiver has passed it.
LEMMA PushStep ==
    ASSUME TypeOK, Stream, NEW n \in ChunkBytes, ReaderPush(n)
    PROVE  TypeOK' /\ Stream'
<1> DEFINE chunk == [end |-> Total + n]
<1>1. n \in Nat \ {0}
  BY Bounds
<1>2. /\ \A i \in 0 .. Len(out) : EndOf(i) \in Nat
      /\ Total \in Nat
  BY PositionsAreNat DEF TypeOK
<1>a. chunk \in Chunk
  BY <1>1, <1>2 DEF TypeOK, Chunk
<1>3. /\ out' = Append(out, chunk)
      /\ reader = "reading" /\ reader' = "sending"
      /\ scrollback' = Push(scrollback, n)
      /\ task' = task /\ opening' = opening
  BY DEF ReaderPush, serve
<1> HIDE DEF chunk
<1>4. /\ out' \in Seq(Chunk)
      /\ Len(out') = Len(out) + 1
      /\ Len(out) \in Nat
      /\ \A i \in 1 .. Len(out) : out'[i] = out[i]
      /\ out'[Len(out) + 1] = chunk
  BY <1>3, <1>a DEF TypeOK
<1>5. chunk.end = Total + n
  BY DEF chunk
<1>6. /\ \A i \in 0 .. Len(out) : EndOf(i)' = EndOf(i)
      /\ \A i : i = Len(out) + 1 => EndOf(i)' = Total + n
      /\ Total' = Total + n
  <2>1. \A i \in 0 .. Len(out) : i = 0 \/ i \in 1 .. Len(out)
    BY <1>4
  <2>2. \A i \in 0 .. Len(out) : EndOf(i)' = EndOf(i)
    BY <2>1, <1>4 DEF EndOf
  <2>3. Len(out) + 1 # 0
    BY <1>4
  <2>4. \A i : i = Len(out) + 1 => EndOf(i)' = Total + n
    BY <2>3, <1>4, <1>5 DEF EndOf
  <2>5. Total' = Total + n
    BY <2>3, <1>4, <1>5 DEF EndOf, Total
  <2> QED
    BY <2>2, <2>4, <2>5
<1>7. /\ scrollback' \in [from : Nat, to : Nat]
      /\ ScrollbackIsTail'
  <2>1. /\ scrollback \in [from : Nat, to : Nat]
        /\ scrollback.to = Total
        /\ scrollback.from = IF Total > ScrollCap THEN Total - ScrollCap ELSE 0
    BY DEF TypeOK, Stream, ScrollbackIsTail
  <2>2. /\ Push(scrollback, n) \in [from : Nat, to : Nat]
        /\ Push(scrollback, n).to = Total + n
        /\ Push(scrollback, n).from = IF Total + n > ScrollCap
                                      THEN Total + n - ScrollCap ELSE 0
    BY <2>1, <1>1, <1>2, PushKeepsTail
  <2>3. scrollback' = Push(scrollback, n) /\ Total' = Total + n
    BY <1>3, <1>6
  <2>4. /\ scrollback'.to = Total'
        /\ scrollback'.from = IF Total' > ScrollCap THEN Total' - ScrollCap ELSE 0
    <3>1. /\ scrollback'.to = Total + n
          /\ scrollback'.from = IF Total + n > ScrollCap
                                THEN Total + n - ScrollCap ELSE 0
      BY <2>2, <2>3
    <3> QED
      BY <3>1, <2>3, <1>1, <1>2, Bounds
  <2>5. ScrollbackIsTail'
    BY <2>4 DEF ScrollbackIsTail
  <2> QED
    BY <2>2, <2>3, <2>5
<1>8. TypeOK'
  BY <1>4, <1>7 DEF TypeOK, ReaderPush, sess, serve
<1>9. OutputGrows'
  <2>1. \A i \in 1 .. Len(out) : EndOf(i - 1)' < EndOf(i)'
    BY <1>4, <1>6 DEF Stream, OutputGrows, StartOf
  <2>2. \A i : i = Len(out) + 1 => EndOf(i - 1)' < EndOf(i)'
    <3>1. EndOf(Len(out)) = Total /\ Len(out) + 1 - 1 = Len(out)
      BY <1>4 DEF Total
    <3> QED
      BY <3>1, <1>1, <1>2, <1>4, <1>6
  <2>3. \A i \in 1 .. Len(out)' : i \in 1 .. Len(out) \/ i = Len(out) + 1
    BY <1>4
  <2> QED
    BY <2>1, <2>2, <2>3, <1>3, <1>4 DEF OutputGrows, StartOf
<1>10. Sent = Len(out) /\ Sent' = Len(out)
  BY <1>3, <1>4 DEF Sent
<1>11. Receivers'
  BY <1>3, <1>10 DEF Stream, Receivers, Live
<1>12. OpeningTask'
  BY <1>3 DEF Stream, OpeningTask
<1>13. StreamIsGapless'
  <2> SUFFICES ASSUME NEW a \in Streams, Live(a), NEW d, d = FirstDue(a)
               PROVE  IF d > Len(out) + 1 THEN task[a].upto = Total + n
                      ELSE /\ EndOf(d - 1)' <= task[a].upto
                           /\ task[a].upto <= EndOf(d)'
    BY <1>3, <1>4, <1>6 DEF StreamIsGapless, Live, FirstDue, StartOf
  <2>1. task[a] \in Task
    BY DEF TypeOK
  <2>2. d \in 1 .. Len(out) + 1
    BY <2>1, <1>4, <1>10 DEF Stream, Receivers, FirstDue, Task, Pending, NotPending
  <2>3. CASE d = Len(out) + 1
    <3>1. task[a].upto = Total
      <4>1. d > Len(out)
        BY <2>3, <1>4
      <4> QED
        BY <4>1, Zenon DEF Stream, StreamIsGapless
    <3>2. EndOf(d - 1)' = Total /\ EndOf(d)' = Total + n
      <4>1. d - 1 = Len(out) /\ Len(out) \in 0 .. Len(out)
        BY <2>3, <1>4
      <4> QED
        BY <4>1, <2>3, <1>6 DEF Total
    <3> QED
      BY <3>1, <3>2, <2>3, <1>1, <1>2, <1>4
  <2>4. CASE d \in 1 .. Len(out)
    <3>1. /\ EndOf(d - 1) <= task[a].upto
          /\ task[a].upto <= EndOf(d)
      BY <2>4, <1>4 DEF Stream, StreamIsGapless, StartOf
    <3>2. d \in 0 .. Len(out) /\ d - 1 \in 0 .. Len(out)
      BY <2>4, <1>4
    <3> QED
      BY <3>1, <3>2, <2>4, <1>4, <1>6
  <2> QED
    BY <2>2, <2>3, <2>4, <1>4
<1> QED
  BY <1>7, <1>8, <1>9, <1>11, <1>12, <1>13 DEF Stream

\* The reader sends its chunk, or ends: the receivers fall no further behind
\* than before.
LEMMA ReaderStep ==
    ASSUME TypeOK, Stream, ReaderSend \/ ReaderEnds
    PROVE  TypeOK' /\ Stream'
<1>1. /\ out' = out /\ scrollback' = scrollback
      /\ task' = task /\ opening' = opening
      /\ reader # reader' /\ reader' # "sending" /\ reader' \in {"reading", "ended"}
  BY DEF ReaderSend, ReaderEnds, serve
<1>2. TypeOK'
  BY <1>1 DEF TypeOK, ReaderSend, ReaderEnds, sess, serve
<1>3. Len(out) \in Nat /\ Sent <= Sent' /\ Sent \in Int /\ Sent' \in Nat
  BY <1>1 DEF TypeOK, Sent
<1>4. Receivers'
  <2> SUFFICES ASSUME NEW a \in Streams, Live(a)
               PROVE  IF task[a].pending = NotPending THEN task[a].next <= Sent' + 1
                      ELSE /\ task[a].pending.lo \in 1 .. task[a].pending.hi
                           /\ task[a].next = task[a].pending.hi + 1
                           /\ task[a].pending.hi <= Sent'
    BY <1>1 DEF Receivers, Live
  <2>1. task[a] \in Task
    BY DEF TypeOK
  <2> QED
    BY <2>1, <1>3 DEF Stream, Receivers, Task, Pending, NotPending
<1>5. /\ OutputGrows' /\ ScrollbackIsTail' /\ OpeningTask' /\ StreamIsGapless'
  BY <1>1 DEF Stream, OutputGrows, ScrollbackIsTail, OpeningTask,
              StreamIsGapless, Live, FirstDue, StartOf, EndOf, Total
<1> QED
  BY <1>2, <1>4, <1>5 DEF Stream

-----------------------------------------------------------------------------
(* Attach and its answer. *)

\* The messages of the handlers are messages.
LEMMA MsgType ==
    ASSUME NEW kind \in {"answer", "ack", "event", "replay", "chunk", "lag"},
           NEW a \in Streams \cup {NoStream}
    PROVE  Msg(kind, a) \in Message
  BY DEF Msg, Message

\* A receiver subscribed now, with the replay or without, misses nothing and
\* repeats at most the chunk being sent.
LEMMA AttachStep ==
    ASSUME TypeOK, Stream, NEW c \in Clients, NEW a \in Streams,
           NEW dims \in Sizes, NEW resized \in BOOLEAN,
           Attach(c, a, dims, resized)
    PROVE  TypeOK' /\ Stream'
<1> DEFINE changed == size # dims
           replay  == ~changed /\ scrollback.to > scrollback.from
           given   == IF replay THEN scrollback.to ELSE EndOf(Sent)
           opened  == [state |-> "answering", client |-> c, next |-> Subscribed,
                       pending |-> NotPending, upto |-> given]
           batch   == <<Msg("ack", a)>>
                      \o (IF ~resized \/ changed THEN <<Msg("event", a)>>
                                                 ELSE <<>>)
                      \o (IF replay THEN <<Msg("replay", a)>> ELSE <<>>)
<1>1. /\ UNCHANGED <<out, scrollback, reader, child, session, lock, handler, sock,
                     conn, shutdown>>
      /\ task[a] = NoTask
      /\ task' = [task EXCEPT ![a] = opened]
      /\ resp' = [resp EXCEPT ![c] = batch]
      /\ opening' = [opening EXCEPT ![c] = a]
      /\ size' \in Sizes
      /\ attached' = attached \cup {c}
  BY DEF Attach, pty, TypeOK
<1>2. /\ \A i \in 0 .. Len(out) : EndOf(i) \in Nat
      /\ Total \in Nat /\ Len(out) \in Nat
  BY PositionsAreNat DEF TypeOK
<1>3. /\ Sent \in 0 .. Len(out)
      /\ reader = "sending" => Len(out) > 0 /\ Sent = Len(out) - 1
      /\ reader # "sending" => Sent = Len(out)
  BY <1>2 DEF Stream, OutputGrows, Sent
<1>4. scrollback.to = Total
  BY DEF Stream, ScrollbackIsTail
<1>5. given \in Nat /\ given \in {Total, EndOf(Sent)}
  BY <1>2, <1>3, <1>4
<1>6. opened \in Task
  BY <1>3, <1>5 DEF Task, Pending, NotPending, Subscribed
<1>7. batch \in Seq(Message)
  <2>1. /\ Msg("ack", a) \in Message /\ Msg("event", a) \in Message
        /\ Msg("replay", a) \in Message
    BY MsgType
  <2> HIDE DEF replay, changed
  <2>2. /\ <<Msg("ack", a)>> \in Seq(Message)
        /\ (IF ~resized \/ changed THEN <<Msg("event", a)>> ELSE <<>>) \in Seq(Message)
        /\ (IF replay THEN <<Msg("replay", a)>> ELSE <<>>) \in Seq(Message)
    BY <2>1
  <2> QED
    BY <2>2
<1>8. /\ opened.state = "answering" /\ opened.client = c
      /\ opened.next = Sent + 1 /\ opened.pending = NotPending
      /\ opened.upto = given
  BY DEF Subscribed
<1> HIDE DEF changed, replay, given, opened, batch
<1>9. TypeOK'
  BY <1>1, <1>6, <1>7 DEF TypeOK
<1>10. /\ task'[a] = opened
       /\ \A b \in Streams \ {a} : task'[b] = task[b]
       /\ opening'[c] = a
       /\ \A d \in Clients \ {c} : opening'[d] = opening[d]
  BY <1>1 DEF TypeOK
<1>11. Sent' = Sent /\ Total' = Total /\ \A i : EndOf(i)' = EndOf(i)
  BY <1>1 DEF Sent, Total, EndOf
<1>12. OutputGrows' /\ ScrollbackIsTail'
  BY <1>1 DEF Stream, OutputGrows, ScrollbackIsTail, StartOf, EndOf, Total
<1>13. Receivers'
  <2> SUFFICES ASSUME NEW b \in Streams, Live(b)'
               PROVE  IF task'[b].pending = NotPending THEN task'[b].next <= Sent + 1
                      ELSE /\ task'[b].pending.lo \in 1 .. task'[b].pending.hi
                           /\ task'[b].next = task'[b].pending.hi + 1
                           /\ task'[b].pending.hi <= Sent
    BY <1>11 DEF Receivers, NotPending
  <2>1. CASE b = a
    BY <2>1, <1>3, <1>8, <1>10
  <2>2. CASE b # a
    BY <2>2, <1>10 DEF Stream, Receivers, Live
  <2> QED
    BY <2>1, <2>2
<1>14. OpeningTask'
  <2> SUFFICES ASSUME NEW d \in Clients, opening'[d] # NoStream
               PROVE  task'[opening'[d]].state = "answering" /\ task'[opening'[d]].client = d
    BY DEF OpeningTask
  <2>1. CASE d = c
    BY <2>1, <1>8, <1>10
  <2>2. CASE d # c
    <3>1. /\ opening[d] \in Streams
          /\ task[opening[d]].state = "answering" /\ task[opening[d]].client = d
      BY <2>2, <1>10 DEF Stream, OpeningTask, TypeOK
    <3>2. opening[d] # a
      BY <3>1, <1>1 DEF NoTask
    <3> QED
      BY <3>1, <3>2, <2>2, <1>10
  <2> QED
    BY <2>1, <2>2
<1>15. StreamIsGapless'
  <2> SUFFICES ASSUME NEW b \in Streams, Live(b)', NEW d, d = FirstDue(b)'
               PROVE  IF d > Len(out) THEN task'[b].upto = Total
                      ELSE /\ EndOf(d - 1) <= task'[b].upto
                           /\ task'[b].upto <= EndOf(d)
    BY <1>1, <1>11 DEF StreamIsGapless, StartOf
  <2>1. CASE b = a
    <3>1. d = Sent + 1 /\ task'[b].upto = given
      BY <2>1, <1>8, <1>10 DEF FirstDue, NotPending
    <3>2. CASE reader = "sending"
      <4>1. d = Len(out) /\ d - 1 = Sent /\ d \in 1 .. Len(out)
        BY <3>1, <3>2, <1>2, <1>3
      <4>2. StartOf(d) < EndOf(d) /\ StartOf(d) = EndOf(Sent) /\ EndOf(d) = Total
        BY <4>1 DEF Stream, OutputGrows, StartOf, Total
      <4>3. EndOf(Sent) \in Nat
        BY <1>2, <1>3
      <4> QED
        BY <4>1, <4>2, <4>3, <3>1, <1>2, <1>5
    <3>3. CASE reader # "sending"
      BY <3>1, <3>3, <1>2, <1>3, <1>5 DEF Total
    <3> QED
      BY <3>2, <3>3
  <2>2. CASE b # a
    <3>1. Live(b) /\ d = FirstDue(b) /\ task'[b] = task[b]
      BY <2>2, <1>10 DEF Live, FirstDue, NotPending
    <3> QED
      BY <3>1 DEF Stream, StreamIsGapless, StartOf
  <2> QED
    BY <2>1, <2>2
<1> QED
  BY <1>9, <1>12, <1>13, <1>14, <1>15 DEF Stream

\* A step that only ends some task, or makes one that was answering stream,
\* and closes an opening: the receivers stay where they are.
LEMMA TaskStateStep ==
    ASSUME TypeOK, Stream, NEW c \in Clients, opening[c] # NoStream,
           NEW st \in {"streaming", "ended"},
           task' = [task EXCEPT ![opening[c]].state = st],
           opening' = [opening EXCEPT ![c] = NoStream],
           UNCHANGED <<out, scrollback, reader>>
    PROVE  task' \in [Streams -> Task] /\ Stream'
<1> DEFINE a == opening[c]
<1>1. /\ a \in Streams
      /\ task[a].state = "answering" /\ task[a].client = c
  BY DEF TypeOK, Stream, OpeningTask
<1> HIDE DEF a
<1>2. task' = [task EXCEPT ![a].state = st]
  BY DEF a
<1>3. \A b \in Streams : task[b] \in Task
  BY DEF TypeOK
<1>4. /\ task'[a] = [task[a] EXCEPT !.state = st]
      /\ \A b \in Streams \ {a} : task'[b] = task[b]
  BY <1>1, <1>2 DEF TypeOK
<1>5. /\ task'[a] \in Task
      /\ task'[a].state = st /\ task'[a].client = c
      /\ task'[a].next = task[a].next /\ task'[a].pending = task[a].pending
      /\ task'[a].upto = task[a].upto
  BY <1>1, <1>3, <1>4 DEF Task
<1>6. task' \in [Streams -> Task]
  BY <1>1, <1>2, <1>3, <1>5 DEF TypeOK
<1>7. \A b \in Streams :
         /\ Live(b)' => Live(b)
         /\ task'[b].next = task[b].next /\ task'[b].pending = task[b].pending
         /\ task'[b].upto = task[b].upto
         /\ FirstDue(b)' = FirstDue(b)
  BY <1>1, <1>4, <1>5 DEF Live, FirstDue, NotPending
<1>8. /\ Sent' = Sent /\ Total' = Total /\ Len(out') = Len(out)
      /\ \A i : EndOf(i)' = EndOf(i) /\ StartOf(i)' = StartOf(i)
  BY DEF Sent, Total, EndOf, StartOf
<1>9. OutputGrows' /\ ScrollbackIsTail'
  BY DEF Stream, OutputGrows, ScrollbackIsTail, StartOf, EndOf, Total
<1>10. Receivers'
  BY <1>7, <1>8 DEF Stream, Receivers, NotPending
<1>11. OpeningTask'
  <2> SUFFICES ASSUME NEW d \in Clients, opening'[d] # NoStream
               PROVE  task'[opening'[d]].state = "answering" /\ task'[opening'[d]].client = d
    BY DEF OpeningTask
  <2>1. d # c /\ opening'[d] = opening[d]
    BY DEF TypeOK
  <2>2. /\ opening[d] \in Streams
        /\ task[opening[d]].state = "answering" /\ task[opening[d]].client = d
    BY <2>1 DEF Stream, OpeningTask, TypeOK
  <2>3. opening[d] # a
    BY <2>1, <2>2, <1>1
  <2>4. task'[opening[d]] = task[opening[d]]
    BY <2>2, <2>3, <1>4
  <2> QED
    BY <2>1, <2>2, <2>4
<1>12. StreamIsGapless'
  <2> SUFFICES ASSUME NEW b \in Streams, Live(b)', NEW d, d = FirstDue(b)'
               PROVE  IF d > Len(out) THEN task'[b].upto = Total
                      ELSE /\ EndOf(d - 1) <= task'[b].upto
                           /\ task'[b].upto <= EndOf(d)
    BY <1>8 DEF StreamIsGapless, StartOf
  <2>1. Live(b) /\ d = FirstDue(b) /\ task'[b].upto = task[b].upto
    BY <1>7
  <2> QED
    BY <2>1 DEF Stream, StreamIsGapless, StartOf
<1> QED
  BY <1>6, <1>9, <1>10, <1>11, <1>12 DEF Stream

-----------------------------------------------------------------------------
(* The streaming tasks. *)

\* A step that changes one task, keeping its client and not its state, or
\* ending it, and of which what is due next is again covered by what the
\* client has been given.
LEMMA OneTaskStep ==
    ASSUME TypeOK, Stream, NEW a \in Streams, NEW new \in Task,
           task[a].state = "streaming",
           new.state \in {"streaming", "ended"},
           task' = [task EXCEPT ![a] = new],
           UNCHANGED <<out, scrollback, reader, opening>>,
           NEW due, due = IF new.pending = NotPending THEN new.next ELSE new.pending.lo,
           new.state = "streaming" =>
              /\ IF new.pending = NotPending THEN new.next <= Sent + 1
                 ELSE /\ new.pending.lo \in 1 .. new.pending.hi
                      /\ new.next = new.pending.hi + 1
                      /\ new.pending.hi <= Sent
              /\ IF due > Len(out) THEN new.upto = Total
                 ELSE StartOf(due) <= new.upto /\ new.upto <= EndOf(due)
    PROVE  task' \in [Streams -> Task] /\ Stream'
<1>1. task' \in [Streams -> Task]
  BY DEF TypeOK
<1>2. /\ task'[a] = new
      /\ \A b \in Streams \ {a} : task'[b] = task[b]
  BY DEF TypeOK
<1>3. /\ Sent' = Sent /\ Total' = Total /\ Len(out') = Len(out)
      /\ \A i : EndOf(i)' = EndOf(i) /\ StartOf(i)' = StartOf(i)
  BY DEF Sent, Total, EndOf, StartOf
<1>4. OutputGrows' /\ ScrollbackIsTail'
  BY DEF Stream, OutputGrows, ScrollbackIsTail, StartOf, EndOf, Total
<1>5. Receivers'
  <2> SUFFICES ASSUME NEW b \in Streams, Live(b)'
               PROVE  IF task'[b].pending = NotPending THEN task'[b].next <= Sent + 1
                      ELSE /\ task'[b].pending.lo \in 1 .. task'[b].pending.hi
                           /\ task'[b].next = task'[b].pending.hi + 1
                           /\ task'[b].pending.hi <= Sent
    BY <1>3 DEF Receivers, NotPending
  <2>1. CASE b = a
    BY <2>1, <1>2 DEF Live
  <2>2. CASE b # a
    BY <2>2, <1>2 DEF Stream, Receivers, Live
  <2> QED
    BY <2>1, <2>2
<1>6. OpeningTask'
  <2> SUFFICES ASSUME NEW d \in Clients, opening[d] # NoStream
               PROVE  task'[opening[d]].state = "answering" /\ task'[opening[d]].client = d
    BY DEF OpeningTask
  <2>1. /\ opening[d] \in Streams
        /\ task[opening[d]].state = "answering" /\ task[opening[d]].client = d
    BY DEF Stream, OpeningTask, TypeOK
  <2> QED
    BY <2>1, <1>2
<1>7. StreamIsGapless'
  <2> SUFFICES ASSUME NEW b \in Streams, Live(b)', NEW d, d = FirstDue(b)'
               PROVE  IF d > Len(out) THEN task'[b].upto = Total
                      ELSE /\ StartOf(d) <= task'[b].upto
                           /\ task'[b].upto <= EndOf(d)
    BY <1>3 DEF StreamIsGapless
  <2>1. CASE b = a
    <3>1. d = due
      BY <2>1, <1>2 DEF FirstDue, NotPending
    <3> QED
      BY <3>1, <2>1, <1>2 DEF Live
  <2>2. CASE b # a
    <3>1. Live(b) /\ d = FirstDue(b) /\ task'[b] = task[b]
      BY <2>2, <1>2 DEF Live, FirstDue, NotPending
    <3> QED
      BY <3>1 DEF Stream, StreamIsGapless
  <2> QED
    BY <2>1, <2>2
<1> QED
  BY <1>1, <1>4, <1>5, <1>6, <1>7 DEF Stream

\* What the invariant says of one live task.
LEMMA LiveTask ==
    ASSUME TypeOK, Stream, NEW a \in Streams, task[a].state = "streaming"
    PROVE  /\ task[a] \in Task
           /\ IF task[a].pending = NotPending THEN task[a].next <= Sent + 1
              ELSE /\ task[a].pending.lo \in 1 .. task[a].pending.hi
                   /\ task[a].next = task[a].pending.hi + 1
                   /\ task[a].pending.hi <= Sent
           /\ IF FirstDue(a) > Len(out) THEN task[a].upto = Total
              ELSE /\ StartOf(FirstDue(a)) <= task[a].upto
                   /\ task[a].upto <= EndOf(FirstDue(a))
           /\ Len(out) \in Nat /\ Sent \in 0 .. Len(out)
<1>1. Len(out) \in Nat /\ task[a] \in Task
  BY DEF TypeOK
<1>2. Sent \in 0 .. Len(out)
  BY <1>1 DEF Stream, OutputGrows, Sent
<1>3. Live(a)
  BY DEF Live
<1> QED
  BY <1>1, <1>2, <1>3 DEF Stream, Receivers, StreamIsGapless

\* Receiving, in order or with a lag, leaves what is due unchanged.
LEMMA RecvStep ==
    ASSUME TypeOK, Stream, NEW a \in Streams, Recv(a)
    PROVE  TypeOK' /\ Stream'
<1> DEFINE n   == task[a].next
           lag == n < Oldest
           got == IF lag THEN [kind |-> "lag", lo |-> n, hi |-> Oldest - 1]
                  ELSE [kind |-> "chunk", lo |-> n, hi |-> n]
           nxt == IF lag THEN Oldest ELSE n + 1
           new == [task[a] EXCEPT !.pending = got, !.next = nxt]
<1>1. /\ task[a].state = "streaming" /\ task[a].pending = NotPending
      /\ n <= Sent
      /\ task' = [task EXCEPT ![a] = new]
      /\ UNCHANGED <<out, scrollback, reader, opening>>
  BY DEF Recv, Waiting, pty, serve, TypeOK
<1>2. /\ task[a] \in Task /\ FirstDue(a) = n
      /\ Len(out) \in Nat /\ Sent \in 0 .. Len(out) /\ n \in Nat \ {0}
      /\ IF n > Len(out) THEN task[a].upto = Total
         ELSE StartOf(n) <= task[a].upto /\ task[a].upto <= EndOf(n)
  <2>1. FirstDue(a) = n
    BY <1>1 DEF FirstDue
  <2>2. task[a] \in Task /\ n \in Nat \ {0}
    BY DEF TypeOK, Task
  <2> QED
    BY <2>1, <2>2, <1>1, LiveTask
<1>3. Oldest \in 1 .. Sent
  BY <1>1, <1>2, Bounds DEF Oldest
<1>4. /\ new.state = "streaming" /\ new.upto = task[a].upto
      /\ new.client = task[a].client
      /\ new.pending.lo = n /\ new.pending # NotPending
      /\ new.pending.hi = IF lag THEN Oldest - 1 ELSE n
      /\ new.next = IF lag THEN Oldest ELSE n + 1
      /\ new \in Task
  <2>1. /\ got \in Pending /\ got.lo = n /\ got # NotPending
        /\ got.hi = IF lag THEN Oldest - 1 ELSE n
    BY <1>2, <1>3 DEF Pending, NotPending
  <2>2. nxt \in Nat \ {0}
    BY <1>2, <1>3
  <2> HIDE DEF got
  <2>3. /\ new.pending = got /\ new.next = nxt /\ new.state = "streaming"
        /\ new.upto = task[a].upto /\ new.client = task[a].client
    BY <1>1, <1>2 DEF Task
  <2>4. new \in Task
    <3> HIDE DEF nxt
    <3> QED
      BY <2>1, <2>2, <1>2 DEF Task
  <2> QED
    BY <2>1, <2>3, <2>4
<1>5. /\ new.pending.lo \in 1 .. new.pending.hi
      /\ new.next = new.pending.hi + 1
      /\ new.pending.hi <= Sent
  BY <1>1, <1>2, <1>3, <1>4
<1> HIDE DEF new
<1>6. IF n > Len(out) THEN new.upto = Total
      ELSE StartOf(n) <= new.upto /\ new.upto <= EndOf(n)
  BY <1>2, <1>4
<1>7. task' \in [Streams -> Task] /\ Stream'
  <2> HIDE DEF n
  <2> QED
    BY <1>1, <1>4, <1>5, <1>6, OneTaskStep
<1> QED
  BY <1>7 DEF TypeOK, Recv, pty, sess, serve

\* Once the chunk, or the notice of a lag, is written, what is due begins
\* where the client has been brought up to.
LEMMA WriteStep ==
    ASSUME TypeOK, Stream, NEW a \in Streams, WriteOutput(a)
    PROVE  TypeOK' /\ Stream'
<1> DEFINE p   == task[a].pending
           new == [task[a] EXCEPT !.pending = NotPending, !.upto = EndOf(p.hi)]
           c   == task[a].client
<1>1. /\ task[a].state = "streaming" /\ p # NotPending
      /\ task' = [task EXCEPT ![a] = new]
      /\ UNCHANGED <<out, scrollback, reader, opening>>
      /\ sock' = [sock EXCEPT ![c] = Append(@, Msg(p.kind, a))]
  BY DEF WriteOutput, pty, serve, TypeOK
<1>2. /\ task[a] \in Task
      /\ p.lo \in 1 .. p.hi /\ task[a].next = p.hi + 1 /\ p.hi <= Sent
      /\ Len(out) \in Nat /\ Sent \in 0 .. Len(out)
      /\ p \in Pending
  <2>1. task[a] \in Task /\ p \in Pending
    BY <1>1 DEF TypeOK, Task
  <2> QED
    BY <2>1, <1>1, LiveTask
<1>3. p.hi \in 1 .. Len(out) /\ EndOf(p.hi) \in Nat
  <2>1. p.hi \in 1 .. Len(out)
    BY <1>2 DEF Pending
  <2>2. \A i \in 0 .. Len(out) : EndOf(i) \in Nat
    BY PositionsAreNat DEF TypeOK
  <2> QED
    BY <2>1, <2>2, <1>2
<1>4. /\ new.state = "streaming" /\ new.upto = EndOf(p.hi)
      /\ new.client = c /\ new.pending = NotPending
      /\ new.next = p.hi + 1 /\ new \in Task
  BY <1>1, <1>2, <1>3 DEF Task, Pending, NotPending
<1>5. IF p.hi + 1 > Len(out) THEN new.upto = Total
      ELSE StartOf(p.hi + 1) <= new.upto /\ new.upto <= EndOf(p.hi + 1)
  <2>1. CASE p.hi = Len(out)
    BY <2>1, <1>2, <1>4 DEF Total
  <2>2. CASE p.hi < Len(out)
    <3>1. p.hi + 1 \in 1 .. Len(out) /\ (p.hi + 1) - 1 = p.hi
      BY <2>2, <1>2, <1>3
    <3>2. StartOf(p.hi + 1) = EndOf(p.hi) /\ StartOf(p.hi + 1) < EndOf(p.hi + 1)
      BY <3>1 DEF Stream, OutputGrows, StartOf
    <3>3. EndOf(p.hi + 1) \in Nat
      <4>1. \A i \in 0 .. Len(out) : EndOf(i) \in Nat
        BY PositionsAreNat DEF TypeOK
      <4> QED
        BY <4>1, <3>1
    <3> QED
      BY <3>1, <3>2, <3>3, <1>2, <1>3, <1>4
  <2> QED
    BY <2>1, <2>2, <1>2, <1>3
<1>6. sock' \in [Clients -> Seq(Message)]
  <2>1. p.kind \in {"chunk", "lag"}
    BY <1>2 DEF Pending
  <2>2. Msg(p.kind, a) \in Message
    BY <2>1, MsgType
  <2>3. sock \in [Clients -> Seq(Message)]
    BY DEF TypeOK
  <2> DEFINE m == Msg(p.kind, a)
  <2>4. m \in Message /\ sock' = [sock EXCEPT ![c] = Append(sock[c], m)]
    BY <2>2, <1>1
  <2> HIDE DEF m, c
  <2>5. c \in Clients => Append(sock[c], m) \in Seq(Message)
    BY <2>3, <2>4
  <2> QED
    BY <2>3, <2>4, <2>5
<1> HIDE DEF new
<1>7. task' \in [Streams -> Task] /\ Stream'
  <2>1. p.hi + 1 <= Sent + 1
    BY <1>2, <1>3
  <2> QED
    BY <2>1, <1>1, <1>4, <1>5, OneTaskStep
<1> QED
  BY <1>6, <1>7 DEF TypeOK, WriteOutput, pty, sess, serve

\* A task that ends is no receiver any more.
LEMMA EndTaskStep ==
    ASSUME TypeOK, Stream, NEW a \in Streams, task[a].state = "streaming",
           EndTask(a)
    PROVE  TypeOK' /\ Stream'
<1> DEFINE new == [task[a] EXCEPT !.state = "ended", !.pending = NotPending]
<1>1. /\ task' = [task EXCEPT ![a] = new]
      /\ UNCHANGED <<out, scrollback, reader, opening>>
  BY DEF EndTask, pty, serve, TypeOK
<1>2. new \in Task /\ new.state = "ended"
  BY DEF TypeOK, Task
<1> HIDE DEF new
<1>3. task' \in [Streams -> Task] /\ Stream'
  BY <1>1, <1>2, OneTaskStep
<1> QED
  BY <1>3 DEF TypeOK, EndTask, pty, sess, serve

-----------------------------------------------------------------------------
(* The handlers' answers. *)

\* A written answer is part of the answer; the last message of an Attach's
\* lets its task stream.
LEMMA ResponseStep ==
    ASSUME TypeOK, Stream, NEW c \in Clients,
           WriteResponse(c) \/ WriteResponseFails(c)
    PROVE  TypeOK' /\ Stream'
<1>1. /\ resp[c] # <<>> /\ resp[c] \in Seq(Message) /\ sock \in [Clients -> Seq(Message)]
      /\ UNCHANGED <<out, scrollback, reader, child, session, size, attached,
                     handler, conn, shutdown>>
  BY DEF TypeOK, WriteResponse, WriteResponseFails, pty, sess
<1>2. \/ task' = task /\ opening' = opening
      \/ task' = task /\ opening[c] = NoStream
                      /\ opening' = [opening EXCEPT ![c] = NoStream]
      \/ /\ opening[c] # NoStream
         /\ opening' = [opening EXCEPT ![c] = NoStream]
         /\ \E st \in {"streaming", "ended"} :
               task' = [task EXCEPT ![opening[c]].state = st]
  BY DEF WriteResponse, WriteResponseFails
<1>3. /\ task' \in [Streams -> Task] /\ Stream'
      /\ opening' \in [Clients -> Streams \cup {NoStream}]
  <2>1. CASE task' = task /\ opening' = opening
    BY <2>1, <1>1, StreamUnchanged DEF TypeOK
  <2>2. CASE /\ task' = task /\ opening[c] = NoStream
             /\ opening' = [opening EXCEPT ![c] = NoStream]
    <3>1. opening' = opening
      BY <2>2 DEF TypeOK
    <3> QED
      BY <3>1, <2>2, <1>1, StreamUnchanged DEF TypeOK
  <2>3. ASSUME NEW st \in {"streaming", "ended"},
               opening[c] # NoStream,
               opening' = [opening EXCEPT ![c] = NoStream],
               task' = [task EXCEPT ![opening[c]].state = st]
        PROVE  /\ task' \in [Streams -> Task] /\ Stream'
               /\ opening' \in [Clients -> Streams \cup {NoStream}]
    <3>1. task' \in [Streams -> Task] /\ Stream'
      BY <2>3, <1>1, TaskStateStep
    <3> QED
      BY <3>1, <2>3 DEF TypeOK
  <2> QED
    BY <1>2, <2>1, <2>2, <2>3
<1>4. /\ resp' \in [Clients -> Seq(Message)]
      /\ sock' \in [Clients -> Seq(Message)]
      /\ lock' \in [Clients -> BOOLEAN]
  <2>1. /\ Tail(resp[c]) \in Seq(Message)
        /\ Append(sock[c], Head(resp[c])) \in Seq(Message)
        /\ <<>> \in Seq(Message)
        /\ (Len(resp[c]) > 1) \in BOOLEAN
    BY <1>1
  <2>2. CASE WriteResponse(c)
    BY <2>1, <2>2 DEF TypeOK, WriteResponse
  <2>3. CASE WriteResponseFails(c)
    BY <2>1, <2>3 DEF TypeOK, WriteResponseFails
  <2> QED
    BY <2>2, <2>3
<1> QED
  BY <1>1, <1>3, <1>4 DEF TypeOK

\* An answer to a request that touches neither the output nor a task.
LEMMA AnswerStep ==
    ASSUME TypeOK, Stream, NEW c \in Clients, Answer(c),
           size' \in Sizes, attached' \subseteq Clients
    PROVE  TypeOK' /\ Stream'
<1>1. Msg("answer", NoStream) \in Message
  BY MsgType
<1>2. resp' \in [Clients -> Seq(Message)]
  <2>1. <<Msg("answer", NoStream)>> \in Seq(Message)
    BY <1>1
  <2> QED
    BY <2>1 DEF TypeOK, Answer
<1>3. TypeOK'
  BY <1>2 DEF TypeOK, Answer, pty
<1> QED
  BY <1>3, StreamUnchanged DEF Answer, pty

-----------------------------------------------------------------------------
(* Every step preserves the invariant. *)

LEMMA NextInv == StreamInv /\ [Next]_vars => StreamInv'
<1> SUFFICES ASSUME TypeOK, Stream, [Next]_vars
             PROVE  TypeOK' /\ Stream'
    BY DEF StreamInv, Stream
<1>1. CASE UNCHANGED vars
  <2>1. TypeOK'
    BY <1>1 DEF vars, TypeOK
  <2> QED
    BY <2>1, <1>1, StreamUnchanged DEF vars
<1>2. CASE PtyStep
  <2>1. ASSUME NEW n \in ChunkBytes, ReaderPush(n) PROVE TypeOK' /\ Stream'
    BY <2>1, PushStep
  <2>2. CASE ReaderSend \/ ReaderEnds
    BY <2>2, ReaderStep
  <2>3. CASE ChildExits \/ HandlePtyExit \/ StopSession \/ CancelShutdownToken
    <3>1. TypeOK'
      BY <2>3 DEF TypeOK, ChildExits, HandlePtyExit, StopSession,
                  CancelShutdownToken, pty, sess, serve
    <3> QED
      BY <3>1, <2>3, StreamUnchanged DEF ChildExits, HandlePtyExit, StopSession,
                  CancelShutdownToken, pty, sess, serve
  <2> QED
    BY <1>2, <2>1, <2>2, <2>3 DEF PtyStep
<1>3. ASSUME NEW c \in Clients, HandlerStep(c) PROVE TypeOK' /\ Stream'
  <2>1. ASSUME NEW a \in Streams, NEW dims \in Sizes, NEW resized \in BOOLEAN,
               Attach(c, a, dims, resized)
        PROVE  TypeOK' /\ Stream'
    BY <2>1, AttachStep
  <2>2. CASE AttachRefused(c) \/ Detach(c) \/ ResizeRefused(c)
    <3>1. Answer(c) /\ size' \in Sizes /\ attached' \subseteq Clients
      BY <2>2 DEF AttachRefused, Detach, ResizeRefused, TypeOK
    <3> QED
      BY <3>1, AnswerStep
  <2>3. ASSUME NEW dims \in Sizes, ResizePty(c, dims) PROVE TypeOK' /\ Stream'
    <3>1. Answer(c) /\ size' \in Sizes /\ attached' \subseteq Clients
      BY <2>3 DEF ResizePty, TypeOK
    <3> QED
      BY <3>1, AnswerStep
  <2>4. CASE WriteResponse(c) \/ WriteResponseFails(c)
    BY <2>4, ResponseStep
  <2>5. CASE HandlerEnds(c)
    <3>1. TypeOK'
      BY <2>5 DEF HandlerEnds, TypeOK, pty
    <3> QED
      BY <3>1, <2>5, StreamUnchanged DEF HandlerEnds, pty
  <2> QED
    BY <1>3, <2>1, <2>2, <2>3, <2>4, <2>5 DEF HandlerStep
<1>4. ASSUME NEW c \in Clients, ClientStep(c) PROVE TypeOK' /\ Stream'
  <2>1. UNCHANGED <<pty, sess, task, serve, shutdown>>
    BY <1>4 DEF ClientStep, ClientReads, ClientSeesEof, ClientCloses, Leave
  <2>2. /\ sock' \in [Clients -> Seq(Message)]
        /\ conn' \in [Clients -> {"open", "left"}]
    <3>1. <<>> \in Seq(Message)
      OBVIOUS
    <3>2. CASE ClientReads(c)
      <4>1. Tail(sock[c]) \in Seq(Message)
        BY <3>2 DEF ClientReads, TypeOK
      <4> QED
        BY <4>1, <3>2 DEF ClientReads, TypeOK
    <3>3. CASE Leave(c)
      BY <3>1, <3>3 DEF Leave, TypeOK
    <3> QED
      BY <1>4, <3>2, <3>3 DEF ClientStep, ClientSeesEof, ClientCloses
  <2>3. TypeOK'
    BY <2>1, <2>2 DEF TypeOK, pty, sess, serve
  <2> QED
    BY <2>1, <2>3, StreamUnchanged DEF pty, serve
<1>5. ASSUME NEW a \in Streams, TaskStep(a) PROVE TypeOK' /\ Stream'
  <2>1. CASE Recv(a)
    BY <2>1, RecvStep
  <2>2. CASE WriteOutput(a)
    BY <2>2, WriteStep
  <2>3. CASE WriteOutputFails(a) \/ StreamEnds(a)
    <3>1. task[a].state = "streaming" /\ EndTask(a)
      BY <2>3 DEF WriteOutputFails, StreamEnds, Waiting
    <3> QED
      BY <3>1, EndTaskStep
  <2> QED
    BY <1>5, <2>1, <2>2, <2>3 DEF TaskStep
<1> QED
  BY <1>1, <1>2, <1>3, <1>4, <1>5 DEF Next, Terminated

\* StreamInv holds in every reachable state.
THEOREM StreamInvariant == Spec => []StreamInv
<1>1. Init => StreamInv
  BY InitInv
<1>2. StreamInv /\ [Next]_vars => StreamInv'
  BY NextInv
<1> QED
  BY <1>1, <1>2, PTL DEF Spec

\* The variables keep their types: every message written is one of the
\* protocol's, every receiver position is past zero.
THEOREM StreamTypeCorrect == Spec => []TypeOK
<1>1. StreamInv => TypeOK
  BY DEF StreamInv
<1> QED
  BY <1>1, StreamInvariant, PTL

\* Whatever is pushed, ScrollbackBuffer holds the last ScrollCap bytes of the
\* child's output and nothing else.
THEOREM ScrollbackCorrect == Spec => []ScrollbackIsTail
<1>1. StreamInv => ScrollbackIsTail
  BY DEF StreamInv
<1> QED
  BY <1>1, StreamInvariant, PTL

\* A client that attaches, at any moment and however slow it is, is given
\* output without a silent gap and at most one chunk twice: subscribing
\* before capturing the scrollback (connection.rs) is enough.
THEOREM NoSilentGap == Spec => []StreamIsGapless
<1>1. StreamInv => StreamIsGapless
  BY DEF StreamInv
<1> QED
  BY <1>1, StreamInvariant, PTL

-----------------------------------------------------------------------------
(* What a connection writes while an Attach is being answered. *)

\* The answer to an Attach begins with its only ack; once the ack is written,
\* and until the last message is, the handler has its connection's writer.
Holds(c) == /\ resp[c] # <<>>
            /\ \A i \in 2 .. Len(resp[c]) : resp[c][i].kind # "ack"
            /\ Head(resp[c]).kind # "ack" => lock[c]

AnswerHoldsWriter == \A c \in Clients : opening[c] # NoStream => Holds(c)

LEMMA InitHoldsWriter == Init => AnswerHoldsWriter
  BY DEF Init, AnswerHoldsWriter, Holds

\* An Attach puts its ack first and nothing but events and a replay after.
LEMMA AttachAnswer ==
    ASSUME TypeOK, NEW c \in Clients, NEW a \in Streams, NEW dims \in Sizes,
           NEW resized \in BOOLEAN, Attach(c, a, dims, resized)
    PROVE  /\ resp'[c] # <<>> /\ Head(resp'[c]).kind = "ack"
           /\ \A i \in 2 .. Len(resp'[c]) : resp'[c][i].kind # "ack"
           /\ \A d \in Clients \ {c} : resp'[d] = resp[d] /\ opening'[d] = opening[d]
           /\ lock' = lock
<1> DEFINE ack    == Msg("ack", a)
           event  == Msg("event", a)
           replay == Msg("replay", a)
<1>1. PICK resize \in BOOLEAN, again \in BOOLEAN :
         resp' = [resp EXCEPT ![c] = <<ack>>
                                     \o (IF resize THEN <<event>> ELSE <<>>)
                                     \o (IF again THEN <<replay>> ELSE <<>>)]
  <2> DEFINE changed == size # dims
             shown   == ~changed /\ scrollback.to > scrollback.from
  <2>1. (~resized \/ changed) \in BOOLEAN /\ shown \in BOOLEAN
    OBVIOUS
  <2> QED
    BY <2>1, Zenon DEF Attach
<1>2. /\ ack.kind = "ack" /\ event.kind # "ack" /\ replay.kind # "ack"
      /\ ack \in Message /\ event \in Message /\ replay \in Message
  BY MsgType DEF Msg
<1>3. /\ \A d \in Clients \ {c} : resp'[d] = resp[d] /\ opening'[d] = opening[d]
      /\ lock' = lock
  BY DEF Attach, TypeOK
<1> DEFINE told  == IF resize THEN <<event>> ELSE <<>>
           more == IF again THEN <<replay>> ELSE <<>>
           batch == <<ack>> \o told \o more
<1>4. resp'[c] = batch
  BY <1>1 DEF TypeOK
<1>5. /\ told \in Seq(Message) /\ more \in Seq(Message) /\ <<ack>> \in Seq(Message)
      /\ \A i \in 1 .. Len(told) : told[i].kind # "ack"
      /\ \A i \in 1 .. Len(more) : more[i].kind # "ack"
      /\ Len(<<ack>>) = 1 /\ <<ack>>[1] = ack
  <2> HIDE DEF ack, event, replay
  <2> QED
    BY <1>2
<1>6. ack.kind = "ack"
  BY <1>2
<1> HIDE DEF ack, told, more
<1>7. /\ batch # <<>> /\ Head(batch) = ack
      /\ \A i \in 2 .. Len(batch) : batch[i].kind # "ack"
  <2> DEFINE first == <<ack>>
  <2>1. first \in Seq(Message) /\ Len(first) = 1 /\ first[1] = ack
    BY <1>5
  <2> HIDE DEF first
  <2> DEFINE front == first \o told
  <2>2. /\ front \in Seq(Message) /\ Len(front) = 1 + Len(told)
        /\ front[1] = ack
        /\ \A i \in 2 .. Len(front) : front[i].kind # "ack"
    <3>1. /\ front \in Seq(Message) /\ Len(front) = 1 + Len(told)
          /\ \A i \in 1 .. 1 + Len(told) :
                front[i] = IF i <= 1 THEN first[i] ELSE told[i - 1]
      <4>1. /\ front \in Seq(Message) /\ Len(front) = Len(first) + Len(told)
            /\ \A i \in 1 .. Len(first) + Len(told) :
                  front[i] = IF i <= Len(first) THEN first[i] ELSE told[i - Len(first)]
        BY <2>1, <1>5, ConcatProperties
      <4> HIDE DEF front
      <4> QED
        BY <4>1, <2>1
    <3> HIDE DEF front
    <3> QED
      BY <3>1, <2>1, <1>5
  <2>3. batch = front \o more
    BY DEF first
  <2> HIDE DEF front, batch
  <2>4. /\ batch \in Seq(Message) /\ Len(batch) = Len(front) + Len(more)
        /\ \A i \in 1 .. Len(front) + Len(more) :
              batch[i] = IF i <= Len(front) THEN front[i] ELSE more[i - Len(front)]
    BY <2>2, <2>3, <1>5, ConcatProperties
  <2> DEFINE m == Len(told)
             n == Len(more)
  <2>len. m \in Nat /\ n \in Nat /\ Len(front) = 1 + m /\ Len(batch) = 1 + m + n
    <3>1. m \in Nat /\ n \in Nat
      BY <1>5, LenProperties
    <3>2. Len(front) = 1 + m
      BY <2>2
    <3>3. Len(batch) = Len(front) + n
      BY <2>4
    <3> QED
      BY <3>1, <3>2, <3>3
  <2>told. \A i \in 1 .. Len(more) : more[i].kind # "ack"
    BY <1>5
  <2> HIDE DEF m
  <2>5. batch # <<>> /\ Head(batch) = ack
    <3>1. 1 \in 1 .. Len(front) + Len(more) /\ 1 <= Len(front)
      BY <2>len
    <3>2. batch[1] = front[1]
      BY <3>1, <2>4
    <3>3. Len(batch) # 0
      <4> HIDE DEF n
      <4> QED
        BY <2>len
    <3>4. batch # <<>>
      BY <3>3, EmptySeq
    <3>5. Head(batch) = batch[1]
      BY <3>4, <2>4, HeadTailProperties
    <3> QED
      BY <3>2, <3>4, <3>5, <2>2
  <2>6. \A i \in 2 .. Len(batch) : batch[i].kind # "ack"
    <3> SUFFICES ASSUME NEW i \in 2 .. Len(batch) PROVE batch[i].kind # "ack"
        OBVIOUS
    <3>0. i \in 1 .. Len(front) + Len(more)
      BY <2>len
    <3>1. CASE i <= Len(front)
      <4>1. batch[i] = front[i]
        BY <3>0, <3>1, <2>4
      <4>2. i \in 2 .. Len(front)
        BY <3>1, <2>len
      <4> QED
        BY <4>1, <4>2, <2>2
    <3>2. CASE ~(i <= Len(front))
      <4>1. batch[i] = more[i - Len(front)]
        BY <3>0, <3>2, <2>4
      <4>2. i - Len(front) \in 1 .. Len(more)
        BY <3>2, <2>len
      <4> QED
        BY <4>1, <4>2, <2>told
    <3> QED
      BY <3>1, <3>2
  <2> QED
    BY <2>5, <2>6
<1> QED
  BY <1>3, <1>4, <1>6, <1>7

\* While a handler writes an answer it takes no request, and each message it
\* writes leaves the rest of the answer with the writer held.
LEMMA NextHoldsWriter ==
    TypeOK /\ AnswerHoldsWriter /\ [Next]_vars => AnswerHoldsWriter'
<1> SUFFICES ASSUME TypeOK, AnswerHoldsWriter, [Next]_vars,
                    NEW d \in Clients, opening'[d] # NoStream
             PROVE  Holds(d)'
    BY DEF AnswerHoldsWriter
<1>1. CASE resp'[d] = resp[d] /\ opening'[d] = opening[d] /\ lock'[d] = lock[d]
  BY <1>1 DEF AnswerHoldsWriter, Holds
<1>2. CASE UNCHANGED serve
  BY <1>1, <1>2 DEF serve
<1>3. ASSUME NEW c \in Clients, HandlerStep(c) PROVE Holds(d)'
  <2>1. ASSUME NEW a \in Streams, NEW dims \in Sizes, NEW resized \in BOOLEAN,
               Attach(c, a, dims, resized)
        PROVE  Holds(d)'
    <3>1. CASE d = c
      BY <2>1, <3>1, AttachAnswer DEF Holds
    <3>2. CASE d # c
      BY <2>1, <3>2, <1>1, AttachAnswer
    <3> QED
      BY <3>1, <3>2
  <2>2. ASSUME Request(c), Answer(c) PROVE Holds(d)'
    <3>1. /\ opening' = opening /\ lock' = lock
          /\ d # c => resp'[d] = resp[d]
      BY <2>2 DEF Answer, TypeOK
    <3>2. d # c
      BY <2>2, <3>1 DEF Request, Idle, AnswerHoldsWriter, Holds
    <3> QED
      BY <1>1, <3>1, <3>2
  <2>3. CASE AttachRefused(c) \/ Detach(c) \/ ResizeRefused(c)
    BY <2>2, <2>3 DEF AttachRefused, Detach, ResizeRefused
  <2>4. ASSUME NEW dims \in Sizes, ResizePty(c, dims) PROVE Holds(d)'
    BY <2>2, <2>4 DEF ResizePty
  <2>5. CASE WriteResponse(c)
    <3>1. CASE d # c
      BY <2>5, <3>1, <1>1 DEF WriteResponse, TypeOK
    <3>2. CASE d = c
      <4>1. /\ resp[c] \in Seq(Message) /\ resp[c] # <<>>
            /\ resp'[c] = Tail(resp[c])
            /\ lock'[c] = (Len(resp[c]) > 1)
            /\ opening[c] # NoStream /\ Len(resp[c]) # 1
        BY <2>5, <3>2 DEF WriteResponse, TypeOK
      <4>2. /\ Len(resp[c]) > 1 /\ resp'[c] # <<>>
            /\ Len(resp'[c]) = Len(resp[c]) - 1 /\ Len(resp[c]) \in Nat
            /\ \A i \in 1 .. Len(resp'[c]) : resp'[c][i] = resp[c][i + 1]
        <5> DEFINE s == resp[c]
        <5>1. s \in Seq(Message) /\ s # <<>>
          BY <4>1
        <5>a. Len(s) # 1
          BY <4>1
        <5> HIDE DEF s
        <5>2. /\ Tail(s) \in Seq(Message) /\ Len(Tail(s)) = Len(s) - 1
              /\ \A i \in 1 .. Len(Tail(s)) : Tail(s)[i] = s[i + 1]
          BY <5>1, HeadTailProperties
        <5>3. Len(s) > 1 /\ Len(s) \in Nat
          <6>1. Len(s) \in Nat \ {0}
            BY <5>1, EmptySeq
          <6> DEFINE n == Len(s)
          <6>2. n \in Nat \ {0} /\ n # 1
            BY <6>1, <5>a
          <6> HIDE DEF n
          <6>3. n > 1 /\ n \in Nat
            BY <6>2
          <6> QED
            BY <6>3 DEF n
        <5>4. Len(Tail(s)) # 0
          BY <5>2, <5>3
        <5>5. Tail(s) # <<>>
          BY <5>4, EmptySeq
        <5> QED
          BY <5>2, <5>3, <5>5, <4>1 DEF s
      <4>3. \A i \in 2 .. Len(resp[c]) : resp[c][i].kind # "ack"
        BY <4>1 DEF AnswerHoldsWriter, Holds
      <4>4. \A i \in 2 .. Len(resp'[c]) : resp'[c][i].kind # "ack"
        BY <4>2, <4>3
      <4> QED
        BY <3>2, <4>1, <4>2, <4>4 DEF Holds
    <3> QED
      BY <3>1, <3>2
  <2>6. CASE WriteResponseFails(c)
    <3>1. CASE d # c
      BY <2>6, <3>1, <1>1 DEF WriteResponseFails, TypeOK
    <3>2. CASE d = c
      BY <2>6, <3>2 DEF WriteResponseFails, TypeOK
    <3> QED
      BY <3>1, <3>2
  <2>7. CASE HandlerEnds(c)
    BY <2>7, <1>1 DEF HandlerEnds
  <2> QED
    BY <1>3, <2>1, <2>3, <2>4, <2>5, <2>6, <2>7 DEF HandlerStep
<1>4. CASE PtyStep
  BY <1>4, <1>2 DEF PtyStep, ReaderPush, ReaderSend, ReaderEnds, ChildExits,
                    HandlePtyExit, StopSession, CancelShutdownToken
<1>5. ASSUME NEW c \in Clients, ClientStep(c) PROVE Holds(d)'
  BY <1>5, <1>2 DEF ClientStep, ClientReads, ClientSeesEof, ClientCloses, Leave
<1>6. ASSUME NEW a \in Streams, TaskStep(a) PROVE Holds(d)'
  BY <1>6, <1>2 DEF TaskStep, Recv, WriteOutput, WriteOutputFails, StreamEnds,
                    EndTask
<1>7. CASE UNCHANGED vars
  BY <1>7, <1>2 DEF vars, serve
<1> QED
  BY <1>3, <1>4, <1>5, <1>6, <1>7 DEF Next, Terminated

\* Only the handler of a connection and the streaming tasks of its client
\* make its socket longer.
LEMMA SocketGrows ==
    ASSUME TypeOK, [Next]_vars, NEW c \in Clients, Len(sock'[c]) > Len(sock[c])
    PROVE  \/ WriteResponse(c)
           \/ \E a \in Streams : WriteOutput(a) /\ task[a].client = c
<1>1. sock[c] \in Seq(Message) /\ Len(sock[c]) \in Nat /\ sock'[c] # sock[c]
  BY DEF TypeOK
<1>2. sock' # sock
  BY <1>1
<1>3. ~(PtyStep \/ UNCHANGED vars)
  BY <1>2 DEF PtyStep, ReaderPush, ReaderSend, ReaderEnds, ChildExits,
              HandlePtyExit, StopSession, CancelShutdownToken, vars
<1>4. ASSUME NEW d \in Clients, HandlerStep(d) PROVE WriteResponse(c)
  <2>1. WriteResponse(d)
    BY <1>2, <1>4 DEF HandlerStep, Attach, AttachRefused, Detach, ResizePty,
                      ResizeRefused, Answer, WriteResponseFails, HandlerEnds
  <2>2. d = c
    BY <1>1, <2>1 DEF WriteResponse, TypeOK
  <2> QED
    BY <2>1, <2>2
<1>5. ASSUME NEW d \in Clients, ClientStep(d) PROVE FALSE
  <2>1. CASE ClientReads(d)
    <3>1. d = c
      BY <1>1, <2>1 DEF ClientReads, TypeOK
    <3>2. sock'[c] = Tail(sock[c]) /\ sock[c] # <<>>
      BY <2>1, <3>1 DEF ClientReads, TypeOK
    <3> QED
      BY <1>1, <3>2
  <2>2. CASE Leave(d)
    <3>1. d = c
      BY <1>1, <2>2 DEF Leave, TypeOK
    <3>2. sock'[c] = <<>>
      BY <2>2, <3>1 DEF Leave, TypeOK
    <3> QED
      BY <1>1, <3>2
  <2> QED
    BY <1>5, <2>1, <2>2 DEF ClientStep, ClientSeesEof, ClientCloses
<1>6. ASSUME NEW a \in Streams, TaskStep(a)
      PROVE  WriteOutput(a) /\ task[a].client = c
  <2>1. WriteOutput(a)
    BY <1>2, <1>6 DEF TaskStep, Recv, WriteOutputFails, StreamEnds, EndTask
  <2>2. task[a].client = c
    BY <1>1, <2>1 DEF WriteOutput, TypeOK
  <2> QED
    BY <2>1, <2>2
<1> QED
  BY <1>3, <1>4, <1>5, <1>6 DEF Next, Terminated

\* "the streaming task cannot interleave before replay is complete"
\* (connection.rs): from the ack of an Attach to the last message of its
\* answer, what enters the socket is that answer, however many tasks of
\* earlier attachments have output for the same client.
THEOREM ReplayIsUnbroken == Spec => ReplayUnbroken
<1>1. /\ Init => AnswerHoldsWriter
      /\ TypeOK /\ AnswerHoldsWriter /\ [Next]_vars => AnswerHoldsWriter'
  BY InitHoldsWriter, NextHoldsWriter
<1>2. ASSUME TypeOK, AnswerHoldsWriter, [Next]_vars, NEW c \in Clients,
             opening[c] # NoStream, Head(resp[c]).kind # "ack",
             Len(sock'[c]) > Len(sock[c])
      PROVE  sock'[c] = Append(sock[c], Head(resp[c]))
  <2>1. lock[c]
    BY <1>2 DEF AnswerHoldsWriter, Holds
  <2>2. WriteResponse(c)
    <3>1. \A a \in Streams : WriteOutput(a) => ~lock[task[a].client]
      BY Zenon DEF WriteOutput
    <3> QED
      BY <1>2, <2>1, <3>1, SocketGrows
  <2>3. sock' = [sock EXCEPT ![c] = Append(@, Head(resp[c]))]
    BY <2>2 DEF WriteResponse
  <2>4. sock \in [Clients -> Seq(Message)]
    BY <1>2 DEF TypeOK
  <2> QED
    BY <2>3, <2>4
<1>3. TypeOK /\ AnswerHoldsWriter /\ [Next]_vars =>
        [\A c \in Clients :
           /\ opening[c] # NoStream /\ Head(resp[c]).kind # "ack"
           /\ Len(sock'[c]) > Len(sock[c])
           => sock'[c] = Append(sock[c], Head(resp[c]))]_vars
  BY <1>2
<1> QED
  BY <1>1, <1>3, StreamTypeCorrect, PTL DEF Spec, ReplayUnbroken
=============================================================================
