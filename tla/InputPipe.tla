------------------------------ MODULE InputPipe ------------------------------
(***************************************************************************)
(* What typing into a terminal promises: the messages of each terminal     *)
(* reach the PTY of its session whole and in the order they were typed, or *)
(* are reported lost; none stays behind for ever, unless a child that is   *)
(* alive has stopped reading its input.                                    *)
(***************************************************************************)
EXTENDS Naturals, Sequences

CONSTANTS
    Terminals,   \* terminals typed into
    Sessions,    \* daemon sessions
    SessionOf,   \* the session each terminal shows
    MaxMsgs      \* messages typed into each terminal: bounds the input

VARIABLES
    typed,       \* how many messages were typed into each terminal
    pending,     \* messages typed and not yet delivered, oldest first
    input,       \* messages delivered to each session's PTY
    deaf         \* sessions whose living child reads no more

vars == <<typed, pending, input, deaf>>

Init ==
    /\ typed = [t \in Terminals |-> 0]
    /\ pending = [t \in Terminals |-> <<>>]
    /\ input = [s \in Sessions |-> <<>>]
    /\ deaf = {}

Type(t) ==
    /\ typed[t] < MaxMsgs
    /\ typed' = [typed EXCEPT ![t] = @ + 1]
    /\ pending' = [pending EXCEPT ![t] = Append(@, typed[t] + 1)]
    /\ UNCHANGED <<input, deaf>>

Deliver(t) ==
    /\ pending[t] # <<>>
    /\ pending' = [pending EXCEPT ![t] = Tail(@)]
    /\ input' = [input EXCEPT ![SessionOf[t]] = Append(@, <<t, Head(pending[t])>>)]
    /\ UNCHANGED <<typed, deaf>>

\* The session has ended: the message is answered with an error.
Lose(t) ==
    /\ pending[t] # <<>>
    /\ pending' = [pending EXCEPT ![t] = Tail(@)]
    /\ UNCHANGED <<typed, input, deaf>>

GoesDeaf(s) ==
    /\ deaf' = deaf \cup {s}
    /\ UNCHANGED <<typed, pending, input>>

Exits(s) ==
    /\ deaf' = deaf \ {s}
    /\ UNCHANGED <<typed, pending, input>>

Next ==
    \/ \E t \in Terminals : Type(t) \/ Deliver(t) \/ Lose(t)
    \/ \E s \in Sessions : GoesDeaf(s) \/ Exits(s)

Spec == Init /\ [][Next]_vars

\* One deaf child can hold up every terminal: a message waiting for it keeps
\* the store's read lock, and a request that waits for the write lock keeps
\* the other readers out.
FairSpec ==
    Spec /\ \A t \in Terminals : WF_vars(deaf = {} /\ (Deliver(t) \/ Lose(t)))
=============================================================================
