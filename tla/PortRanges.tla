----------------------------- MODULE PortRanges -----------------------------
(***************************************************************************)
(* find_next_available_range: the port range of a new kild.  Ports are u16: *)
(* Width is 2^16 in the program.  A range is <<first, last>>.               *)
(***************************************************************************)
EXTENDS Integers, Sequences

CONSTANTS Width,        \* ports are 0 .. Width - 1
          BasePort,     \* base_port_range of the configuration
          PortCount,    \* default_port_count of the configuration
          Exhausted     \* PortRangeExhausted

Ports == 0 .. Width - 1
Ranges == {r \in Ports \X Ports : r[1] <= r[2]}

ASSUME PortsAssumption == /\ Width \in Nat \ {0} /\ BasePort \in Ports
                          /\ PortCount \in Nat \ {0}
                          /\ Exhausted \notin Ranges

Overlap(r, q) == r[1] <= q[2] /\ q[1] <= r[2]

\* Sorted by start, as the loop reads them.
Sorted(s) == \A i, j \in 1 .. Len(s) : i < j => s[i][1] <= s[j][1]

\* Mutant: the last port of a range is given out again.
CurrentPortAtEnd(s, i) == IF i = 1 THEN BasePort ELSE s[i - 1][2]

\* current_port when the loop looks at the i-th range.  The sum wraps in a
\* release build; a debug build panics, which is the end of the command.
CurrentPort(s, i) == IF i = 1 THEN BasePort ELSE (s[i - 1][2] + 1) % Width

\* calculate_proposed_end
ProposedEnd(port) == IF port + PortCount >= Width THEN Exhausted ELSE port + PortCount - 1

\* The loop ends at the i-th range: after the last, at an error, or in front of
\* a gap that is large enough.
EndsAt(s, i) == \/ i = Len(s) + 1
                \/ ProposedEnd(CurrentPort(s, i)) = Exhausted
                \/ ProposedEnd(CurrentPort(s, i)) < s[i][1]

find_next_available_range(s) ==
    LET i    == CHOOSE k \in 1 .. Len(s) + 1 : EndsAt(s, k) /\ \A j \in 1 .. k - 1 : ~EndsAt(s, j)
        port == CurrentPort(s, i)
    IN  IF ProposedEnd(port) = Exhausted THEN Exhausted ELSE <<port, ProposedEnd(port)>>
=============================================================================
