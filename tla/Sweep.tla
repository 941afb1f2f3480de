------------------------------- MODULE Sweep -------------------------------
(***************************************************************************)
(* What the scanning loop promises, without its buffer, its ranges and its *)
(* reads: a cursor sweeps each device once, passes no candidate that is    *)
(* not settled (tried, or inside a file already extracted), never goes     *)
(* back, and leaves a sound device only at its end.                        *)
(***************************************************************************)
EXTENDS Integers

CONSTANTS
    DevLen,   \* the devices, by their length
    Faulty,   \* devices that may fail, and then are left early
    Margin    \* bytes at the end of a device that are never a start position

VARIABLES
    candidates,  \* of each device: what there is to find, with its position
    settled,     \* of each device: the candidates tried or inside an extracted file
    at,          \* the device being swept, 0 between devices
    cursor,      \* the first position of it not passed yet
    interrupts   \* how often the sweep was interrupted

vars == <<candidates, settled, at, cursor, interrupts>>

Pending(d) == candidates[d] \ settled[d]

Init ==
    /\ settled = [d \in DOMAIN DevLen |-> {}]
    /\ at = 0 /\ cursor = 0
    /\ interrupts = 0

Begin ==
    /\ at = 0
    /\ at' \in DOMAIN DevLen
    /\ cursor' >= 0
    /\ UNCHANGED <<candidates, settled, interrupts>>

Settle ==
    /\ at # 0
    /\ settled[at] \subseteq settled'[at]
    /\ \A d \in DOMAIN DevLen \ {at} : settled'[d] = settled[d]
    /\ UNCHANGED <<candidates, at, cursor, interrupts>>

Pass ==
    /\ at # 0
    /\ cursor' > cursor
    /\ \A c \in Pending(at) : c[2] < cursor \/ c[2] >= cursor'
    /\ UNCHANGED <<candidates, settled, at, interrupts>>

Finish ==
    /\ at # 0
    /\ at \in Faulty \/ cursor >= DevLen[at] - Margin
    /\ at' = 0 /\ cursor' = 0
    /\ UNCHANGED <<candidates, settled, interrupts>>

Interrupt ==
    /\ interrupts' = interrupts + 1
    /\ at' = 0 /\ cursor' = 0
    /\ UNCHANGED <<candidates, settled>>

Next == Begin \/ Settle \/ Pass \/ Finish \/ Interrupt

Spec == Init /\ [][Next]_vars

=============================================================================
