------------------------------ MODULE DmaRing -------------------------------
(***************************************************************************)
(* What a descriptor ring promises about the buffers that pass through it, *)
(* whatever registers and pointers implement it.  A buffer belongs to the  *)
(* driver, is posted to the device, is completed by the device, and is     *)
(* taken back by the driver, each time in the order in which it was        *)
(* posted.  While the device is busy with the oldest posted buffer nobody  *)
(* can take that buffer away from it.                                      *)
(***************************************************************************)
EXTENDS Naturals, Sequences

CONSTANTS Buffers, Capacity

VARIABLES posted,       \* buffers the device has still to work on
          completed,    \* buffers the device is done with, not yet taken back
          busy          \* the device works on Head(posted)

ringVars == <<posted, completed, busy>>

Held == {posted[i] : i \in 1 .. Len(posted)}
          \cup {completed[i] : i \in 1 .. Len(completed)}

Init == posted = <<>> /\ completed = <<>> /\ busy = FALSE

Post(b) ==
    /\ b \notin Held
    /\ Len(posted) + Len(completed) < Capacity
    /\ posted' = Append(posted, b)
    /\ UNCHANGED <<completed, busy>>

Start ==
    /\ ~busy
    /\ posted # <<>>
    /\ busy' = TRUE
    /\ UNCHANGED <<posted, completed>>

Complete ==
    /\ busy
    /\ completed' = Append(completed, Head(posted))
    /\ posted' = Tail(posted)
    /\ busy' = FALSE

Reap ==
    /\ completed # <<>>
    /\ completed' = Tail(completed)
    /\ UNCHANGED <<posted, busy>>

\* The driver takes back everything, which it may only do to an idle device.
Withdraw ==
    /\ ~busy
    /\ posted' = <<>>
    /\ completed' = <<>>
    /\ UNCHANGED busy

Next == (\E b \in Buffers : Post(b)) \/ Start \/ Complete \/ Reap \/ Withdraw

Spec == Init /\ [][Next]_ringVars
=============================================================================
