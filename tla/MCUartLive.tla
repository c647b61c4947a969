----------------------------- MODULE MCUartLive -----------------------------
(***************************************************************************)
(* An instance of UartDriver for safety and liveness.  There are three     *)
(* loads: characters both ways, flow control requests with a kernel        *)
(* message, and as many characters as a call may move with a kernel        *)
(* message.  Messages and requests without end may keep the terminal's     *)
(* characters waiting, so there are only so many of them.                  *)
(***************************************************************************)
EXTENDS UartProps

Loads == {[tty |-> 2, rx |-> 5, asks |-> 0, messages |-> 0],
          [tty |-> 1, rx |-> 0, asks |-> 2, messages |-> 1],
          [tty |-> 3, rx |-> 0, asks |-> 0, messages |-> 1]}

VARIABLE left           \* what is left of the load

LoadInit == Init /\ left \in Loads

One(b) == IF b THEN 1 ELSE 0

LoadNext ==
    /\ Next
    /\ left' = [tty |-> left.tty - (written' - written),
                rx |-> left.rx - (arrived' - arrived),
                asks |-> left.asks - One(x_char = NoChar /\ x_char' # NoChar),
                messages |-> left.messages - One(op # "console" /\ op' = "console")]
    /\ \A what \in DOMAIN left : left'[what] >= 0

LoadSpec == LoadInit /\ [][LoadNext]_<<vars, left>> /\ Fairness
=============================================================================
