------------------------------- MODULE MCUart -------------------------------
(***************************************************************************)
(* Instances of UartDriver for TLC.                                        *)
(***************************************************************************)
EXTENDS UartProps
=============================================================================
