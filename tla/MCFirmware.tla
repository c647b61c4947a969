----------------------------- MODULE MCFirmware -----------------------------
(***************************************************************************)
(* What runs before Linux: the boot ROM on its cards, the polling users of *)
(* the UART, and those of the SD card controller.  In these models they    *)
(* share no state, so a behaviour of one is explored with the others at    *)
(* rest: "unit" says which.                                                *)
(***************************************************************************)
EXTENDS MCBootRom, UartPolling, SdcPolling

VARIABLE unit

bootAndUart == <<vars, pollingVars>>

FirmwareInit ==
    /\ unit \in {"boot", "uart", "sd"}
    /\ Init /\ (unit # "boot" => slot = NoCard)
    /\ PollInit /\ PollingInit /\ card.in

\* Nothing that polls the SD controller looks whether the card is in: it stays.
FirmwareNext ==
    \/ unit = "boot" /\ Next /\ UNCHANGED <<pollingVars, allVars, unit>>
    \/ unit = "uart" /\ PollNext /\ UNCHANGED <<vars, allVars, unit>>
    \/ /\ unit = "sd" /\ PollingNext /\ card'.in = card.in
       /\ UNCHANGED <<bootAndUart, unit>>

\* Fairness of the model that runs: that of BootRom; clock and bus of the SD card
\* controller run, a busy card gets ready, and so does the CPU.
SdDoes(A) == unit = "sd" /\ Hardware(A)

FirmwareSpec ==
    /\ FirmwareInit /\ [][FirmwareNext]_<<bootAndUart, allVars, unit>>
    /\ []<>(unit # "boot") \/ RunsOn
    /\ WF_allVars(SdDoes(Tick)) /\ WF_allVars(SdDoes(BurstBegin))
    /\ WF_allVars(SdDoes(BurstEnd)) /\ WF_allVars(SdDoes(BurstResp))
    /\ WF_allVars(SdDoes(CardReady)) /\ WF_allVars(unit = "sd" /\ Routine)

-----------------------------------------------------------------------------
\* The firmware gets done with what it does: a good card boots at last, and every
\* call to the SD card controller returns.
FirmwareIsLive == BootsAtLast /\ PolledCallReturns
=============================================================================
