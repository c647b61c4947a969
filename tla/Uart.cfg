\* Order, wakeups and progress through the smallest FIFOs, under the loads of
\* MCUartLive; a call of axi_uart_transmit or axi_uart_receive may move three
\* characters.
SPECIFICATION LoadSpec
CONSTANTS
    RingMask = 1
    MaxRx = 5
    MaxTty = 3
    FlowChars = {xon, xoff}
    NoChar = NoChar
    MaxChars = 3
    HasConsole = TRUE
    MaxCon = 1
INVARIANTS
    RxCharsInOrder
    TtyCharsInOrder
    PendingCharsHaveWakeup
PROPERTIES
    StoppedIsQuiet
    ReceivedIsDelivered
    WrittenIsSent
    FlowControlIsSent
    ConsoleReturns
CHECK_DEADLOCK FALSE
