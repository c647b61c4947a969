# TLA+ models of the vivado-risc-v peripherals and their drivers

The repository builds Linux systems around Rocket Chip on Xilinx FPGAs. Most of it is
configuration of other people's designs; what it implements itself are three
peripherals in Verilog, the drivers that run them (Linux, U-Boot, OpenSBI, boot ROM), a
boot ROM with its copy of FatFs and a few small controllers. Each peripheral shares
registers with a driver, and each driver runs in several contexts at once; the boot ROM
reads whatever card is in the slot. That is where the models are.

Paths are relative to the repository (`src/` in `PROJECT.json`).

## 1. Inventory

### Ethernet: `ethernet/ethernet.v` and `patches/fpga-axi-eth.c`

*State.* The NIC has two rings (receive, transmit) of `1 << ring_bits` descriptors:
address, size and status, a producer and a consumer pointer each, an enable bit, a busy
bit (`rx_start`, `tx_start`), two interrupt flags and their enables. Inside, each
direction has a burst engine: a FIFO of bus words between the stream of the MAC and the
bursts on the bus, a shifter for packets that are not aligned, counters of words left. A
transceiver shifts MDIO frames. The driver keeps a copy of both pointers of both rings,
the array of socket buffers of each, and the state of the network queue.
*Operations.* Driver: `axi_eth_xmit`, `axi_eth_add_rx_buffers`, the interrupt handler,
`open`, `close`, `change_mtu`, MDIO read and write. NIC: start and finish a packet, move
its words, shift a frame.
*Interaction.* Registers, an interrupt, memory by DMA. Everything the driver does runs
under one spinlock, but the NIC does not wait for it: the busy bits, the NIC's pointers
and the interrupt flags move between any two register accesses. In a burst engine the
stream side and the bus side move in the same clock from each other's old values.
*Hard.* Interrupt flags cleared while packets finish; queue stopped and woken from
counts taken at different times; a close or a change of MTU that frees buffers the NIC
may be writing; an interrupt handler that waits for the lock a close holds; bursts cut at
4 KB pages, at the FIFO and at the end of a packet, all three at once; a frame longer than
its buffer; an MDIO call that gives up while its frame goes on.
*Correct when.* Pointers keep their order, DMA touches owned memory only, no buffer is
lost or doubled, packets keep their order and their bytes, no wakeup is lost.

### UART: `uart/uart.v`, `patches/fpga-axi-uart.c`, and its polling users

*State.* Two FIFOs of 16 characters, a latch for one flow control character, a control
register (two interrupt enables, transmit stop, two FIFO resets). The Linux driver keeps
no state of its own beyond the copies of the control register its routines hold.
*Operations.* Linux: `axi_uart_transmit` (called by the handler, `start_tx` and
`stop_tx`), `axi_uart_receive`, startup, shutdown, `stop_rx`, `console_write`, polling
for the debugger. U-Boot (`patches/u-boot/vivado_riscv64/serial.c`): probe, putc, getc.
OpenSBI (`patches/opensbi/platform.c`): putc, getc. Boot ROM: `kputc`.
*Interaction.* The control register is read, changed and written back by five routines,
most, not all, of them under the port lock. The core pops and stores characters
meanwhile.
*Hard.* Lost transmit wakeups; stop/start against console messages; XON/XOFF against
stopped output; a receive FIFO that stores even when full; unlocked writes of control; a
FIFO reset in the clock in which the core moves the other pointer.
*Correct when.* No character is lost, doubled or reordered, stopped means quiet, every
character written is sent in the end, flow control reaches the peer.

### SD card: `sdc/*.v`, `patches/fpga-axi-sdc.c`, `patches/u-boot/vivado_riscv64/sdc.c`, `bootrom/bootrom.c`

*State.* Controller: command master (IDLE, EXECUTE, BUSY_CHECK), command host, data
master, data host, a FIFO and an AXI master that serve both directions, two interrupt status
registers, card detection, clock divider. Linux driver: the request in progress, whether
its data are awaited, one spinlock. Boot ROM and U-Boot: the call in progress.
*Operations.* Start a command, start and finish a data transfer, acknowledge, software
reset; in Linux `request`, `send_cmd`, the interrupt handler, `set_ios`, reset, `get_cd`; in
the boot ROM `ini_sd`, `disk_read`; in U-Boot probe, `send_cmd`, `set_ios`.
*Interaction.* Registers, an interrupt, DMA; the card answers, or does not, on its own.
The Linux driver sends commands by polling and waits for data by interrupt, the other two
poll for both. Writes take effect at the next edge of the slow SD clock, reads see the
fast one.
*Hard.* A status read before a clear has taken effect; data status and DMA that survive a
failed command; timeouts against late answers; full and empty FIFOs; busy wait without a
watchdog; the card changing while the handler runs.
*Correct when.* A request completes once, with the data of that request; a transfer by DMA
begins only in the buffer that is mapped and what it stores lies in it; a failure leaves
the controller ready for the retry.

### Boot: `bootrom/bootrom.c`, `bootrom/ff.c`, `bootrom/head.S`

*State.* `drv_status`; of FatFs, in its read-only configuration: the volume (type, FAT,
clusters, root), one sector window shared by FAT, directory and file, one open file with
its cursor (`fptr`, `clust`, `sect`, `err`); the loader's errno, ELF header, segment and
position; all of memory, part of which the boot ROM itself lives in.
*Operations.* Mount (boot sector, MBR, GPT, FAT12, FAT16, FAT32, exFAT), open (long and
short names, exFAT entry sets), read, seek, close; load segments in chunks, some of them
moved out of the way of the boot ROM; jump; on any error, wait and start over.
*Interaction.* Calls within one hart; the card may fail a read or be exchanged between
any two steps. The other harts wait in `head.S`.
*Hard.* A window that keeps the number of a sector whose read failed; a block that comes
after its read has failed, to the read of another sector; entries of a FAT12
that lie in two sectors; the cursor at a cluster's edge, after a seek, or short of a
sector; errors and open files left by the attempt before; segments that overlap what is
in use.
*Correct when.* It jumps only into a complete image of the card that is in, names the
right error otherwise, and boots in the end once a good card stays.

### Small controllers and the rest

`board/mem-reset-control.v` (reset between two clocks), `board/fan-control.v` (PWM),
`ethernet/ethernet-sfp-10g.v` and the board wrappers (wiring of vendor cores),
`src/main/scala/rocket.scala` (generator parameters), `vhdl-wrapper` (text translation at
build time), `bare-metal` (runtime for benchmarks), `patches/u-boot/.../board.c` and the
rest of `patches/opensbi/platform.c` (constants for generic code), Makefiles, Tcl and
shell scripts. `PROJECT.json` lists each with the reason why it is, or is not, modelled.

## 2. Modules

| module | models | uses |
| --- | --- | --- |
| `Ring` | positions of a ring or FIFO, wrap-around arithmetic | |
| `DmaRing` | *abstract*: what a descriptor ring promises | |
| `EthNic` | register block and packet engines of the NIC | `Ring` |
| `EthDriver` | the Linux Ethernet driver on the NIC, one action per register access that matters | `EthNic` |
| `EthDriverProps` | properties, inductive invariants, refinement | `EthDriver`, `DmaRing` |
| `EthDriver_proofs` | theorems: safety of the driver and both rings, which implement `DmaRing` | `EthDriverProps` |
| `MCEthDriver` | TLC instances | `EthDriverProps` |
| `DmaBurst` | words, FIFO pointers and burst length of both burst engines | |
| `EthTxDma`, `EthRxDma` | the transmit and the receive engine inside a packet, clock by clock | `DmaBurst` |
| `EthMdio` | the MDIO transceiver with `axi_eth_mdio_read` and `axi_eth_mdio_write` | |
| `EthDma_proofs` | theorems: the bursts are legal, the bytes of the stream, MDIO | `EthTxDma`, `EthRxDma`, `EthMdio` |
| `EthRxMemory_proofs` | theorems: the bytes of the buffer | `EthDma_proofs` |
| `MCEthDma` | TLC instances | `EthTxDma`, `EthRxDma`, `EthMdio` |
| `UartHw` | the UART core | `Ring` |
| `UartDriver` | the Linux UART driver on it, with the serial core as caller | `UartHw` |
| `UartProps` | properties, inductive invariants | `UartDriver` |
| `UartDriver_proofs` | theorems | `UartProps` |
| `MCUart`, `MCUartLive` | TLC instances | `UartProps` |
| `UartPolling` | boot ROM, OpenSBI, U-Boot and the debugger on the core | `UartHw` |
| `SdcHw` | the SD card controller and the card | |
| `SdcDriver` | the Linux SD card driver on it, with the MMC core as caller | `SdcHw` |
| `SdcProps` | properties, inductive invariants | `SdcDriver` |
| `SdcHw_proofs` | lemmas: the controller keeps its types and its blocks agree, whoever drives it | `SdcHw` |
| `SdcDriver_proofs` | theorems: commands, buffers, card detection, data | `SdcProps`, `SdcHw_proofs` |
| `MCSdc` | TLC instances | `SdcProps` |
| `SdcPolling` | boot ROM and U-Boot on the controller | `SdcHw` |
| `SdcPolling_proofs` | theorem: what a call leaves behind | `SdcPolling`, `SdcHw_proofs` |
| `FatDisk` | `disk_read`, the sector window and the FAT | |
| `FatFs` | directories, mount, open, read, seek, close | `FatDisk` |
| `Loader` | *abstract*: what `download` does to memory, with any file under it | |
| `BootRom` | `main` and `download`, card by card | `Loader`, `FatFs` |
| `Firmware_proofs` | theorems: the polled UART, the loader | `Loader`, `UartPolling` |
| `MCBootRom` | thirteen cards | `BootRom` |
| `MCFirmware` | TLC instance of what runs before Linux | `MCBootRom`, `UartPolling`, `SdcPolling` |

### Ethernet

*NIC.* A step of `EthNic` is a clock edge that changes something software can see:
`RxBegin`/`TxBegin` (start goes up), `RxFinish`/`TxFinish` (start goes down, the consumer
pointer advances, the flag is set). The words of a packet are left to the burst engines
below. A register write is the clock in which it takes effect; where write and hardware
meet in one clock, the order of the assignments in the `always` block is that of the
interleaving.

*Driver.* Variables have the names of `struct axi_eth_priv`. `op` is the routine that
holds `priv->lock`, `pc` its next step, `rtnl` the configuration call that the kernel
serialises (open, close, change_mtu), which exists outside the lock as well. Each routine
is cut where the NIC or another routine can come in between: before and after each read of
a pointer, flag or busy bit, and each register write. Purely local work (allocation, DMA
mapping, statistics) is part of the neighbouring action. Buffers are model values.
`irq_wait` says that the handler was called and waits for the lock, which it may get after
a close. Allocation failure is a choice where `AllocMayFail`, a change to a larger MTU one
where `MtuMayGrow`; the sizes themselves are not modelled.

*Burst engines.* `EthTxDma` and `EthRxDma` are what happens between `TxBegin` and
`TxFinish`, `RxBegin` and `RxFinish`. A step is one clock edge: a step of the stream side
(the MAC takes or offers a word, or not) together with a step of the bus side (a burst
starts, its address is taken, a word moves, it is acknowledged, or nothing), each from the
old values. Bytes are numbers that say where they come from, so a word that was shifted,
merged or masked wrongly shows. Registers have their names in `ethernet.v`.
*MDIO.* A frame is two bits of operation, `RegBits` of the register number and `DataBits`
of data (10 and 16 in the code, counting the address of the PHY), one step each; the driver
compares the echo on the wire as the code does, and the calls poll, give up and start again.

### UART

*Core.* A character is one step: `SendChar` pops and sends, `SendFlowChar` sends the
latch, `PeerSends`/`ReceiveChar` are start and end of an incoming character, the peer
looking at RTS at its start. Characters are numbered in the order they are produced, so
`sent` and `arrived` are the history of the line. Bit timing and CTS only decide when a
step is taken.

*Driver.* As above: `op` holds `port->lock`, `ctl` is the local copy of the control
register, and every access of a register is a step. `UserWrites`, `SendXChar`,
`SetStopped`, `CloseBegin` and `ShutdownIrq` stand for the Linux serial core, which is not
in this repository; they follow what the driver relies on (`lockdep_assert_held_once` in
`stop_tx`/`start_tx`, the flag of `uart_tx_stopped` set without the port lock).
*Polling.* One hart runs at a time; only the core is concurrent. `UbootProbe` is the FIFO
reset with everything the core may do in the same clock.

### SD card

*Controller.* The blocks of the design run on one clock, so one action, `Tick`, is an edge
of the SD clock: every block (`CmdMaster`, `CmdHost`, `DataStart`, `DataMaster`,
`DataHost`, FIFO, address) steps at once from the old values of the others, as nonblocking
assignments do. Each block has one record variable. The AXI master runs on the bus clock: a
burst begins (`BurstBegin`), moves its words (`BurstEnd`) and is answered (`BurstResp`)
between ticks, at any speed. Data are named `<<i, n>>`, block `n` of request `i`, on the
card, in the FIFO and in memory, so a property can ask whose data arrived. A block of data
is one entry of the FIFO; a command takes a tick or two instead of 136.
*Card.* It obeys and answers, obeys and is not heard (`"lost"`), obeys and is heard badly
(`"bad"`), or takes its time; `Late`, `Damaged` and `DataDamaged` say for which kinds of
command. It may be put in or taken out at any time.
*Linux driver.* `op` and `pc` as above. `role` is the command of the request being sent
(set block count, the command, stop). `Settled` is the poll of `software_reset` until
writes have taken effect. A request uses the buffer of its number: a retry is a new one.
*Polling users.* `SdcPolling` has one call at a time: initialisation of the card
(`ini_sd`, with the commands between ACMD41 and CMD16 as one), `disk_read`, and after the
jump U-Boot's probe, `sdc_send_cmd` and `sdc_set_ios`. `SoftReset` is the reset that
`ini_sd` and the probe start with.
*Timing assumed.* `BusKeepsUp`: a burst left over by an aborted transfer ends before the
next transfer starts (and `SoftReset` finds the bus idle). `InitDelay = 0`: the driver
takes longer from a command that timed out to the next than the command host takes to be
ready again (5 SD clocks); otherwise the start of that command is lost. A block takes
longer than the one tick in which the data master raises its start. A card whose block has
timed out sends it no more. Memory answers every burst without an error: the branch of the
data master for `bus_error` (`sd_data_master.v:135-138`) needs an answer that the RAM
behind this bus does not give, and is left out of `DatCompletes`.

### Boot

FatFs runs in one thread, so its functions are operators from a machine (card, drive
status, volume, file, directory position, result) to a machine, in `FatDisk` and `FatFs`,
with the names of `ff.c`. A step of `BootRom` is a call that `download` makes; within it
one read, chosen by `io.left`, may fail, with the card still there or not. A sector has
`SS` cells and a cell is what the code takes it for: a byte of a FAT, a field of an ELF
header, half a directory entry. `mem` is memory by address; the chunks of an image that
would overwrite the boot ROM go to `MemAlt` until the jump. `tried` is the card of the
attempt, `hit` says that a read failed or a card was changed during it.
`Loader` is the part of `download` that places chunks, clears, moves back and jumps: its
variables are the segment, `alt_mem`, memory and `loaded`, and what comes from a file is any
number of any cells, or a failure after some. `BootRom` extends it, so `Place`, `Store`,
`Record` and `Advance` are the same definitions, and adds the calls of FatFs that decide
which step of `Loader` is taken.
*A read after a failed one.* A `disk_read` whose command fails returns with the data engine
on; only the reset in `ini_sd` undoes it. When the boot attempt ends, the next mount makes
that reset, but `find_volume` reads on, from the next partition, without it. `SdcPolling`
models this command by command (`sd_late_block`): the next read may get the block of the
failed one and its status, and return RES_OK. In `FatDisk` a failing read therefore has three
outcomes, `io.after`: the reads behind it are good, or the card is lost, or the block comes
late and the next read gets it (`io.late`, `Came`); `disk_initialize` clears it. A read that
fails by its data only leaves nothing behind, which `SdcPolling` shows as well
(`PolledEngineIsReady`). The history variable `belated` says that the last attempt has used
such a block. What FatFs makes of it is anything: `WindowHoldsSector`, `ImageIsFile` and
`VerdictIsTrue` except those attempts (section 3 says what happens in them).
The three models of `MCFirmware` share no state; `unit` says which of them runs.

## 3. Runs

Bounds are small where a ring of that size already wraps, fills and empties.

| run | bounds | what it shows |
| --- | --- | --- |
| `eth_tx` | 4 slots, 4 packets, 1 receive buffer | stop/wake; `axi_eth_xmit` never spins; the transmit ring implements `DmaRing` |
| `eth_rx` | 4 slots, 3 buffers, changes of MTU, allocation may fail | no buffer lost or shared, DMA into owned buffers only, no interrupt lost, the receive ring implements `DmaRing` |
| `eth_live` | 2 slots, 2 buffers each way, allocation may fail | both rings well formed where they are always nearly full and `axi_eth_xmit` does spin; packets complete, frames are taken |
| `eth_dma` | words of 4 bytes, FIFO of 4 words, pages of 8, streams of 1 and 4 bytes, 52 addresses | the MAC gets the packet and no other byte, a buffer gets the frame and no other byte does, bursts are legal, reads of MDIO that report success are true, engines and calls end |
| `uart` | FIFO of 2, three loads: 2 characters out and 5 in; 1 out with XON, XOFF and 1 console character; 3 out with 1 console character. 3 per call | order both ways over wraps, wakeup, stop/start against the console; written is sent, received is read, the last request goes out also while stopped, a kernel message always ends |
| `sdc` | 2 requests of 5 shapes, up to 2 blocks, FIFO of 2; no command fails with the engine on | result, data and buffers of two successive requests never mix; no change of the card is missed |
| `sdc_live` | 1 request, every failure | every request is answered |
| `firmware` | 13 cards, one failing read with three outcomes, two swaps; UART FIFO of 4, 6 and 5 characters; one data call of up to 2 blocks among any number of initialisations, every failure | the boot ROM loads the right image, keeps out of its own memory, implements `Loader`, names the right error, boots at last; polled characters in order over a FIFO reset; polled SD calls return and leave nothing behind |

*Rings and FIFOs.* The rings have 16 slots by default and 64 at most (`pkt_ptr_bits` in
`ethernet.v`), the UART's FIFOs 16 characters. With four slots (three usable) every
relation of three pointers occurs, including all wraps; two slots is the degenerate case
in which empty and full are one step apart. More packets than slots make every slot be
used again. The theorems about the UART, the Ethernet rings and the SD card hold for every
size. `SYMMETRY` over buffers is used in runs without liveness only. In `uart`
MAX_CHARS_PER_INTERRUPT is 3 and at most three characters go out: a call may end at the limit,
but then with nothing left, so the exception for it in `PendingCharsHaveWakeup` and
`WrittenIsSent` costs little; in the code (32, with a FIFO of 16) it is about as far out of
reach. Five characters come in, more than a call may take.

*`sdc`.* A read whose command fails, and a write whose answer is damaged, are left out
(`Late`, `Damaged`): the engine is then on, `sdc_retry` shows what comes of it and
the other properties would fail after it too. `DmaKeepsToBuffer` is about the begin of a
burst, since a burst once begun cannot be changed, and about the moment of the unmap. On a
write the engine fetches ahead (`tx_stb` has no word count), so bursts may begin behind the
end of the buffer; the property bounds by how much. After an error a burst may still be on
the bus when the handler unmaps the buffer, which the property excepts.
`EngineIsReady` says nothing of that burst either.

*`eth_dma`.* Transmit packets have all four alignments, receive buffers the offsets 0, 2
and 3; both lie before, at and across a page boundary. Packets are of one word and longer
than the FIFO; frames of 6, 12 and 19 bytes meet buffers of 9 and 18, so they are shorter,
longer, and longer by one byte. A burst is at most as long as the FIFO, so two pages are
enough; the theorems hold for every size. MDIO has one register bit and two data bits,
which tell the two registers of the PHY and its bits apart. One call may give up during a
frame (`MaxGivenUp = 1`): a frame takes 3250 clocks and ten polls 40 us or more, so with a
clock above 41 MHz a second call cannot give up during the same frame.

*`firmware`.* Sectors of 8 cells, directory entries of 2, four to a sector; FAT12 up to 8
clusters, FAT16 9, FAT32 10, so that all types occur with a file of 57 cells in four or
eight clusters. The image has a segment that begins in the boot ROM's memory (cells 0 to
3) on some cards, which is moved in chunks of at most 20 from 40. The cards: FAT12,
fragmented, with the orphan of a long name before the entry; FAT16, under a long name, in
an MBR whose second partition holds another good volume in smaller clusters; FAT32 behind
a GPT, root directory in two clusters; exFAT in one run and fragmented, the entry set
across two clusters. And a file that is no ELF, before a second partition that is good, no
file, a directory of that name, a broken chain, a file cut short, a segment whose offset
is not aligned as its address, an entry set with a wrong check sum, a blank card. Attempts
have at most 12 reads before the one that fails (`MaxReads`), which reaches into every
call. The SD unit keeps its card in: nothing that polls looks at card detection. `MaxBusy`
bounds how often ACMD41 is repeated; the code does not (see below).

`CHECK_DEADLOCK FALSE` in all runs but `eth_dma`, whose engines always have a next clock:
the systems may stop when nothing arrives and no one calls (numbers of characters,
requests and swaps are bounded).

### What the code does not keep

Four runs have `expect: violation`: each checks one statement of a comment that the code
does not keep, with a trace found by TLC.

* `eth_close`: `axi_eth_dev_close` disables the transmitter and then waits, lock held, for
  queued packets to be sent.
* `uart_listen`: `startup` writes control without the lock; a kernel message at the same
  time undoes the receive interrupt enable. (The interrupt handler can do so too, when
  the preceding shutdown met a running handler in the same way.)
* `sdc_retry`: a read whose command fails leaves the data engine running; the request
  after it is reported as done without its data.
* `sd_late_block`: the same in `disk_read` of the boot ROM. While the engine is on,
  "transfer complete" is masked (`DatIntStatus`), so the next read does not see it at once;
  but if the old transfer ends when the next one is to start, that start is lost and the
  old status and block are taken for the new read's, which returns RES_OK.

Seen on the way, without a run.

Ethernet:
* `change_mtu` refills the receive ring before it sets the new MTU, so with buffers of
  the old size ("Dispose RX buffers - too small for new MTU"). On a closed interface it
  also enables the receiver (`MtuRxEnable` does not look at `up`), although
  `axi_eth_dev_close` says "Disable RX, TX".
* `axi_eth_dev_init` returns with the lock held when `request_irq` fails.
* `rx_status` is taken from `m_axi_wr_err` in the clock in which the answer to the last
  burst comes, so an error of that burst is not in it.
* A frame longer than its buffer may be reported with status 0 and a size rounded up past
  `rx_size` (`RxFrameIsStored` says nothing of `rx_done` then). The extra beat past the end
  has no byte enabled: `RxStaysInBuffer` holds.
* For a frame of a single bus word `rx_pkt_addr`, and so `rx_done`, does not add up
  (`RxAssumption` excludes it; Ethernet frames have 60 bytes or more). `rx_size_al` has 14
  bits, enough up to an MTU of 9000.
* An MDIO write that times out and is followed by a call to another register changes
  `mdio_tx` under the frame that is being sent; the PHY may get data of neither. A call that
  reports success is still true (`MdioOkIsTrue`).

UART:
* Resetting the transmit FIFO in the clock of a pop leaves it full of old characters,
  which are sent again; `UbootProbe` has this step, and `PolledCharsInOrder` shows that new
  characters still come in order.
* `axi_uart_put_poll_char` waits as long as the FIFO is *empty* (`KgdbPut`), so it does not
  return when there is nothing to be sent, and it writes into a full FIFO, which loses
  characters. `PolledCharsInOrder` therefore excepts what the debugger puts.
* A call of `axi_uart_transmit` that moves MAX_CHARS_PER_INTERRUPT characters returns without
  enabling the interrupt. `PendingCharsHaveWakeup` and `WrittenIsSent` name this as their
  exception; with a FIFO of 16 and a limit of 32 the line would have to send 16 characters
  during one call.
* U-Boot's `serial.c` has the two reset bits named the other way round than
  `fpga-axi-uart.c` and the core; it sets both, so nothing follows.

SD card:
* A damaged answer to a write sets CC and EI at once; the controller looks at CC first
  and starts the write that the driver reports as failed. The run `sdc` leaves `"read"` and
  `"write"` out of `Damaged` and `"read"` out of `Late`, because every property of a later
  request fails once the engine is left on. Boot ROM and U-Boot do the same; for them only
  the reset of an initialisation puts an end to it (`dirty` in `SdcPolling`);
  `PolledEngineIsReady` makes no promise in between.
* At an SD clock of 50 MHz the command timeout of one second does not fit in 25 bits and
  the driver turns it off; `RequestIsAnswered` then fails (`CmdTimeoutW` too small). U-Boot
  does so with data timeouts above `0xffffff`; that case is not among the instances.
* `mmc_request_done` is called before `dma_unmap_sg`, and `spin_lock_init` after
  `request_irq`.
* An abort does not recall the burst that is on the bus (`BusKeepsUp`), and the handler
  unmaps the buffer without waiting for it. A write fetches past the end of its buffer, up
  to the length of the FIFO (`DmaKeepsToBuffer` allows both).
* A BUSY_CHECK without end and a timeout that is turned off (above) are assumed away in
  `sdc_live`: the card gets ready (`CardReady`), and `CmdTicks` fits `CmdTimeoutW`.
* `ini_sd` repeats ACMD41 for as long as the card says it is busy, and does not look at
  how CMD0 ends.

Boot:
* `find_volume` takes a partition that cannot be read for one that is no FAT volume: one
  failing read of the first partition boots from the second or ends in
  "no filesystem" (`OtherVerdicts`).
* `find_volume` is where such a late block comes in: it asks for the boot sector of the second
  partition and has that of the first in `fs->win`, under the other number (`WinsectIsInWin`,
  the part of `WindowHoldsSector` that excepts nothing, is then false). On the card `fat16` the cluster numbers of one then lead into the other: without
  the exceptions for `belated` TLC finds a jump into an image that is not the file
  (`ImageIsFile`), and on `not_elf` a wrong error (`VerdictIsTrue`).
* A segment whose offset in the file and address are not congruent modulo 4 never loads
  (the buffer given to `disk_read` is not aligned), reported as a disk error.
* The resets of `drv_status` in `main` and of `fs_type` in `f_mount` are redundant: each
  makes up for the absence of the other.

## 4. Fairness

*Linux drivers.* The routine that holds the lock continues (WF); the
hardware ends what it began and, if the other side of the cable lets it, starts what it can (WF
on the NIC's transmit steps and on the line); a level interrupt is delivered (WF); a
routine that waits for a spinlock gets it although others take it in between (SF: the
kernel's spinlocks are queued). No user, peer or frame is required to do anything. In
`SdcDriver` clock and bus run (WF on `Tick` and on each step of a burst) and a card that is
busy after a stop gets ready in the end (WF; BUSY_CHECK has no timeout, so the code relies
on it). The card need not answer: the timeouts do the rest.

*Burst engines.* The clock runs, the MAC takes and offers words in the end, the bus
answers in the end (WF each); so for MDIO the clock and the CPU.

*Firmware.* The boot ROM goes on until it jumps. Some step of it is always possible
before that, so weak fairness of `Program` is written `RunsOn`: it jumps, or steps of
`Program` never end; TLC finds this quicker than ENABLED of these actions. The polled SD
controller has the fairness of `SdcDriver`'s hardware, and the CPU goes on. Nobody is
required to keep cards in or reads from failing; `BootsAtLast` starts from where a good
card stays.

## 5. Proofs

Eight modules hold theorems and lemmas; each is for every value of the constants that the
named assumptions admit, which the runs evaluate for their instances. An invariant that is
proved with a property was checked by TLC on an instance before.

### Ethernet driver and rings

`EthDriver_proofs`, for every ring size and set of buffers:

* `TypeCorrect`: `Spec => []TypeOK`.
* `RingsWellFormed`: `Spec => []RingsAreWellFormed`, the inductive invariant (below): types,
  `RxRingInv` and `TxRingInv`.
* `PointersOrdered`, `DmaIsSafe`, `BuffersAccounted`: three properties, from it.
* `InterruptNeverLost`, `StoppedQueueWakes`: a finished packet raises the interrupt or its
  handler waits; a stopped queue has a packet out whose completion wakes it.
* `XmitFindsRoom`: `axi_eth_xmit` never finds the ring full and never spins, with
  `RingMask >= 3` as hypothesis. The hardware has 16 slots by default; with two slots it
  does spin (`eth_live`).

*Assumptions*: `RingMask` is positive, `NoBuf` is not a buffer.
*Argument.* `PointerOrder` is not inductive: that the NIC may advance its pointer depends on
the driver having posted, and that the driver may reuse a slot depends on what the NIC
has finished. `RingInv` therefore relates the three pointers of a ring, the ring items
and the descriptors at once: slots from the driver's consumer to its producer hold
distinct buffers and no others do; slots from the NIC's consumer to the producer have
descriptors equal to the items. `RxRingInv` and `TxRingInv` add what the routines rely on
in the middle: the slot filled but not yet posted ("bell"), the room seen before the write,
the engine that is off while a close frees its buffers. Lemmas `RingFill`, `RingPost`,
`RingComplete`, `RingReap` and `RingDispose` say that each of the five things that
happen to a ring keeps `RingInv`; both rings use the same five.
The other three rest on `CallInv` (which steps belong to which routine, and how a
configuration call relates to `up`). `InterruptInv`: what the NIC has finished is announced
by its flag, or the handler will still look at that ring before it returns. `QueueInv`: a
stopped queue has packets out or the handler is about to wake it, and the ring of a closed
interface is empty. `RoomInv`: a queue that is not stopped has room for one packet.

And that the driver implements the abstract ring, under the same assumptions:

* `TxRefinesDmaRing`, `RxRefinesDmaRing`: each ring implements `DmaRing`.

*Argument.* A simulation step by step, on the states in which `RxRingInv` and `TxRingInv`
hold. The windows of the ring between the pointers are the sequences of the abstract ring
(`RingSeq`); filling a slot is hidden, the doorbell is `Post`, the begin and the end of a
packet are `Start` and `Complete`, the handler's step is `Reap`, and what `close` and
`change_mtu` take back is `Withdraw`. Every other step stutters. The lemmas on `RingSeq` say
how each pointer move changes a window: appended to, its head taken, or emptied.

### Ethernet burst engines

`EthDma_proofs`, for every word width, FIFO and page size, packet, buffer and frame:

* `TxBurstsAreLegal`, `RxBurstsAreLegal`: no burst crosses a page, overruns its FIFO or
  runs out of words or data.

*Assumptions*: `DmaAssumption`, `TxAssumption`, `RxAssumption`: the FIFO divides the page,
streams are a byte or a bus word wide, packets are not empty, frames and receive buffers
are longer than a bus word, buffers lie in the memory that is modelled and fit the size
register.
*Argument.* What is left of a burst must be matched by what the other side may do
meanwhile: the stream side only takes from the transmit FIFO and only adds to the receive
FIFO, so a room or an amount seen at the start of a burst stays. That the words of a burst
stay in the page is arithmetic on its first word; the case in which the page is nearer
than the burst is long uses that the FIFO divides the page. On the receive side the
extra word of the shifter (`RxOneMore`) counts as data only after the end of the frame,
which the invariant ties to how the FIFO was filled.

The bytes of the stream, in the same module under the same assumptions:

* `TxStreamsPacket`: the MAC gets the bytes of the packet, in order and no other, the end
  marked on the last one (`TxStreamIsPacket`).

*Argument.* `TxDataInv` counts words at three places, read from memory, put into the FIFO,
taken by the stream, and says that what lies between two of them is what the FIFO and the
shifter hold. Every byte in the FIFO is named by the word of the stream it belongs to, so
the shift by `TxShift` is settled once, at the FIFO's entrance. The tail, a word put in
without one read, is the case the count of words needs `TxTailNeeded` for.

`EthRxMemory_proofs`, under the same assumptions:

* `RxWritesStayInBuffer`: no byte outside of the buffer is written (`RxStaysInBuffer`).
* `RxStoresFrame`: when the engine is done, the buffer holds the frame or as much of it as
  fits, and the descriptor of a frame that fits has its length and status
  (`RxFrameIsStored`).

*Argument.* `RxPlaceInv` ties the address of the next word to `rx_word_left` and the
strobes: the first word leaves out what is before the buffer, the last what is behind it,
and of the word that a burst may have too many nothing is written. `RxDataInv` says what
of the frame is in memory, the FIFO and the shifter, as positions in the stream. A frame that
ends inside the shifter and one that fills the buffer to the byte are the two cases for
which length and data need arguments of their own.

### MDIO

`EthDma_proofs`, for every number of register and data bits and every PHY:

* `MdioOkTrue`: a read or write that reports success has what the register of the PHY holds
  (`MdioOkIsTrue`), whatever was given up before it.

*Hypothesis*: `MaxGivenUp <= 1`, at most one call gives up during one frame. It follows from
the clock: a frame takes 3250 clocks, giving up takes ten polls of 4 us, so with more than 41
MHz a second call sees the end of the frame the first has left. With 2 the property is false,
as TLC shows on an instance.
*Argument.* `MdioWireInv`: what the wire has carried is the front of `mdio_rx`. `MdioDataInv`:
the data of a read frame are all the PHY's, unless a write came in meanwhile, and then that
write is the call that sees the end: its operation differs from the one on the wire, which
the comparison of `mdio_rx` with `mdio_tx` notices. `MdioCallInv` says who may change
`mdio_tx` under a frame: only a call that follows one that gave up.

### UART

`UartDriver_proofs`, for every FIFO size, limit per call and number of characters:

* `UartTypeCorrect`: types and `CallInv`, who holds the lock at which step, and that the
  room seen before a write to the FIFO is still there at the write.
* `RxCharsKept`: `RxFifoInv` adds that a character coming in has its slot, because the
  peer looked at RTS when it began and only it fills the FIFO.
* `WakeupNeverLost`: `WakeInv` follows the interrupt enable through the local copies of
  control, of a console message for instance, that will be written back.
* `StopIsKept`: an action property; `StopInv` does the same for CR_TX_STOP, with the window
  between the stop flag and the call of `stop_tx`.
* `TtyCharsKept`: `TtyInv`; the lemmas on `HoldsInOrder` say that a push of the next
  character, a push of a console character and a pop keep the FIFO's content in order.

`Firmware_proofs`, for every FIFO size and number of characters, on the polling users:

* `PolledUartCorrect`: `PollSpec => []PolledCharsInOrder`, both directions for OpenSBI and
  U-Boot. For the kernel debugger only what it reads: it writes into a full FIFO.

*Argument.* `PolledInv` bounds every slot of the transmit FIFO, stale ones included, by the
number of characters put, because a reset that meets a pop brings all slots back to life.
Characters of before the reset lie in front (`TxStale`), the others follow without a gap, so
both a pop and a push keep the two parts apart. On the receive side a character that is
coming in has its slot, because the peer looked at RTS when it began.

### SD card

`SdcDriver_proofs`, for every number and shape of requests, size of a transfer and of the
FIFO, and timeouts, whatever fails:

* `SdcTypeCorrect`: types, `CallInv` (which routine is at which step, and which command it
  sends there) and `EngineInv` (the data host works in the direction of the data master, or
  is being stopped).
* `CardChangeReported`: from `CardInv`, the enabled interrupt is for the level the MMC core
  does not know.
* `CommandResultOwn`: from `CmdInv`, which follows a command through start bit, command
  master, host and status: outside of `sdc_send_cmd` nothing of it is left, and inside of it
  whatever says "complete" was caused by the argument in the register.

Three further theorems have `AnswersHeard` as hypothesis: the answer to a read command is
neither lost, late nor damaged and the one to a write not damaged (`sdc_retry` shows that
they are false without it), `InitDelay = 0` (section 2), and the command timeout is at
least 3 ticks, the time an answered command takes in the model. In hardware that time is 136
clocks or more and the timeout a second.

These are the commands that do not fail with the engine on; all other failures are in: bad
blocks, timeouts of the data, a FIFO that runs full or empty, a write or stop that is not
heard.

* `DmaStaysInBuffer`: `DmaKeepsToBuffer`, an action property. A burst begins only while the
  buffer of its request is mapped, of a read within the buffer, of a write at most a FIFO
  behind its end; and the buffer is unmapped when the bus is done with it, or after an error.
* `EngineLeftReady`: a request that is over has left command master and host, data master
  and data host idle, without start or status. It says nothing of the burst that an aborted
  transfer may leave on the bus (`BusKeepsUp`).
* `RequestMovesOwnData`: `OkMeansOwnData`, an action property. A read
  or write that ends without an error has moved its own blocks, all of them and in order.

*Argument.* `DataCmdInv` says of a data command that only a write can fail, and then not so
that its data are sent, and counts the ticks until a read is answered against the watchdog.
`TransferInv` gives the three situations there are: nothing of a transfer is left, its
command is being sent, or the driver waits for its data; in the last two the request is the
one the driver holds. `DataInv` adds the data. The blocks that went over the data lines are
counted by the data host, those that went over the bus by the DMA address; the FIFO
holds what is between the two, in order, and memory (of a read) or the card (of a write)
what is beyond. This is kept only as long as every block was good (`Sound`), and a bad one
ends in a status other than `{"CC"}`. A read's data host starts while the command is on its
way, so the invariant says in which tick of the command the master starts
(`DirectionInv`): the card's position is that of the new command before the first block is
taken. `DoneInv` carries the result from the status to the end of the request, over the stop
command, during which the engine and the bus rest. `PaceInv` bounds the DMA address: a
read stores no more than the data lines have brought, which is at most the blocks asked for; a
write has fetched at most what has gone over them and what the FIFO holds.

`SdcPolling_proofs`, for every sequence of calls of boot ROM and U-Boot, number of blocks,
FIFO size, timeout and failure of the card:

* `PolledEngineReady`: `PollingSpec => []PolledEngineIsReady`. A call that returns, and the
  reset of an initialisation, leave the command master and the data engine idle, no write that
  waits for its answer and no status pending, unless a data command has failed since the
  last reset (`dirty`).

*Argument.* `PolledCmdInv` follows a command from its register to the clear of its status; it
holds in `dirty` states as well, since the command blocks do not depend on the data blocks.
`PolledDataInv` says how far a transfer may be at each stage; it is kept as long as not
`dirty`. Both rest on the lemmas of `SdcHw_proofs`, which speak of the controller alone
(`CmdBlocksInv`, `EngineInv`) and serve the Linux driver too.

### Boot

`Firmware_proofs`, for every memory map, size of the chunks, file and sequence of attempts:

* `RomMemoryKept`: `LoaderSpec => []RomMemoryIsKept`. Until the jump nothing is written to the
  memory of the boot ROM.
* `LoadedInPlace`: `LoaderSpec => []LoadedIsInPlace`. After the jump every cell that the
  segments put into the RAM below `MemAlt` is there, the last one where they overlap.

*Assumptions*: `LoaderAssumption`: `MemAlt` is a chunk or more behind the memory of the boot
ROM, and the RAM has room there for all of it (`common.h`: 0x80000000 to 0x80002000 and
0x87ffe000 with 128 MB; chunks of 0x10000). The distance is for a chunk that begins before
the boot ROM's memory and reaches into it: it is moved as a whole, so to below `MemAlt`.
*Argument.* `LoadedAtHome`: until the jump the cell of an address is at its `Home`, which is
at `MemAlt` for what is in the way, and then `alt_mem` is set, whatever attempt set it. With
segments that lie in the RAM below `MemAlt` a chunk is wholly moved or not at all, since it
is cut where the memory in the way ends, and the two kinds of homes do not meet. A read that
fails may have written any of the chunk's cells, so the invariant pauses until `main` starts
over. `MovedBack` then turns homes into places.
*The step to the code.* That `BootRom` implements `Loader` is a property of the run `firmware`
(`LoaderSpec`). It could not be proved: a step of `BootRom` is what recursive operators of
`FatFs` compute. `LoadedIsInPlace` is no property of the run, it follows from `LoaderSpec`;
`ImageIsFile` says of the cards of the run that what is in place is the image.

### What is only model-checked

* Liveness: `EnginesFinish`, `RequestIsAnswered` and the properties of `eth_live`,
  `uart` and `firmware` that end in something happening.
* `WindowHoldsSector`, `CursorIsTrue`, `ImageIsFile`, `VerdictIsTrue`: what FatFs computes from
  a card. `FatFs` and `BootRom` are written with RECURSIVE operators (a chain of clusters,
  a directory, a file), and what these return for every card takes induction over data.
* That `BootRom` implements `Loader` (`LoaderSpec`), for the same reason. Together with the two
  theorems about `Loader` it gives `RomMemoryIsKept` and `LoadedIsInPlace` of the boot ROM on
  the cards of the run.

*Out of this prover's reach*: liveness under fairness and ENABLED; induction over data, so
what the recursive operators of `FatFs` compute; modules with RECURSIVE operators
(`FatFs`, `BootRom` and what extends them).

## 6. Plan

1. SD card: an abstract request that is answered once, after its data, and `SdcDriver` as
   its implementation; `set_ios`, reset, `get_cd` of the Linux driver.
2. SD data inside a block: burst lengths, word counters; the serial hosts as bounded
   algorithms.
3. Start-up of the harts (`head.S`).
4. Proofs: a `FatFs` written with recursive functions over a bounded chain, for which
   `CursorIsTrue` could be stated and proved step by step.

## 7. Not modelled

* The case tables of `ffunicode.c` (most of its 15593 lines) and the code of `ff.c` that
  the configuration in `ffconf.h` does not compile (writing, formatting, volumes,
  strings) do nothing in this system; equality of names stands for case folding. They
  are most of the lines of the repository's own directories, so a large part of the lines has no
  definition here.
* Path parsing, check sums and hashes of names: one fixed file name is looked for.
* Formatted output (`kprintf`), device tree copy, the answers of the card (capacity,
  address): they decide no step of the loader.
* Parking of the other harts in `head.S`.
* `probe` and `remove` of the Linux drivers, `ethtool`, statistics, the reset of the PHY
  (`mdio_reset`, which writes `nic_control` without the lock, from `probe` only),
  the early console.
* `axi_sdc_set_ios`, reset and `get_cd`; bits, check sums and clock divider of the SD bus.
* Bus handshakes of the register interfaces; shift registers of the UART.
* Stream widths other than a byte or a bus word, which no board uses.
* The small controllers, wrappers, generators and scripts of section 1: no run-time
  behaviour of their own that a model would tell more about than the source does. The
  memory reset control is three synchronisers and a counter that share no state with
  software.
