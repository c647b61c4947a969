------------------------------ MODULE BootRom -------------------------------
(***************************************************************************)
(* The boot ROM: main and download of bootrom.c on FatFs.  It runs on one  *)
(* hart and calls FatFs, so an action is a stretch of download with all    *)
(* its calls.  What moves besides is the card: it may be taken out and     *)
(* another put in between two actions, and in an action one read of it may *)
(* fail, with the consequences FatDisk tells.                              *)
(*                                                                         *)
(* A number of the ELF headers is one cell, so are the six bytes that tell *)
(* an ELF file.                                                            *)
(***************************************************************************)
EXTENDS Loader, FatFs

CONSTANTS
    Verdict,        \* what each card comes to: "boots", or the error
    OtherVerdicts,  \* what else it may come to when a read fails
    Chains,         \* the files on each card, as sequences of clusters
    Image,          \* the images it holds: entry, and memory by address
    MaxReads,       \* bound: the read that fails is among the first of an action
    MaxFaults,      \* bound: reads that fail
    MaxSwaps        \* bound: cards taken out or put in

Cards == DOMAIN Disk

VARIABLES
    slot,           \* the card in the slot, or NoCard
    ready,          \* it is set up
    drv, fs, fd,    \* drv_status, fatfs, fd
    errno,
    elf,            \* entry_addr, phoff, phentsize, phnum
    i,              \* program header in work
    tried,          \* history: the card of this attempt
    hit,            \* history: a read failed or a card moved since it began
    belated,        \* history: a read was answered with the block of one that failed
    faults, swaps

cardVars == <<slot, ready>>
fatVars == <<drv, fs, fd>>
elfVars == <<elf, i>>
memVars == <<alt_mem, ram, loaded>>
vars == <<loaderVars, cardVars, fatVars, errno, elfVars, tried, hit, belated, faults,
          swaps>>

NoFile == [fs |-> FALSE, current |-> FALSE, sclust |-> 0, objsize |-> 0, stat |-> 0,
           err |-> "OK", fptr |-> 0, clust |-> 0, sect |-> 0]
NoFs == [fs_type |-> "none", csize |-> 0, n_fatent |-> 0, n_rootdir |-> 0, fatbase |-> 0,
         database |-> 0, dirbase |-> 0, winsect |-> 0, win |-> Junk]
NoElf == [entry |-> 0, phoff |-> 0, phentsize |-> 0, phnum |-> 0]

ElfIdent == 127     \* 0x7f 'E' 'L' 'F', 64 bits, little endian

\* main clears the .bss; the window is all zeroes and says it is sector 0.
Init ==
    /\ LoaderInit
    /\ slot \in Cards \cup {NoCard} /\ ready = FALSE
    /\ drv = "noinit" /\ fs = NoFs /\ fd = NoFile
    /\ errno = "OK"
    /\ elf = NoElf /\ i = 0
    /\ tried = NoCard /\ hit = FALSE /\ belated = FALSE /\ faults = 0 /\ swaps = 0

-----------------------------------------------------------------------------
(* The machine FatFs runs on.                                              *)

\* Which read of an action fails, and what becomes of those behind it.
NoFault == [left |-> Never, after |-> "good"]
Outcomes ==
    {NoFault} \cup [left : IF faults < MaxFaults THEN 0 .. MaxReads ELSE {},
                    after : {"good", "late", "lost"}]

\* No block is late when an action begins: only find_volume reads on after a read
\* that failed, everything else ends the attempt, and f_mount resets the controller.
Machine(o) ==
    [io |-> [card |-> slot, left |-> o.left, after |-> o.after, ready |-> ready,
             late |-> NoSect, from |-> NoSect, belated |-> FALSE],
     drv |-> drv, fs |-> fs, fd |-> fd, dp |-> <<>>, dirbuf |-> <<>>,
     res |-> "OK", val |-> 0, br |-> 0, out |-> <<>>, nums |-> <<>>]

\* The calls are over and have left machine m; if they failed, the attempt has.
Returns(o, m, next) ==
    /\ m.io.left = Never
    /\ ready' = m.io.ready
    /\ drv' = m.drv /\ fs' = m.fs /\ fd' = m.fd
    /\ errno' = m.res
    /\ pc' = IF Ok(m) THEN next ELSE "failed"
    /\ faults' = IF o.left = Never THEN faults ELSE faults + 1

Hits(o) == hit' = (hit \/ o.left # Never) /\ UNCHANGED belated

\* read_num, of one cell; nothing is read once there has been an error.
ReadNum(m) ==
    LET num(r) == IF ~Ok(r) THEN r
                  ELSE IF r.br < 1 THEN Return(r, "EOF")
                  ELSE [r EXCEPT !.nums = Append(@, r.out[1])]
    IN  IF Ok(m) THEN num(FRead(m, 1, 0)) ELSE m

\* n numbers, one after the other.
RECURSIVE ReadNums(_, _)
ReadNums(m, n) == IF n = 0 THEN m ELSE ReadNums(ReadNum(m), n - 1)

-----------------------------------------------------------------------------
(* main and download.                                                      *)

\* f_mount
Mount ==
    /\ pc = "mount"
    /\ \E o \in Outcomes :
        LET m == FMount([Machine(o) EXCEPT !.drv = "noinit"])
        IN  Returns(o, m, "open") /\ hit' = (o.left # Never) /\ belated' = m.io.belated
    /\ tried' = slot
    /\ UNCHANGED <<slot, elfVars, seg, memVars, swaps>>

\* f_open
Open ==
    /\ pc = "open"
    /\ \E o \in Outcomes : Returns(o, FOpen(Machine(o)), "header") /\ Hits(o)
    /\ UNCHANGED <<slot, elfVars, seg, memVars, tried, swaps>>

ElfHeader(nums) ==
    [entry |-> nums[2], phoff |-> nums[3], phentsize |-> nums[4], phnum |-> nums[5]]

\* The ELF header: the six bytes that tell it, then entry_addr and phoff, then
\* phentsize and phnum.
ReadHeader ==
    /\ pc = "header"
    /\ \E o \in Outcomes :
        LET counts(a) == IF Ok(a) THEN ReadNums(FLseek(a, a.fd.fptr + 1), 2) ELSE a
            rest(r) == IF ~Ok(r) THEN r
                       ELSE IF r.nums[1] # ElfIdent THEN Return(r, "NOT_ELF")
                       ELSE counts(ReadNums(FLseek(r, 1), 2))
            m == rest(ReadNum(Machine(o)))
        IN  /\ Returns(o, m, "ph") /\ Hits(o)
            /\ elf' = IF Ok(m) THEN ElfHeader(m.nums) ELSE elf
    /\ i' = 0
    /\ UNCHANGED <<slot, seg, memVars, tried, swaps>>

Segment(nums) ==
    [type |-> PtLoad, offset |-> nums[2], addr |-> nums[3], filesz |-> nums[5],
     memsz |-> nums[6], pos |-> 0]

\* A program header; for one that is to be loaded, on to the data.
ReadPh ==
    /\ pc = "ph" /\ i < elf.phnum
    /\ \E o \in Outcomes :
        LET data(n) == IF Ok(n) THEN FLseek(n, n.nums[2]) ELSE n
            rest(t) == IF Ok(t) /\ t.nums[1] = PtLoad
                       THEN data(ReadNums(FLseek(t, t.fd.fptr + 1), 5)) ELSE t
            m == rest(ReadNum(FLseek(Machine(o), elf.phoff + i * elf.phentsize)))
            load == m.nums # <<>> /\ m.nums[1] = PtLoad
        IN  /\ Returns(o, m, IF load THEN "load" ELSE "ph") /\ Hits(o)
            /\ seg' = IF load /\ Ok(m) THEN Segment(m.nums) ELSE seg
            /\ i' = IF load \/ ~Ok(m) THEN i ELSE i + 1
    /\ UNCHANGED <<slot, elf, memVars, tried, swaps>>

\* Mutant: the chunk counts as read although the file ended in it.
AllTaken(size, rd) == size

\* if (size > rd) size = rd
Taken(size, rd) == Lesser(size, rd)

\* while (pos < p_filesz && pos < p_memsz)
LoadChunk ==
    /\ pc = "load" /\ InFile
    /\ \E o \in Outcomes :
        LET read(r) == IF Ok(r) /\ r.br = 0 THEN Return(r, "EOF") ELSE r
            m == read(FRead(Machine(o), FileChunk.size, FileChunk.at))
        IN  /\ Returns(o, m, "load") /\ Hits(o)
            /\ Store(FileChunk.at, m.out)
            /\ IF Ok(m) THEN Record(m.out) /\ Advance(Taken(FileChunk.size, m.br))
               ELSE UNCHANGED <<loaded, seg>>
    /\ alt_mem' = (alt_mem \/ FileChunk.alt)
    /\ UNCHANGED <<slot, elf, i, tried, swaps>>

\* while (pos < p_memsz)
ZeroChunk ==
    /\ ZeroSome
    /\ UNCHANGED <<cardVars, fatVars, errno, elf, i, tried, hit, belated, faults, swaps>>

SegmentDone ==
    /\ SegmentEnds
    /\ i' = i + 1
    /\ UNCHANGED <<cardVars, fatVars, errno, elf, tried, hit, belated, faults, swaps>>

\* f_close; then the memory in the way is filled from MEM_ALT, and the jump.
CloseAndJump ==
    /\ pc = "ph" /\ i >= elf.phnum
    /\ Returns(NoFault, FClose(Machine(NoFault)), "jumped")
    /\ ram' = IF pc' = "jumped" /\ alt_mem THEN MovedBack ELSE ram
    /\ UNCHANGED <<slot, elfVars, seg, alt_mem, loaded, tried, hit, belated, swaps>>

\* After an error: if (fd.obj.fs) f_close(&fd), a pause, and main starts over.
TryAgain ==
    /\ StartOver
    /\ fd' = IF fd.fs THEN FClose(Machine(NoFault)).fd ELSE fd
    /\ UNCHANGED <<cardVars, drv, fs, errno, elfVars, tried, hit, belated, faults, swaps>>

Program == \/ Mount \/ Open \/ ReadHeader \/ ReadPh \/ LoadChunk \/ ZeroChunk
           \/ SegmentDone \/ CloseAndJump \/ TryAgain

-----------------------------------------------------------------------------
\* A card is taken out, or put in.
Swap ==
    /\ pc # "jumped" /\ swaps < MaxSwaps
    /\ slot' \in IF slot = NoCard THEN Cards ELSE {NoCard}
    /\ ready' = FALSE /\ hit' = TRUE /\ swaps' = swaps + 1
    /\ UNCHANGED <<loaderVars, fatVars, errno, elfVars, tried, belated, faults>>

Next == Program \/ Swap

Spec == Init /\ [][Next]_vars

\* The boot ROM runs on until it jumps; cards need not be changed and reads need
\* not fail.  Until it jumps Program is enabled, so this is WF_vars(Program),
\* written without ENABLED, which TLC is slow to find for these actions.
RunsOn == []<>(pc = "jumped") \/ []<><<Program>>_vars

FairSpec == Spec /\ RunsOn

-----------------------------------------------------------------------------
(* What is required.                                                       *)

\* "Current sector appearing in the win[]" (ff.h:174): of a mounted volume, the
\* window holds the sector whose number it has, read from the card of this attempt.
\* It fails when the boot sector of a partition comes late: find_volume reads the
\* next one without a reset and gets it under that one's number.
WinsectIsInWin ==
    fs.fs_type # "none" /\ fs.winsect # NoSect =>
        fs.win = [card |-> tried, sect |-> fs.winsect]

\* That is the only way: in every other attempt the window holds its sector, also
\* after reads that failed in any call and over changes of the card.
WindowHoldsSector == belated \/ WinsectIsInWin

\* The cursor of the open file, which f_read and f_lseek move along the FAT, is
\* where the file has its byte fptr - 1: the cluster it keeps to go on from,
\* and, within a sector, the sector.
CursorIsTrue ==
    fd.fs /\ fd.current /\ fd.err = "OK" /\ fd.fptr > 0 =>
        /\ \E chain \in Chains[tried] :
               /\ chain[1] = fd.sclust
               /\ fd.clust = chain[((fd.fptr - 1) \div (fs.csize * SS)) + 1]
        /\ fd.fptr % SS # 0 =>
               fd.sect = Clst2Sect(fs, fd.clust) + ((fd.fptr \div SS) % fs.csize)

\* The boot ROM jumps into an image of the card of this attempt, complete and
\* where it belongs: chunks that were moved out of the way are back in their
\* place, what is beyond the file's part of a segment is zero, and nothing of
\* an earlier attempt is in it.  A volume mounted with a boot sector that came late
\* is read with the numbers of another one.
ImageIsFile ==
    pc = "jumped" /\ ~belated =>
        \E image \in Image[tried] :
            /\ elf.entry = image.entry
            /\ \A a \in DOMAIN image.mem : ram[a] = image.mem[a]

\* An attempt ends as the card deserves: the error names what is wrong with it,
\* not what was left of an earlier card or attempt; only a read that failed may
\* turn it into a disk error, or let the search pass over a partition, and only a
\* boot sector that came late may lead to any other.
VerdictIsTrue ==
    pc \in {"failed", "jumped"} /\ ~belated =>
        LET verdict == IF pc = "jumped" THEN "boots" ELSE errno
            due == IF tried = NoCard THEN "NOT_READY" ELSE Verdict[tried]
        IN  \/ verdict = due
            \/ hit /\ verdict \in {"DISK_ERR", "NOT_READY"} \cup OtherVerdicts[tried]

\* However often it failed before, the boot ROM boots when good cards stay in.
BootsAtLast ==
    <>[](slot # NoCard /\ Verdict[slot] = "boots") => <>(pc = "jumped")
=============================================================================
