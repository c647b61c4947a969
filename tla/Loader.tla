------------------------------- MODULE Loader -------------------------------
(***************************************************************************)
(* What download of bootrom.c does to the memory, with any file and any    *)
(* file system under it: the abstract specification of BootRom.  A segment *)
(* is read and cleared in chunks; a chunk that would overwrite the memory  *)
(* of the boot ROM itself goes to MEM_ALT, and what is there is moved to   *)
(* its place right before the jump.                                        *)
(*                                                                         *)
(* A cell of memory is a cell of a file, MEM_ADDR is the start of the RAM. *)
(***************************************************************************)
EXTENDS Integers

CONSTANTS
    MemAddr, MemEnd, MemAlt, MemTop,    \* BOOTROM_MEM_ADDR, _END, _ALT, RAM size
    Chunk           \* cells read or cleared at a time (0x10000 bytes)

ASSUME LoaderAssumption ==
    /\ MemAddr \in Nat /\ MemEnd \in Nat /\ MemAlt \in Nat /\ MemTop \in Nat
    /\ Chunk \in Nat \ {0}
    /\ MemAddr < MemEnd /\ MemEnd + Chunk <= MemAlt
    /\ MemAlt + (MemEnd - MemAddr) <= MemTop

VARIABLES
    pc,
    seg,            \* filesz, memsz, addr and pos of the segment in work
    alt_mem, ram,
    loaded          \* history: what this attempt has put where

loaderVars == <<pc, seg, alt_mem, ram, loaded>>

Rom == -1           \* memory the boot ROM itself uses
Stray == -2         \* memory with nothing in it
PtLoad == 1

NoSegment == [type |-> 0, offset |-> 0, filesz |-> 0, memsz |-> 0, addr |-> 0, pos |-> 0]
Segments == [type : {PtLoad}, offset : Nat, filesz : Nat, memsz : Nat, addr : Nat, pos : {0}]
RomMemory == MemAddr .. MemEnd - 1

LoaderInit ==
    /\ pc = "mount" /\ seg = NoSegment /\ alt_mem = FALSE
    /\ ram = [a \in 0 .. MemTop - 1 |-> IF a \in RomMemory THEN Rom ELSE Stray]
    /\ loaded = <<>>

-----------------------------------------------------------------------------
(* Chunks.                                                                 *)

Lesser(a, b) == IF a < b THEN a ELSE b

\* Mutant: a chunk is moved only if all of it is in the way.
PlaceIfInside(addr, size) ==
    IF addr >= MemAddr /\ addr + size <= MemEnd
    THEN [at |-> addr - MemAddr + MemAlt, size |-> Lesser(size, MemEnd - addr), alt |-> TRUE]
    ELSE [at |-> addr, size |-> size, alt |-> FALSE]

\* Mutant: a chunk that is moved is not cut at the end of the memory in the way.
PlaceUncut(addr, size) ==
    IF addr + size > MemAddr /\ addr < MemEnd
    THEN [at |-> addr - MemAddr + MemAlt, size |-> size, alt |-> TRUE]
    ELSE [at |-> addr, size |-> size, alt |-> FALSE]

\* Where a chunk goes: what would overwrite the boot ROM's own memory goes to
\* MEM_ALT, up to the end of that memory.
Place(addr, size) ==
    IF addr + size > MemAddr /\ addr < MemEnd
    THEN [at |-> addr - MemAddr + MemAlt, size |-> Lesser(size, MemEnd - addr), alt |-> TRUE]
    ELSE [at |-> addr, size |-> size, alt |-> FALSE]

\* The next chunk of the file, and the next one of zeroes.
FileChunk ==
    Place(seg.addr, Lesser(Chunk, Lesser(seg.filesz - seg.pos, seg.memsz - seg.pos)))
ZeroesChunk == Place(seg.addr, Lesser(Chunk, seg.memsz - seg.pos))

Store(at, cells) ==
    ram' = [a \in DOMAIN ram |-> IF a - at + 1 \in DOMAIN cells THEN cells[a - at + 1]
                                 ELSE ram[a]]

\* The cells are those of the segment from its addr on.
Record(cells) ==
    loaded' = [a \in DOMAIN loaded \cup {seg.addr + k - 1 : k \in DOMAIN cells} |->
                  IF a - seg.addr + 1 \in DOMAIN cells THEN cells[a - seg.addr + 1]
                  ELSE loaded[a]]

Advance(n) == seg' = [seg EXCEPT !.addr = @ + n, !.pos = @ + n]

InFile == seg.pos < seg.filesz /\ seg.pos < seg.memsz

-----------------------------------------------------------------------------
(* Steps.                                                                  *)

\* f_mount, f_open, the ELF header; what fails ends the attempt.
Prepare ==
    /\ pc \in {"mount", "open", "header"} /\ pc' \in {"open", "header", "ph", "failed"}
    /\ UNCHANGED <<seg, alt_mem, ram, loaded>>

\* A program header: to be loaded, or not.
NextHeader ==
    /\ pc = "ph"
    /\ \/ pc' = "load" /\ seg' \in Segments
       \/ pc' \in {"ph", "failed"} /\ UNCHANGED seg
    /\ UNCHANGED <<alt_mem, ram, loaded>>

\* while (pos < p_filesz && pos < p_memsz): f_read gets some cells of the chunk,
\* or fails when it has written some.
LoadSome ==
    /\ pc = "load" /\ InFile
    /\ alt_mem' = (alt_mem \/ FileChunk.alt)
    /\ \/ /\ pc' = "load"
          /\ \E n \in 1 .. FileChunk.size :
                LET cells == [k \in 1 .. n |-> loaded'[seg.addr + k - 1]]
                IN  /\ seg.addr .. seg.addr + n - 1 \subseteq DOMAIN loaded'
                    /\ Advance(n) /\ Store(FileChunk.at, cells) /\ Record(cells)
       \/ /\ pc' = "failed"
          /\ ram' = [a \in DOMAIN ram |->
                        IF a \in FileChunk.at .. FileChunk.at + FileChunk.size - 1
                        THEN ram'[a] ELSE ram[a]]
          /\ UNCHANGED <<seg, loaded>>

\* while (pos < p_memsz)
ZeroSome ==
    /\ pc = "load" /\ ~InFile /\ seg.pos < seg.memsz
    /\ alt_mem' = (alt_mem \/ ZeroesChunk.alt)
    /\ LET zeroes == [k \in 1 .. ZeroesChunk.size |-> 0]
       IN  Store(ZeroesChunk.at, zeroes) /\ Record(zeroes) /\ Advance(ZeroesChunk.size)
    /\ UNCHANGED pc

SegmentEnds ==
    /\ pc = "load" /\ seg.pos >= seg.memsz
    /\ pc' = "ph"
    /\ UNCHANGED <<seg, alt_mem, ram, loaded>>

\* boot_rom_memcpy
MovedBack == [a \in DOMAIN ram |-> IF a \in RomMemory THEN ram[a - MemAddr + MemAlt]
                                   ELSE ram[a]]

Jump ==
    /\ pc = "ph" /\ pc' = "jumped"
    /\ ram' = IF alt_mem THEN MovedBack ELSE ram
    /\ UNCHANGED <<seg, alt_mem, loaded>>

\* main starts over; alt_mem and the memory stay as they are.
StartOver ==
    /\ pc = "failed" /\ pc' = "mount"
    /\ loaded' = <<>>
    /\ UNCHANGED <<seg, alt_mem, ram>>

LoaderNext ==
    \/ Prepare \/ NextHeader \/ LoadSome \/ ZeroSome \/ SegmentEnds \/ Jump \/ StartOver

LoaderSpec == LoaderInit /\ [][LoaderNext]_loaderVars

-----------------------------------------------------------------------------
(* What is required.                                                       *)

\* Until the jump the memory that holds the boot ROM's stack and variables is
\* not written with the image, wherever its segments lie.
RomMemoryIsKept == pc # "jumped" => \A a \in RomMemory : ram[a] = Rom

\* After the jump what the segments put where is there, what was moved out of the
\* way included, for every way of its segments through the RAM below MEM_ALT.
LoadedIsInPlace ==
    pc = "jumped" /\ DOMAIN loaded \subseteq MemAddr .. MemAlt - 1 =>
        \A a \in DOMAIN loaded : ram[a] = loaded[a]

-----------------------------------------------------------------------------
(* Why it holds: an invariant that every step keeps.                       *)

LoaderTypeOK ==
    /\ pc \in {"mount", "open", "header", "ph", "load", "failed", "jumped"}
    /\ seg \in [type : {0, PtLoad}, offset : Nat, filesz : Nat, memsz : Nat,
                addr : Nat, pos : Nat]
    /\ alt_mem \in BOOLEAN
    /\ DOMAIN ram = 0 .. MemTop - 1
    /\ DOMAIN loaded \subseteq Nat

\* Where the cell of an address is until the jump.
Home(a) == IF a \in RomMemory THEN a - MemAddr + MemAlt ELSE a

LoadedAtHome ==
    pc \notin {"failed", "jumped"} /\ DOMAIN loaded \subseteq MemAddr .. MemAlt - 1 =>
        \A a \in DOMAIN loaded : ram[Home(a)] = loaded[a] /\ (a \in RomMemory => alt_mem)

LoaderInv == LoaderTypeOK /\ RomMemoryIsKept /\ LoadedAtHome /\ LoadedIsInPlace
=============================================================================
