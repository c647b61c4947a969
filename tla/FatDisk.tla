------------------------------ MODULE FatDisk -------------------------------
(***************************************************************************)
(* The lower half of FatFs as the boot ROM is built with it (read only,    *)
(* one volume, FF_FS_TINY): the sector window all parts of it share, and   *)
(* the FAT.  bootrom/ff.c runs in one thread, so a function of it is an    *)
(* operator here, from the machine m it is called on to the machine it     *)
(* returns on:                                                             *)
(*   m.io   the card in the slot, and when a read of it fails              *)
(*   m.drv  drv_status of the boot ROM, "ok" or "noinit"                   *)
(*   m.fs, m.fd, m.dp, m.dirbuf   filesystem, file, directory, entry block *)
(*   m.res, m.val   FRESULT and number returned, m.br and m.out by f_read  *)
(*                                                                         *)
(* A sector has SS cells.  What a cell holds is what the code takes it     *)
(* for: a header field of a file, two bytes of a FAT; a directory entry    *)
(* takes SZDIRE of them.                                                   *)
(***************************************************************************)
EXTENDS Integers, Sequences

CONSTANTS SS,           \* cells of a sector
          Align,        \* alignment of buffers the controller insists on
          MaxDir,       \* MAX_DIR
          MaxFat12, MaxFat16, MaxFat32,     \* MAX_FAT12, ...
          Disk,         \* what is on each card: sectors by number
          NoCard

SZDIRE == 2

ASSUME DiskAssumption ==
    /\ SS \in Nat /\ SS % 4 = 0 /\ SS > 0 /\ Align \in Nat \ {0}
    /\ MaxDir \in Nat /\ MaxFat12 \in Nat /\ MaxFat16 \in Nat /\ MaxFat32 \in Nat
    /\ NoCard \notin DOMAIN Disk

\* Cluster numbers with a meaning, and no sector.
DiskErr == 99999
EndOfChain == 99998
NoSect == -1
\* A window with nothing of any card in it.
Junk == [card |-> NoCard, sect |-> NoSect]
Never == -1

Ok(m) == m.res = "OK"
Return(m, res) == [m EXCEPT !.res = res]

-----------------------------------------------------------------------------
(* The card.  io.left reads succeed, the next one fails.  io.after says    *)
(* what becomes of those behind it, until disk_initialize resets the       *)
(* controller: they are "good"; the card is "lost" and none succeeds; or   *)
(* the block of the read that failed is "late".  send_data_cmd has left    *)
(* the data engine on, and that block with its status is taken for what    *)
(* the next read has asked for, whose own block is lost; the engine is off *)
(* after that (DiskReadIsOwn in SdcPolling).  io.late is the sector of     *)
(* such a block, io.from the one the last block came from.                 *)

OneMore(io, sect) ==
    CASE io.left = Never -> [io EXCEPT !.late = NoSect]
      [] io.left = 0 -> [io EXCEPT !.left = Never, !.ready = io.after # "lost",
                            !.late = IF io.after = "late" THEN sect ELSE NoSect]
      [] OTHER -> [io EXCEPT !.left = @ - 1]

\* disk_read of the boot ROM: n sectors from sect into a buffer at buf.
DiskRead(m, sect, n, buf) ==
    LET asked == m.drv = "ok" /\ buf % Align = 0
        onCard == sect .. sect + n - 1 \subseteq DOMAIN Disk[m.io.card]
        good == asked /\ m.io.ready /\ m.io.left # 0 /\ onCard
        from == IF m.io.late = NoSect THEN sect ELSE m.io.late
        io == [OneMore(m.io, IF onCard THEN sect ELSE NoSect) EXCEPT
                  !.from = from, !.belated = @ \/ from # sect]
    IN  [m EXCEPT !.io = IF asked /\ m.io.ready THEN io ELSE @,
                  !.res = IF good THEN "OK" ELSE "DISK_ERR"]

\* disk_initialize: ini_sd of the boot ROM.
DiskInitialize(m) ==
    LET good == m.io.card # NoCard /\ m.io.left # 0
        io == OneMore(m.io, NoSect)
    IN  [m EXCEPT !.io = [io EXCEPT !.ready = good],
                  !.drv = IF good THEN "ok" ELSE "noinit"]

\* The sector window: what m.fs.win says is in it.
Win(m) == Disk[m.fs.win.card][m.fs.win.sect]

\* What the last read has put into a buffer of one sector.
Came(m) == [card |-> m.io.card, sect |-> m.io.from]

\* Mutant: a window whose read failed keeps its number.
MoveWindowKeepsNumber(m, sect) ==
    LET moved(r) == [r EXCEPT !.fs.winsect = sect,
                              !.fs.win = IF Ok(r) THEN Came(r) ELSE Junk]
    IN  IF sect = m.fs.winsect THEN Return(m, "OK") ELSE moved(DiskRead(m, sect, 1, 0))

\* move_window
MoveWindow(m, sect) ==
    LET moved(r) == IF Ok(r)
                    THEN [r EXCEPT !.fs.winsect = sect, !.fs.win = Came(r)]
                    ELSE [r EXCEPT !.fs.winsect = NoSect, !.fs.win = Junk]
    IN  IF sect = m.fs.winsect THEN Return(m, "OK") ELSE moved(DiskRead(m, sect, 1, 0))

-----------------------------------------------------------------------------
(* The FAT.                                                                *)

\* clst2sect: 0 is an invalid cluster number.
Clst2Sect(fs, clst) ==
    IF clst < 2 \/ clst >= fs.n_fatent THEN 0
    ELSE fs.database + fs.csize * (clst - 2)

Value(m, val) == [m EXCEPT !.val = val]

\* The entry of a cluster in a FAT of whole entries, per of them in a sector.
FatEntry(m, clst, per) ==
    LET entry(r) == Value(r, IF Ok(r) THEN Win(r)[clst % per] ELSE DiskErr)
    IN  entry(MoveWindow(m, m.fs.fatbase + clst \div per))

\* The half of two bytes that is the entry of an odd or an even cluster.
TwelveBits(low, high, clst) ==
    LET wc == low + 256 * high IN IF clst % 2 = 1 THEN wc \div 16 ELSE wc % 4096

\* Mutant: the second byte is taken from the sector of the first.
FatEntry12SameSector(m, clst) ==
    LET bc == clst + clst \div 2
        entry(r) == Value(r, IF Ok(r)
                             THEN TwelveBits(Win(r)[bc % SS], Win(r)[(bc + 1) % SS], clst)
                             ELSE DiskErr)
    IN  entry(MoveWindow(m, m.fs.fatbase + bc \div SS))

\* The entry of a cluster in a FAT12: twelve bits, which may lie in two sectors.
FatEntry12(m, clst) ==
    LET bc == clst + clst \div 2
        entry(r, low) == Value(r, IF Ok(r) THEN TwelveBits(low, Win(r)[(bc + 1) % SS], clst)
                                  ELSE DiskErr)
        rest(r) == IF Ok(r)
                   THEN entry(MoveWindow(r, m.fs.fatbase + (bc + 1) \div SS), Win(r)[bc % SS])
                   ELSE Value(r, DiskErr)
    IN  rest(MoveWindow(m, m.fs.fatbase + bc \div SS))

\* On exFAT an object without a FAT chain (stat 2) is one run of clusters.
FatEntryEx(m, obj, clst) ==
    LET cofs == clst - obj.sclust
        clen == ((obj.objsize - 1) \div SS) \div m.fs.csize
    IN  IF ~((obj.objsize # 0 /\ obj.sclust # 0) \/ obj.stat = 0)
        THEN Value(m, 1)
        ELSE IF obj.stat # 2 THEN FatEntry(m, clst, SS \div 4)
        ELSE IF cofs < 0 \/ cofs > clen THEN Value(m, 1)
        ELSE Value(m, IF cofs = clen THEN EndOfChain ELSE clst + 1)

\* get_fat: DiskErr, 1 for an internal error, or the entry.
GetFat(m, obj, clst) ==
    IF clst < 2 \/ clst >= m.fs.n_fatent THEN Value(m, 1)
    ELSE CASE m.fs.fs_type = "FAT12" -> FatEntry12(m, clst)
           [] m.fs.fs_type = "FAT16" -> FatEntry(m, clst, SS \div 2)
           [] m.fs.fs_type = "FAT32" -> FatEntry(m, clst, SS \div 4)
           [] m.fs.fs_type = "EXFAT" -> FatEntryEx(m, obj, clst)
=============================================================================
