------------------------------- MODULE FatFs --------------------------------
(***************************************************************************)
(* The upper half of FatFs as the boot ROM is built with it: directories,  *)
(* mounting and the calls download makes.  Operators take and return a     *)
(* machine, see FatDisk.  What abbreviates the disk:                       *)
(*  - directory offsets count entries, not bytes;                          *)
(*  - an entry, a boot sector, a partition table is a record of the fields *)
(*    that are read; BOOT.ELF is one segment of a path, its own short name *)
(*    and fits in one long name entry, and equal check sums and hashes     *)
(*    mean equal names.                                                    *)
(***************************************************************************)
EXTENDS FatDisk

CONSTANTS Name          \* the file looked for: "BOOT.ELF"

EntriesPerSector == SS \div SZDIRE
NoOrd == 255
MaxDirEx == 1000        \* MAX_DIR_EX

\* The directory entry m.dp stands on, once its sector is in the window.
Entry(m) == Win(m)[m.dp.dptr % EntriesPerSector]

-----------------------------------------------------------------------------
(* Directories.                                                            *)

\* dir_sdi(dp, 0)
DirRewind(m) ==
    LET dynamic == m.dp.sclust # 0 \/ m.fs.fs_type \in {"FAT32", "EXFAT"}
        clst == IF m.dp.sclust = 0 /\ dynamic THEN m.fs.dirbase ELSE m.dp.sclust
        sect == IF clst = 0 THEN m.fs.dirbase ELSE Clst2Sect(m.fs, clst)
        dp == [m.dp EXCEPT !.dptr = 0, !.clust = clst, !.sect = sect, !.stat = 0]
    IN  Return([m EXCEPT !.dp = dp], IF sect = 0 THEN "INT_ERR" ELSE "OK")

\* The first sector of the cluster that follows in the directory.
DirNextCluster(m) ==
    LET next(r) ==
            IF r.val <= 1 THEN Return(r, "INT_ERR")
            ELSE IF r.val = DiskErr THEN Return(r, "DISK_ERR")
            ELSE IF r.val >= m.fs.n_fatent
                 THEN Return([r EXCEPT !.dp.sect = 0], "NO_FILE")
            ELSE Return([r EXCEPT !.dp.clust = r.val,
                                  !.dp.sect = Clst2Sect(r.fs, r.val)], "OK")
    IN  next(GetFat(m, m.dp, m.dp.clust))

\* dir_next(dp, 0)
DirNext(m) ==
    LET ofs == m.dp.dptr + 1
        eot == Return([m EXCEPT !.dp.sect = 0], "NO_FILE")
        max == IF m.fs.fs_type = "EXFAT" THEN MaxDirEx ELSE MaxDir
        at(r) == IF Ok(r) THEN [r EXCEPT !.dp.dptr = ofs] ELSE r
    IN  IF m.dp.sect = 0 \/ ofs >= max THEN eot
        ELSE at(IF ofs % EntriesPerSector # 0 THEN Return(m, "OK")
                ELSE IF m.dp.clust = 0
                     THEN IF ofs >= m.fs.n_rootdir THEN eot
                          ELSE Return([m EXCEPT !.dp.sect = @ + 1], "OK")
                ELSE IF (ofs \div EntriesPerSector) % m.fs.csize = 0
                     THEN DirNextCluster(m)
                ELSE Return([m EXCEPT !.dp.sect = @ + 1], "OK"))

\* To the next entry of a block, which must be of the given type.
XdirNext(m, type) ==
    LET entry(r) == IF Ok(r) THEN Return(r, IF Entry(r).t = type THEN "OK" ELSE "INT_ERR")
                    ELSE r
        next(n) == IF Ok(n) THEN entry(MoveWindow(n, n.dp.sect))
                   ELSE Return(n, IF n.res = "NO_FILE" THEN "INT_ERR" ELSE n.res)
    IN  next(DirNext(m))

\* The file name entries of a block, n of them.
RECURSIVE XdirNames(_, _)
XdirNames(m, n) ==
    LET names(r) == IF Ok(r)
                    THEN XdirNames([r EXCEPT !.dirbuf.name = Append(@, Entry(r).part)], n - 1)
                    ELSE r
    IN  IF n = 0 THEN m ELSE names(XdirNext(m, "name"))

\* load_xdir: the entry block of a file on exFAT, into dirbuf.
LoadXdir(m) ==
    LET head == Entry(m)        \* dir_read has its sector in the window
        sum(n) == IF Ok(n) THEN Return(n, IF head.sum THEN "OK" ELSE "INT_ERR") ELSE n
        names(s, stream) ==
            IF stream.numname > head.numsec - 1 THEN Return(s, "INT_ERR")
            ELSE sum(XdirNames([s EXCEPT !.dirbuf =
                                   [attr |-> head.attr, hash |-> stream.hash,
                                    sclust |-> stream.clus, name |-> <<>>,
                                    objsize |-> stream.size, stat |-> stream.stat]],
                               head.numsec - 1))
        rest(s) == IF Ok(s) THEN names(s, Entry(s)) ELSE s
    IN  IF head.numsec < 2 \/ head.numsec > 18 THEN Return(m, "INT_ERR")
        ELSE rest(XdirNext(m, "stream"))

\* dir_read(dp, 0) on exFAT: on to the next file.
RECURSIVE DirRead(_)
DirRead(m) ==
    LET orFail(r) == IF Ok(r) THEN r ELSE [r EXCEPT !.dp.sect = 0]
        file(b) == IF Ok(b) THEN [b EXCEPT !.dp.attr = b.dirbuf.attr] ELSE b
        on(n) == IF Ok(n) THEN DirRead(n) ELSE n
        at(r) == IF ~Ok(r) THEN r
                 ELSE CASE Entry(r).t = "end" -> Return(r, "NO_FILE")
                        [] Entry(r).t = "filedir" -> file(LoadXdir(r))
                        [] OTHER -> on(DirNext(r))
    IN  IF m.dp.sect = 0 THEN Return(m, "NO_FILE")
        ELSE orFail(at(MoveWindow(m, m.dp.sect)))

\* dir_find on exFAT: files until the name is met.
RECURSIVE DirFindEx(_)
DirFindEx(m) ==
    LET found(r) == ~Ok(r) \/ (r.dirbuf.hash = Name /\ r.dirbuf.name = <<Name>>)
        at(r) == IF found(r) THEN r ELSE DirFindEx(r)
    IN  at(DirRead(m))

\* cmp_lfn: of BOOT.ELF there is one part, which is also the last.
CmpLfn(e) == e.ord = 1 /\ e.part = Name

\* dir_find on FAT, in a sequence of long name entries: ord is the number of
\* the one expected next, sum the check sum they all carry.
RECURSIVE DirFindFat(_, _, _)
DirFindFat(m, ord, sum) ==
    LET go(n, o, s) == IF Ok(n) THEN DirFindFat(n, o, s) ELSE n
        sum1(e) == IF e.last THEN e.sum ELSE sum
        ord1(e) == IF e.last THEN e.ord ELSE ord
        lfn(e) == IF e.ord = ord1(e) /\ e.sum = sum1(e) /\ CmpLfn(e) THEN ord1(e) - 1
                  ELSE NoOrd
        at(r, e) ==
            IF e.t = "end" THEN Return(r, "NO_FILE")
            ELSE IF e.t = "sfn" /\ ((ord = 0 /\ sum = e.name) \/ e.name = Name)
                 THEN [r EXCEPT !.dp.attr = e.attr]
            ELSE go(DirNext(r), IF e.t = "lfn" THEN lfn(e) ELSE NoOrd,
                                IF e.t = "lfn" THEN sum1(e) ELSE sum)
        rest(r) == IF Ok(r) THEN at(r, Entry(r)) ELSE r
    IN  rest(MoveWindow(m, m.dp.sect))

\* dir_find
DirFind(m) ==
    LET rest(r) == IF ~Ok(r) THEN r
                   ELSE IF r.fs.fs_type = "EXFAT" THEN DirFindEx(r)
                   ELSE DirFindFat(r, NoOrd, NoOrd)
    IN  rest(DirRewind(m))

\* follow_path for a path of one segment: from the root directory.
FollowPath(m) ==
    DirFind([m EXCEPT !.dp = [sclust |-> 0, objsize |-> 0, stat |-> 0, attr |-> "",
                              dptr |-> 0, clust |-> 0, sect |-> 0]])

-----------------------------------------------------------------------------
(* Mounting.                                                               *)

\* What check_fs finds, and its answers.
VbrFat == 0
VbrExfat == 1
NotFat == 2
NoBootSector == 3
ReadFailed == 4

BootSectorKind(sector) ==
    IF ~sector.sig THEN NoBootSector
    ELSE CASE sector.boot = "exfat" -> VbrExfat
           [] sector.boot = "fat" -> VbrFat
           [] OTHER -> NotFat

\* check_fs
CheckFs(m, sect) ==
    LET kind(r) == Value(r, IF Ok(r) THEN BootSectorKind(Win(r)) ELSE ReadFailed)
    IN  kind(MoveWindow([m EXCEPT !.fs.winsect = NoSect, !.fs.win = Junk], sect))

\* The partitions of a GPT, from entry i on, n of them from sector lba on.
GptPerSector == SS \div 2

\* Entry k of a sector of the table; what is no such sector, a boot sector that
\* came late for instance, has no GUID of a basic data partition there.
GptEntry(sector, k) == IF "entries" \in DOMAIN sector THEN sector.entries[k]
                       ELSE [basic |-> FALSE]

RECURSIVE FindInGpt(_, _, _, _)
FindInGpt(m, i, n, lba) ==
    LET volume(c) == IF c.val <= VbrExfat THEN c ELSE FindInGpt(c, i + 1, n, lba)
        entry(r, e) == IF e.basic THEN volume(CheckFs(r, e.lba))
                       ELSE FindInGpt(r, i + 1, n, lba)
        rest(r) == IF Ok(r) THEN entry(r, GptEntry(Win(r), i % GptPerSector)) ELSE Value(r, ReadFailed)
    IN  IF i = n THEN Value(m, NoBootSector)
        ELSE rest(MoveWindow(m, lba + i \div GptPerSector))

\* The partitions of an MBR, from number i on.  A partition that cannot be read
\* is passed over like one that is no FAT volume.
RECURSIVE FindInMbr(_, _, _)
FindInMbr(m, i, pt) ==
    LET volume(c) == IF c.val >= NotFat /\ i < 4 THEN FindInMbr(c, i + 1, pt) ELSE c
    IN  volume(IF pt[i] # 0 THEN CheckFs(m, pt[i]) ELSE Value(m, NoBootSector))

\* find_volume(fs, 0)
FindVolume(m) ==
    LET inGpt(g, gpt) == IF gpt.valid /\ gpt.ptnum <= 128
                         THEN FindInGpt(g, 0, gpt.ptnum, gpt.ptofs)
                         ELSE Value(g, NoBootSector)
        header(g) == IF Ok(g) THEN inGpt(g, Win(g)) ELSE Value(g, ReadFailed)
        inMbr(c, mbr) == IF mbr.protective THEN header(MoveWindow(c, 1))
                         ELSE FindInMbr(c, 1, mbr.pt)
        rest(c) == IF c.val = NotFat THEN inMbr(c, Win(c)) ELSE c
    IN  rest(CheckFs(m, 0))

CeilDiv(a, b) == (a + b - 1) \div b

\* The volume whose boot sector b lies at bsect: a FAT volume, its kind told by
\* the number of its clusters.
FatVolume(m, b, bsect) ==
    LET fasize == b.fatsz * b.nfats
        sysect == b.nrsv + fasize + b.nroot \div EntriesPerSector
        nclst == (b.tsect - sysect) \div b.csize
        type == CASE nclst <= MaxFat12 -> "FAT12"
                  [] nclst <= MaxFat16 -> "FAT16"
                  [] nclst <= MaxFat32 -> "FAT32"
                  [] OTHER -> "none"
        ents == nclst + 2
        needed == CASE type = "FAT32" -> ents * 4
                    [] type = "FAT16" -> ents * 2
                    [] OTHER -> ((ents * 3) \div 2) + (ents % 2)
    IN  IF /\ b.bps = SS /\ b.nfats \in {1, 2}
           /\ b.csize \in {1, 2, 4, 8, 16, 32, 64, 128}
           /\ b.nroot % EntriesPerSector = 0 /\ b.nrsv # 0
           /\ b.tsect >= sysect /\ nclst # 0 /\ type # "none"
           /\ IF type = "FAT32" THEN b.ver = 0 /\ b.nroot = 0 ELSE b.nroot # 0
           /\ b.fatsz >= CeilDiv(needed, SS)
        THEN Return([m EXCEPT !.fs = [@ EXCEPT
                         !.fs_type = type, !.csize = b.csize, !.n_fatent = ents,
                         !.n_rootdir = b.nroot, !.fatbase = bsect + b.nrsv,
                         !.database = bsect + sysect,
                         !.dirbase = IF type = "FAT32" THEN b.rootclus
                                     ELSE bsect + b.nrsv + fasize]], "OK")
        ELSE Return(m, "NO_FILESYSTEM")

\* The allocation bitmap of an exFAT volume: its entry, from entry i of sector
\* so of the first cluster of the root directory on, ...
RECURSIVE FindBitmap(_, _, _)
FindBitmap(m, so, i) ==
    LET at(r, e) == IF e.t = "bitmap" THEN Value(r, e.clus)
                    ELSE FindBitmap(r, IF i = 0 THEN so + 1 ELSE so, (i + 1) % EntriesPerSector)
        rest(r) == IF Ok(r) THEN at(r, Win(r)[i]) ELSE r
    IN  IF i # 0 THEN at(m, Win(m)[i])
        ELSE IF so >= m.fs.csize THEN Return(m, "NO_FILESYSTEM")
        ELSE rest(MoveWindow(m, Clst2Sect(m.fs, m.fs.dirbase) + so))

\* ... and its clusters, which must follow each other.
RECURSIVE BitmapInOneRun(_, _)
BitmapInOneRun(m, bcl) ==
    LET at(r, cv) == CASE cv = EndOfChain -> r
                       [] cv = bcl + 1 -> BitmapInOneRun(r, bcl + 1)
                       [] OTHER -> Return(r, "NO_FILESYSTEM")
        rest(r) == IF Ok(r) THEN at(r, Win(r)[bcl % (SS \div 4)]) ELSE r
    IN  rest(MoveWindow(m, m.fs.fatbase + bcl \div (SS \div 4)))

\* An exFAT volume.
ExfatVolume(m, b, bsect) ==
    LET v == [m EXCEPT !.fs = [@ EXCEPT
                  !.csize = b.csize, !.n_fatent = b.nclus + 2,
                  !.fatbase = bsect + b.fatofs, !.database = bsect + b.dataofs,
                  !.dirbase = b.rootclus]]
        mounted(r) == IF Ok(r) THEN [r EXCEPT !.fs.fs_type = "EXFAT"] ELSE r
        bitmap(e) == IF ~Ok(e) THEN e
                     ELSE IF e.val < 2 \/ e.val >= e.fs.n_fatent
                          THEN Return(e, "NO_FILESYSTEM")
                     ELSE mounted(BitmapInOneRun(e, e.val))
    IN  IF /\ b.bps = SS /\ b.nfats = 1 /\ b.ver = 0
           /\ b.tsect >= b.dataofs + b.nclus * b.csize
        THEN bitmap(FindBitmap(v, 0, 0)) ELSE Return(m, "NO_FILESYSTEM")

\* mount_volume
MountVolume(m) ==
    LET mounted(r) == IF Ok(r) THEN [r EXCEPT !.fd.current = FALSE] ELSE r
        volume(f) == IF f.val = ReadFailed THEN Return(f, "DISK_ERR")
                     ELSE IF f.val >= NotFat THEN Return(f, "NO_FILESYSTEM")
                     ELSE mounted(IF f.val = VbrExfat
                                  THEN ExfatVolume(f, Win(f), f.fs.winsect)
                                  ELSE FatVolume(f, Win(f), f.fs.winsect))
        find(d) == IF d.drv = "ok" THEN volume(FindVolume(d)) ELSE Return(d, "NOT_READY")
    IN  IF m.fs.fs_type # "none" /\ m.drv = "ok" THEN Return(m, "OK")
        ELSE find(DiskInitialize([m EXCEPT !.fs.fs_type = "none"]))

\* f_mount(fs, "", 1)
FMount(m) == MountVolume([m EXCEPT !.fs.fs_type = "none"])

-----------------------------------------------------------------------------
(* Files.                                                                  *)

\* f_open: the file object once the file is found.  Mutant: an error of the
\* last time stays on it.
OpenedKeepsErr(m) ==
    LET ex == m.fs.fs_type = "EXFAT"
    IN  [m.fd EXCEPT !.fs = TRUE, !.current = TRUE, !.fptr = 0, !.sect = 0,
                     !.sclust = IF ex THEN m.dirbuf.sclust ELSE Entry(m).clus,
                     !.objsize = IF ex THEN m.dirbuf.objsize ELSE Entry(m).size,
                     !.stat = IF ex THEN m.dirbuf.stat ELSE @]
Opened(m) == [OpenedKeepsErr(m) EXCEPT !.err = "OK"]

\* f_open(fp, "BOOT.ELF", FA_READ)
FOpen(m) ==
    LET orNull(r) == IF Ok(r) THEN r ELSE [r EXCEPT !.fd.fs = FALSE]
        open(f) == IF ~Ok(f) THEN f
                   ELSE IF f.dp.attr = "dir" THEN Return(f, "NO_FILE")
                   ELSE [f EXCEPT !.fd = Opened(f)]
        find(v) == IF Ok(v) THEN open(FollowPath(v)) ELSE v
    IN  orNull(find(MountVolume(m)))

\* validate, and the error an earlier call has left on the file.
Validate(m) ==
    IF m.fd.fs /\ m.fs.fs_type # "none" /\ m.fd.current /\ m.drv = "ok"
    THEN Return(m, "OK") ELSE Return(m, "INVALID_OBJECT")
Usable(m) ==
    LET usable(v) == IF Ok(v) THEN Return(m, m.fd.err) ELSE v IN usable(Validate(m))

Abort(m, res) == Return([m EXCEPT !.fd.err = res], res)

ClusterSize(m) == m.fs.csize * SS

\* Mutant: the cluster read from the FAT is not kept.
NextClusterForgotten(m) ==
    LET next(r) ==
            IF r.val < 2 THEN Abort(r, "INT_ERR")
            ELSE IF r.val = DiskErr THEN Abort(r, "DISK_ERR")
            ELSE Return(IF m.fd.fptr = 0 THEN [r EXCEPT !.fd.clust = r.val] ELSE r, "OK")
    IN  IF m.fd.fptr % ClusterSize(m) # 0 THEN Return(m, "OK")
        ELSE next(IF m.fd.fptr = 0 THEN Value(m, m.fd.sclust)
                  ELSE GetFat(m, m.fd, m.fd.clust))

\* f_read at a sector: the cluster of the byte at fptr, which is a new one when
\* fptr is at the start of it.
NextCluster(m) ==
    LET next(r) ==
            IF r.val < 2 THEN Abort(r, "INT_ERR")
            ELSE IF r.val = DiskErr THEN Abort(r, "DISK_ERR")
            ELSE Return([r EXCEPT !.fd.clust = r.val], "OK")
    IN  IF m.fd.fptr % ClusterSize(m) # 0 THEN Return(m, "OK")
        ELSE next(IF m.fd.fptr = 0 THEN Value(m, m.fd.sclust)
                  ELSE GetFat(m, m.fd, m.fd.clust))

\* n cells at fptr have been read.
Got(m, cells) ==
    [m EXCEPT !.fd.fptr = @ + Len(cells), !.br = @ + Len(cells), !.out = @ \o cells]

Sectors(m, sect, n) ==
    [k \in 1 .. n * SS |-> Disk[m.io.card][sect + (k - 1) \div SS][(k - 1) % SS]]

\* f_read, the rest of a sector through the window.
ReadWindow(m, n) ==
    LET ofs == m.fd.fptr % SS
        rcnt == IF n < SS - ofs THEN n ELSE SS - ofs
        got(r) == IF Ok(r) THEN Got(r, [k \in 1 .. rcnt |-> Win(r)[ofs + k - 1]])
                  ELSE Abort(r, "DISK_ERR")
    IN  got(MoveWindow(m, m.fd.sect))

\* f_read, from the start of a sector: whole sectors go straight to the buffer.
ReadSectors(m, n, buf) ==
    LET csect == (m.fd.fptr \div SS) % m.fs.csize
        cc == IF csect + n \div SS > m.fs.csize THEN m.fs.csize - csect ELSE n \div SS
        got(d) == IF Ok(d) THEN Got(d, Sectors(d, d.io.from, cc)) ELSE Abort(d, "DISK_ERR")
        read(c, sect) == IF cc = 0 THEN ReadWindow([c EXCEPT !.fd.sect = sect], n)
                         ELSE got(DiskRead(c, sect, cc, buf))
        rest(c, first) == IF ~Ok(c) THEN c
                          ELSE IF first = 0 THEN Abort(c, "INT_ERR")
                          ELSE read(c, first + csect)
        next(c) == rest(c, Clst2Sect(c.fs, c.fd.clust))
    IN  next(NextCluster(m))

RECURSIVE FReadLoop(_, _, _)
FReadLoop(m, n, buf) ==
    LET rest(r, rcnt) == IF Ok(r) THEN FReadLoop(r, n - rcnt, buf + rcnt) ELSE r
        loop(r) == rest(r, r.br - m.br)
    IN  IF n = 0 THEN m
        ELSE loop(IF m.fd.fptr % SS = 0 THEN ReadSectors(m, n, buf) ELSE ReadWindow(m, n))

\* f_read(fp, buf, n, &br)
FRead(m, n, buf) ==
    LET remain == m.fd.objsize - m.fd.fptr
        read(u) == IF Ok(u) THEN FReadLoop(u, IF n < remain THEN n ELSE remain, buf) ELSE u
    IN  read(Usable([m EXCEPT !.br = 0, !.out = <<>>]))

\* f_close
FClose(m) ==
    LET close(v) == IF Ok(v) THEN [v EXCEPT !.fd.fs = FALSE] ELSE v IN close(Validate(m))

\* f_lseek: along the chain, ofs cells from the start of cluster fd.clust.
RECURSIVE SeekLoop(_, _)
SeekLoop(m, ofs) ==
    LET on(r) == [r EXCEPT !.fd.fptr = @ + ClusterSize(m)]
        next(r) == IF r.val = DiskErr THEN Abort(on(r), "DISK_ERR")
                   ELSE IF r.val <= 1 \/ r.val >= m.fs.n_fatent THEN Abort(on(r), "INT_ERR")
                   ELSE SeekLoop([on(r) EXCEPT !.fd.clust = r.val], ofs - ClusterSize(m))
    IN  IF ofs <= ClusterSize(m) THEN Value([m EXCEPT !.fd.fptr = @ + ofs], ofs)
        ELSE next(GetFat(m, m.fd, m.fd.clust))

\* f_lseek: from the present cluster, or from the first one when the target
\* lies before it.
SeekTo(m, ofs) ==
    LET bcs == ClusterSize(m)
        here == m.fd.fptr > 0 /\ (ofs - 1) \div bcs >= (m.fd.fptr - 1) \div bcs
        start == IF here THEN ((m.fd.fptr - 1) \div bcs) * bcs ELSE 0
        sector(r, first) == IF first = 0 THEN Abort(r, "INT_ERR")
                            ELSE [r EXCEPT !.fd.sect = first + r.val \div SS]
        sought(r) == IF ~Ok(r) \/ r.val % SS = 0 THEN r
                     ELSE sector(r, Clst2Sect(r.fs, r.fd.clust))
    IN  sought(IF ofs = 0 THEN Value([m EXCEPT !.fd.fptr = 0], 0)
               ELSE IF ~here /\ m.fd.sclust = 0
                    THEN Value([m EXCEPT !.fd.fptr = 0, !.fd.clust = 0], 0)
               ELSE SeekLoop([m EXCEPT !.fd.fptr = start,
                                       !.fd.clust = IF here THEN @ ELSE m.fd.sclust],
                             ofs - start))

\* f_lseek(fp, ofs)
FLseek(m, ofs) ==
    LET seek(u) == IF Ok(u) THEN SeekTo(u, IF ofs > m.fd.objsize THEN m.fd.objsize ELSE ofs)
                   ELSE u
    IN  seek(Usable(m))
=============================================================================
