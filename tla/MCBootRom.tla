----------------------------- MODULE MCBootRom ------------------------------
(***************************************************************************)
(* Cards for BootRom: volumes laid out as mkfs and a copy of BOOT.ELF to   *)
(* them leave them, and some that are not as they should be.               *)
(***************************************************************************)
EXTENDS BootRom, TLC

\* The function f as a table: TLC computes it once, not at each use.
Table(f) == f @@ <<>>

Blank == [x \in 0 .. SS - 1 |-> 0]

-----------------------------------------------------------------------------
(* Files.                                                                  *)

Ph(type, offset, vaddr, filesz, memsz) ==
    <<type, 0, offset, vaddr, vaddr, filesz, memsz>>

\* One header that is not loaded, a segment that begins in the memory of the
\* boot ROM (or above it) and has zeroes at its end, and one of zeroes only.
Headers(base, offset) ==
    Ph(4, 0, 0, 3, 3) \o Ph(PtLoad, offset, base, 23, 25) \o Ph(PtLoad, 0, base - 2, 0, 2)
Elf(ident, base, offset) ==
    <<ident, base, 6, 0, 7, 3>> \o Headers(base, offset)

\* Cell n of the file with this tag.
Cell(v, n) ==
    LET head == Elf(v.ident, v.base, v.offset)
    IN  IF n < Len(head) THEN head[n + 1] ELSE 1000 * v.tag + n

FileSize == 57

\* The image of it.
ImageOf(v) ==
    [entry |-> v.base,
     mem |-> [a \in v.base - 2 .. v.base + 24 |->
                 IF a - v.base \in 0 .. 22 THEN Cell(v, v.offset + a - v.base) ELSE 0]]

-----------------------------------------------------------------------------
(* Volumes.  v has the fields: tag, ident, base, offset of the file, the   *)
(* size in its entry, and type, nclst, csize, nfats, nroot, chain, cut     *)
(* (links of it on the FAT), root (chain of the root directory, if any)    *)
(* and entries of the volume.                                              *)

ChainNext(chain, cut, c) ==
    LET p == CHOOSE p \in DOMAIN chain : chain[p] = c
    IN  IF p < Len(chain) /\ p <= cut THEN chain[p + 1] ELSE EndOfChain

InChain(chain, c) == \E p \in DOMAIN chain : chain[p] = c

FatOf(v) ==
    [c \in 0 .. v.nclst + 1 |->
        IF InChain(v.chain, c) THEN ChainNext(v.chain, v.cut, c)
        ELSE IF InChain(v.root, c) THEN ChainNext(v.root, 9, c)
        ELSE IF c < 2 \/ (v.type = "EXFAT" /\ c = 2) THEN EndOfChain
        ELSE 0]

\* Three bytes hold two entries of twelve bits.
Entry12(fat, c) == IF c \notin DOMAIN fat THEN 0
                   ELSE IF fat[c] = EndOfChain THEN 4095 ELSE fat[c]
Byte12(fat, k) ==
    LET a == Entry12(fat, 2 * (k \div 3))
        b == Entry12(fat, 2 * (k \div 3) + 1)
    IN  CASE k % 3 = 0 -> a % 256
          [] k % 3 = 1 -> (a \div 256) + 16 * (b % 16)
          [] k % 3 = 2 -> b \div 16

Width(v) == CASE v.type = "FAT12" -> SS [] v.type = "FAT16" -> SS \div 2 [] OTHER -> SS \div 4
FatSector(v, k) ==
    [x \in 0 .. Width(v) - 1 |->
        LET n == k * Width(v) + x
        IN  IF v.type = "FAT12" THEN Byte12(FatOf(v), n)
            ELSE IF n \in DOMAIN FatOf(v) THEN FatOf(v)[n] ELSE 0]

FatSize(v) ==
    LET ents == v.nclst + 2
    IN  CASE v.type = "FAT12" -> CeilDiv(CeilDiv(ents * 3, 2), SS)
          [] OTHER -> CeilDiv(ents, Width(v))

DirSector(entries, k) ==
    [e \in 0 .. EntriesPerSector - 1 |->
        IF k * EntriesPerSector + e < Len(entries)
        THEN entries[k * EntriesPerSector + e + 1] ELSE [t |-> "end"]]

\* Sector s of cluster c.
DataSector(v, c, s) ==
    LET place(chain) == (CHOOSE p \in DOMAIN chain : chain[p] = c) - 1
    IN  IF InChain(v.chain, c)
        THEN [x \in 0 .. SS - 1 |-> Cell(v, (place(v.chain) * v.csize + s) * SS + x)]
        ELSE IF InChain(v.root, c) THEN DirSector(v.entries, place(v.root) * v.csize + s)
        ELSE Blank

Reserved(v) == 1 + FatSize(v) * v.nfats + v.nroot \div EntriesPerSector
VolumeSize(v) == Reserved(v) + v.nclst * v.csize

BootSector(v) ==
    [sig |-> TRUE, boot |-> IF v.type = "EXFAT" THEN "exfat" ELSE "fat",
     protective |-> FALSE, bps |-> SS, ver |-> 0, nrsv |-> 1, fatofs |-> 1,
     nfats |-> v.nfats, fatsz |-> FatSize(v), csize |-> v.csize, nroot |-> v.nroot,
     tsect |-> VolumeSize(v), nclus |-> v.nclst, dataofs |-> Reserved(v),
     rootclus |-> IF v.root = <<>> THEN 0 ELSE v.root[1]]

Sector(v, k) == Table(
    LET fats == FatSize(v) * v.nfats
        data == k - Reserved(v)
    IN  CASE k = 0 -> BootSector(v)
          [] k \in 1 .. fats -> FatSector(v, (k - 1) % FatSize(v))
          [] k > fats /\ data < 0 -> DirSector(v.entries, k - 1 - fats)
          [] OTHER -> DataSector(v, 2 + data \div v.csize, data % v.csize))

\* Only a volume, or one or more of them behind the sectors of "head".
Whole(v) == [k \in 0 .. VolumeSize(v) - 1 |-> Sector(v, k)]
Behind(head, v) ==
    [k \in 0 .. Len(head) + VolumeSize(v) - 1 |->
        IF k < Len(head) THEN head[k + 1] ELSE Sector(v, k - Len(head))]

Mbr(protective, pt) ==
    [sig |-> TRUE, boot |-> "none", protective |-> protective, pt |-> pt]
Unformatted == [sig |-> FALSE, boot |-> "none"]

-----------------------------------------------------------------------------
(* The cards.                                                              *)

Sfn(name, v) == [t |-> "sfn", name |-> name, attr |-> "", clus |-> v.chain[1], size |-> v.size]
Lfn(ord, last, part, sum) ==
    [t |-> "lfn", ord |-> ord, last |-> last, part |-> part, sum |-> sum]
Deleted == [t |-> "deleted"]
Label == [t |-> "vol"]

Fat12 == [tag |-> 1, ident |-> ElfIdent, base |-> 2, offset |-> 34, size |-> FileSize,
          type |-> "FAT12", nclst |-> 8, csize |-> 1, nfats |-> 1, nroot |-> 8,
          chain |-> <<4, 5, 2, 3, 9, 7, 8, 6>>, cut |-> 9, root |-> <<>>, entries |-> <<>>]

\* A name of another file first, an orphan of it, then the entry.
Fat12Entries(v) ==
    <<Label, Lfn(2, TRUE, "other", "OTHER"), Lfn(1, FALSE, "name", "OTHER"),
      Sfn("OTHER", v), Lfn(1, TRUE, Name, "OTHER"), Deleted, Sfn(Name, v)>>

\* Under its long name, with another short one.
Fat16Entries(v) == <<Deleted, Lfn(1, TRUE, Name, "BOOT~1"), Sfn("BOOT~1", v)>>

Fat16 == [Fat12 EXCEPT !.tag = 2, !.base = 10, !.offset = 34, !.type = "FAT16",
                       !.nclst = 9, !.csize = 2, !.nfats = 2, !.chain = <<3, 4, 8, 6>>]

\* In smaller clusters; the first four, with the headers, lie where those of the
\* other size would.
Fat16Second == [Fat16 EXCEPT !.tag = 6, !.csize = 1, !.chain = <<2, 3, 4, 5, 9, 7, 8, 6>>]

\* Eight clusters behind a volume of four larger ones.
Fat12Second == [Fat12 EXCEPT !.tag = 8, !.chain = <<2, 9, 3, 4, 5, 6, 7, 8>>]
NotElf == [Fat12 EXCEPT !.tag = 7, !.ident = 35, !.nclst = 4, !.csize = 2,
                        !.chain = <<3, 2, 5, 4>>]

\* The root directory in two clusters, the entry in the second.
Fat32Entries(v) == <<Label, Deleted, Deleted, Deleted, Lfn(1, TRUE, "x", "x"), Sfn(Name, v)>>
Fat32 == [Fat12 EXCEPT !.tag = 3, !.type = "FAT32", !.nclst = 10, !.nroot = 0,
                       !.chain = <<3, 4, 5, 6, 9, 10, 11, 8>>, !.root = <<2, 7>>]

ExFile(v, name, stat) ==
    <<[t |-> "filedir", attr |-> "", numsec |-> 2, sum |-> TRUE],
      [t |-> "stream", hash |-> name, numname |-> 1, clus |-> v.chain[1], size |-> v.size,
       stat |-> stat],
      [t |-> "name", part |-> name]>>
ExBitmap == [t |-> "bitmap", clus |-> 2]

\* One run of clusters without a chain on the FAT.
ExfatRun == [Fat12 EXCEPT !.tag = 4, !.type = "EXFAT", !.nclst = 10, !.csize = 1, !.nroot = 0,
                          !.chain = <<3, 4, 5, 6, 7, 8, 9, 10>>, !.cut = 0, !.root = <<11>>]
ExfatRunEntries(v) == <<ExBitmap>> \o ExFile(v, Name, 2)

\* Fragmented; its entries begin in one cluster of the root directory and end in
\* the next.
ExfatChain == [Fat12 EXCEPT !.tag = 5, !.base = 10, !.type = "EXFAT", !.nclst = 8, !.csize = 2,
                            !.nroot = 0, !.chain = <<9, 4, 5, 7>>, !.root = <<3, 6>>]
ExfatChainEntries(v) ==
    <<Label, ExBitmap, Deleted>> \o ExFile(v, "OTHER", 0) \o ExFile(v, Name, 0)

With(v, entries) == [v EXCEPT !.entries = entries]

\* The volume of a card, on a card with two partitions the first one.

Volume ==
    [fat12 |-> With(Fat12, Fat12Entries(Fat12)),
     fat16 |-> With(Fat16, Fat16Entries(Fat16)),
     fat32 |-> With(Fat32, Fat32Entries(Fat32)),
     exfat_run |-> With(ExfatRun, ExfatRunEntries(ExfatRun)),
     exfat_chain |-> With(ExfatChain, ExfatChainEntries(ExfatChain)),
     not_elf |-> With(NotElf, <<Sfn(Name, NotElf)>>),
     no_file |-> With(Fat12, [k \in 1 .. 8 |-> Sfn("OTHER", Fat12)]),
     directory |-> With(Fat12, <<[Sfn(Name, Fat12) EXCEPT !.attr = "dir"]>>),
     broken_chain |-> With([Fat12 EXCEPT !.cut = 4], <<Sfn(Name, Fat12)>>),
     truncated |-> With(Fat12, <<Sfn(Name, [Fat12 EXCEPT !.size = 50])>>),
     misaligned |-> With([Fat12 EXCEPT !.offset = 33], <<Sfn(Name, Fat12)>>),
     bad_sum |-> With(ExfatRun, [ExfatRunEntries(ExfatRun) EXCEPT ![2].sum = FALSE])]

\* The second partition, a good volume; its clusters have another size than those
\* of the first.
Second == [fat16 |-> With(Fat16Second, <<Sfn(Name, Fat16Second)>>),
           not_elf |-> With(Fat12Second, <<Sfn(Name, Fat12Second)>>)]

OnCard(c) == (IF c \in DOMAIN Volume THEN {Volume[c]} ELSE {})
                \cup (IF c \in DOMAIN Second THEN {Second[c]} ELSE {})

TwoPartitions(v, w) ==
    LET second == 2 + VolumeSize(v)
        first == Behind(<<Mbr(FALSE, <<2, second, 0, 0>>), Unformatted>>, v)
    IN  [k \in 0 .. second + VolumeSize(w) - 1 |->
            IF k < second THEN first[k] ELSE Sector(w, k - second)]

CardTable ==
    LET volume(c) == Whole(Volume[c])
    IN  Table([c \in DOMAIN Volume \cup {"blank"} |-> Table(
            CASE c = "blank" -> [k \in 0 .. 1 |-> Unformatted]
              [] c \in DOMAIN Second -> TwoPartitions(Volume[c], Second[c])
              [] c = "fat32" ->
                    Behind(<<Mbr(TRUE, <<1, 0, 0, 0>>),
                             [valid |-> TRUE, ptnum |-> 5, ptofs |-> 2],
                             [entries |-> [e \in 0 .. 3 |-> [basic |-> e = 2, lba |-> 4]]],
                             [entries |-> [e \in 0 .. 3 |-> [basic |-> e = 0, lba |-> 5]]],
                             Unformatted>>, Volume.fat32)
              [] c = "exfat_chain" ->
                    Behind(<<Mbr(FALSE, <<1, 0, 2, 0>>), Unformatted>>, Volume.exfat_chain)
              [] OTHER -> volume(c))])
\* The table under a name of its own, which TLC evaluates once.
MCDisk == LET disk == CardTable IN disk

MCVerdict ==
    [c \in DOMAIN MCDisk |->
        CASE c = "blank" -> "NO_FILESYSTEM"
          [] c = "not_elf" -> "NOT_ELF"
          [] c \in {"no_file", "directory"} -> "NO_FILE"
          [] c \in {"broken_chain", "bad_sum"} -> "INT_ERR"
          [] c = "truncated" -> "EOF"
          [] c = "misaligned" -> "DISK_ERR"
          [] OTHER -> "boots"]

\* A partition that cannot be read is passed over.
MCOtherVerdicts ==
    [c \in DOMAIN MCDisk |->
        CASE c = "not_elf" -> {"NO_FILESYSTEM", "boots"}
          [] c \in {"fat16", "fat32", "exfat_chain"} -> {"NO_FILESYSTEM"}
          [] OTHER -> {}]

MCChains == [c \in DOMAIN MCDisk |-> {v.chain : v \in OnCard(c)}]

MCImage == [c \in DOMAIN MCDisk |-> {ImageOf(v) : v \in OnCard(c)}]
=============================================================================
