-------------------------------- MODULE Boot --------------------------------
(***************************************************************************)
(* What the kernel does with its disks when it starts: ide_init (module    *)
(* Partitions), then filesys_init of fs/fs.c, which formats every          *)
(* partition of the file disks that has no super block and mounts sdb1.    *)
(* partition_format makes five writes, of as many sectors as the uint8_t   *)
(* parameter of ide_write lets through, each of which ide_write brings to  *)
(* the disk as a whole (module Ide).  The power can fail between any two   *)
(* of them, and the kernel starts again with what the disks then hold.     *)
(* Files goes on from the mounted partition.                               *)
(***************************************************************************)
EXTENDS Partitions, FiniteSetsExt

CONSTANTS
  Fresh,           \* the contents of the file disks before the first start
  ByteBits,        \* bits of a byte: 8
  SectorBytes,     \* SECTOR_SIZE: 512
  MaxFiles,        \* MAX_FILES_PER_PART: 4096
  InodeBytes,      \* sizeof(struct inode): 76
  UInt8,           \* the values of a uint8_t: 256
  MaxFailures      \* bound: power failures

ASSUME BootAssumption ==
  /\ {ByteBits, SectorBytes, MaxFiles, InodeBytes} \subseteq Nat \ {0}
  /\ UInt8 \in Nat \ {0, 1}
  /\ MaxFailures \in Nat
  /\ \A image \in Fresh :
       /\ DOMAIN image \subseteq Channels /\ IsFiniteSet(DOMAIN image)
       /\ DOMAIN image = 0 .. Cardinality(DOMAIN image) - 1
       /\ \A c \in DOMAIN image : image[c] = [lba \in LBAs |-> image[c][lba]]

VARIABLES
  part_idx,            \* filesys_init's index of the partitions of a disk
  write,               \* the writes partition_format has made
  cur_part, maps,      \* the mounted partition and its bitmaps in memory
  failures,
  cut, finished        \* history: partitions whose format was cut short, or completed

fsvars == <<part_idx, write, cur_part, maps>>
past   == <<failures, cut, finished>>
vars   == <<disk, channel_cnt, phase, channel_no, scan, fsvars, past>>

NoPart == [disk |-> 0, no |-> 0, sec_cnt |-> 0, start_lba |-> 0]
NoMaps == [block_bitmap |-> {}, block_len |-> 0, inode_bitmap |-> {}, inode_len |-> 0]

FileSystemCleared ==
  part_idx = 0 /\ write = 0 /\ cur_part = NoPart /\ maps = NoMaps

ide == (ide_init \/ partition_scan) /\ UNCHANGED <<fsvars, past>>

-----------------------------------------------------------------------------

BitsPerSector == ByteBits * SectorBytes
DIV_ROUND_UP(x, step) == (x + step - 1) \div step

inode_bitmap_sects == DIV_ROUND_UP(MaxFiles, BitsPerSector)
inode_table_sects  == DIV_ROUND_UP(InodeBytes * MaxFiles, SectorBytes)
used_sects_NoSuper == 1 + inode_bitmap_sects + inode_table_sects  \* mutant: the super block is not counted
used_sects         == 1 + 1 + inode_bitmap_sects + inode_table_sects
free_sects(part)   == part.sec_cnt - used_sects

block_bitmap_bit_len(part) ==
  free_sects(part) - DIV_ROUND_UP(free_sects(part), BitsPerSector)
block_bitmap_sects(part) == DIV_ROUND_UP(block_bitmap_bit_len(part), BitsPerSector)

(* struct super_block, as partition_format fills it in. *)
super_block_Overlap(part) ==  \* mutant: the inode bitmap starts in the block bitmap
  LET bb == part.start_lba + 2
      ib == bb + 1
      it == ib + inode_bitmap_sects
  IN  [sec_cnt |-> part.sec_cnt, part_lba_base |-> part.start_lba,
       block_bitmap_lba |-> bb, block_bitmap_sects |-> block_bitmap_sects(part),
       inode_bitmap_lba |-> ib, inode_bitmap_sects |-> inode_bitmap_sects,
       inode_table_lba |-> it, inode_table_sects |-> inode_table_sects,
       data_start_lba |-> it + inode_table_sects]
super_block(part) ==
  LET bb == part.start_lba + 2
      ib == bb + block_bitmap_sects(part)
      it == ib + inode_bitmap_sects
  IN  [sec_cnt |-> part.sec_cnt, part_lba_base |-> part.start_lba,
       block_bitmap_lba |-> bb, block_bitmap_sects |-> block_bitmap_sects(part),
       inode_bitmap_lba |-> ib, inode_bitmap_sects |-> inode_bitmap_sects,
       inode_table_lba |-> it, inode_table_sects |-> inode_table_sects,
       data_start_lba |-> it + inode_table_sects]

(* The block bitmap as it is written: block 0 is taken, the bits from the  *)
(* last byte to the end of its sector are set, and those of the byte up to *)
(* and including last_bit are cleared again.                               *)
block_bitmap(part) ==
  LET len       == block_bitmap_bit_len(part)
      last_byte == len \div ByteBits
      last_bit  == len % ByteBits
      last_size == SectorBytes - (last_byte % SectorBytes)
      padding   == (last_byte * ByteBits) .. ((last_byte + last_size) * ByteBits - 1)
      valid     == (last_byte * ByteBits) .. (last_byte * ByteBits + last_bit)
  IN  (({0} \cup padding) \ valid) \cap (0 .. block_bitmap_sects(part) * BitsPerSector - 1)

Super(part) == [kind |-> "super", sb |-> super_block(part)]
Bits(set)   == [kind |-> "bits", set |-> set]
Inodes(lba) == [kind |-> "inodes", root |-> lba]
RootDir     == [kind |-> "root"]

(* The five writes: first sector, number of sectors, what they hold.       *)
Writes(part) ==
  LET sb == super_block(part) IN
  << <<part.start_lba + 1, 1, Super(part)>>,
     <<sb.block_bitmap_lba, sb.block_bitmap_sects, Bits(block_bitmap(part))>>,
     <<sb.inode_bitmap_lba, sb.inode_bitmap_sects, Bits({0})>>,
     <<sb.inode_table_lba, sb.inode_table_sects, Inodes(sb.data_start_lba)>>,
     <<sb.data_start_lba, 1, RootDir>> >>

(* ide_read and ide_write take the number of sectors as a uint8_t; what is *)
(* left of it must not be 0.                                               *)
SecCnt(n)  == n % UInt8
Reached(w) == w[1] .. w[1] + SecCnt(w[2]) - 1

Holds(c, w) == \A lba \in Reached(w) : disk[c][lba] = w[3]
ide_write(c, w) ==
  /\ SecCnt(w[2]) # 0
  /\ disk' = [disk EXCEPT ![c] = [lba \in LBAs |->
                IF lba \in Reached(w) THEN w[3] ELSE disk[c][lba]]]

-----------------------------------------------------------------------------

(* filesys_init begins when ide_init has done every channel. *)
filesys_init ==
  /\ phase = "probe" /\ channel_no = channel_cnt
  /\ phase' = "search" /\ channel_no' = 0
  /\ UNCHANGED <<disk, channel_cnt, scan, fsvars, past>>

Slots == PrimMax + LogicMax
Part(idx) ==
  LET p == prim_parts[channel_no]  l == logic_parts[channel_no] IN
  IF idx < PrimMax THEN IF idx + 1 \in DOMAIN p THEN p[idx + 1] ELSE NoPart
                   ELSE IF idx - PrimMax + 1 \in DOMAIN l THEN l[idx - PrimMax + 1] ELSE NoPart
Here     == Part(part_idx)
HasMagic == disk[channel_no][Here.start_lba + 1].kind = "super"
Search   == phase = "search" /\ channel_no < channel_cnt

search_next_Continue ==  \* mutant: no part_idx++ for a partition with a file system
  /\ Search /\ part_idx < Slots
  /\ Here.sec_cnt # 0 => HasMagic
  /\ part_idx' = IF Here.sec_cnt = 0 THEN part_idx + 1 ELSE part_idx
  /\ UNCHANGED <<disk, channel_cnt, phase, channel_no, scan, write, cur_part, maps, past>>
search_next ==
  /\ Search /\ part_idx < Slots
  /\ Here.sec_cnt # 0 => HasMagic
  /\ part_idx' = part_idx + 1
  /\ UNCHANGED <<disk, channel_cnt, phase, channel_no, scan, write, cur_part, maps, past>>

(* part_idx starts at 0 for the first channel only. *)
search_channel ==
  /\ Search /\ part_idx = Slots
  /\ channel_no' = channel_no + 1
  /\ UNCHANGED <<disk, channel_cnt, phase, scan, fsvars, past>>

partition_format_Always ==  \* mutant: the magic number is not looked at
  /\ Search /\ part_idx < Slots
  /\ Here.sec_cnt # 0
  /\ phase' = "format" /\ write' = 0
  /\ UNCHANGED <<disk, channel_cnt, channel_no, scan, part_idx, cur_part, maps, past>>
partition_format ==
  /\ Search /\ part_idx < Slots
  /\ Here.sec_cnt # 0 /\ ~HasMagic
  /\ phase' = "format" /\ write' = 0
  /\ UNCHANGED <<disk, channel_cnt, channel_no, scan, part_idx, cur_part, maps, past>>

format_write ==
  /\ phase = "format"
  /\ ide_write(channel_no, Writes(Here)[write + 1])
  /\ IF write + 1 < 5
     THEN write' = write + 1 /\ UNCHANGED <<phase, part_idx, finished>>
     ELSE /\ phase' = "search" /\ part_idx' = part_idx + 1 /\ write' = 0
          /\ finished' = finished \cup {Here}
  /\ UNCHANGED <<channel_cnt, channel_no, scan, cur_part, maps, failures, cut>>

(* ASSERT(sec_cnt > 0) in ide_write. *)
format_refused ==
  /\ phase = "format" /\ SecCnt(Writes(Here)[write + 1][2]) = 0
  /\ phase' = "fspanic" /\ cut' = cut \cup {Here}
  /\ UNCHANGED <<disk, channel_cnt, channel_no, scan, fsvars, failures, finished>>

(* mount_partition for the element of partition_list named sdb1; what is   *)
(* no bitmap on the disk is read as one without a bit that is set, and     *)
(* what is not read is zero.                                               *)
Sdb1 == {i \in DOMAIN partition_list : partition_list[i].disk = 0 /\ partition_list[i].no = 1}
SuperOf(part) == disk[part.disk][part.start_lba + 1].sb
Refused(sb)   == 0 \in {SecCnt(sb.block_bitmap_sects), SecCnt(sb.inode_bitmap_sects)}
BitsAt(c, lba, n) ==
  (IF disk[c][lba].kind = "bits" THEN disk[c][lba].set ELSE {})
    \cap (0 .. SecCnt(n) * BitsPerSector - 1)
mount_partition ==
  /\ phase = "search" /\ channel_no = channel_cnt
  /\ \E i \in Sdb1 :
       LET part == partition_list[i]
           sb   == SuperOf(part)
       IN  /\ ~Refused(sb)
           /\ cur_part' = part
           /\ maps' = [block_bitmap |-> BitsAt(part.disk, sb.block_bitmap_lba, sb.block_bitmap_sects),
                       block_len    |-> sb.block_bitmap_sects,
                       inode_bitmap |-> BitsAt(part.disk, sb.inode_bitmap_lba, sb.inode_bitmap_sects),
                       inode_len    |-> sb.block_bitmap_sects]
  /\ phase' = "up"
  /\ UNCHANGED <<disk, channel_cnt, channel_no, scan, part_idx, write, past>>

(* ASSERT(sec_cnt > 0) in ide_read; nothing reads the bitmaps any more. *)
mount_refused ==
  /\ phase = "search" /\ channel_no = channel_cnt
  /\ \E i \in Sdb1 : Refused(SuperOf(partition_list[i])) /\ cur_part' = partition_list[i]
  /\ phase' = "fspanic"
  /\ UNCHANGED <<disk, channel_cnt, channel_no, scan, part_idx, write, maps, past>>

(* Without a sdb1 list_traversal comes to its end, and open_root_dir goes  *)
(* through a NULL cur_part.  What the kernel does from there on is not     *)
(* defined, and not followed until the power fails.                        *)
open_root_dir_NULL ==
  /\ phase = "search" /\ channel_no = channel_cnt
  /\ Sdb1 = {}
  /\ phase' = "adrift"
  /\ UNCHANGED <<disk, channel_cnt, channel_no, scan, fsvars, past>>

power_failure ==
  /\ failures < MaxFailures
  /\ failures' = failures + 1
  /\ cut' = IF phase = "format" /\ write > 0 THEN cut \cup {Here} ELSE cut
  /\ phase' = "probe" /\ channel_no' = 0
  /\ frames' = <<>> /\ ext_lba_base' = 0
  /\ prim_parts' = [c \in Channels |-> <<>>] /\ logic_parts' = [c \in Channels |-> <<>>]
  /\ partition_list' = <<>>
  /\ p_no' = 0 /\ l_no' = 0 /\ buffers' = 0
  /\ part_idx' = 0 /\ write' = 0 /\ cur_part' = NoPart /\ maps' = NoMaps
  /\ UNCHANGED <<disk, channel_cnt, finished>>

(* The disks before the first start: partitioned, without a file system.   *)
(* Nothing overlaps, a partition has room for the file system's own        *)
(* sectors and a byte of block bitmap, and where a second chain is looked  *)
(* for in vain there is no table.                                          *)
Sectors(part) == part.start_lba .. part.start_lba + part.sec_cnt - 1
Roomy(part)   == part.sec_cnt > used_sects /\ block_bitmap_bit_len(part) >= ByteBits
HasSuper(part) == disk[part.disk][part.start_lba + 1].kind = "super"

Partitioned(c) ==
  /\ WellChained(Tables(c))
  /\ \A part \in Readable(c) :
       /\ Roomy(part) /\ Sectors(part) \subseteq LBAs
       /\ \A lba \in Sectors(part) : disk[c][lba].kind # "table"
       /\ \A other \in Readable(c) \ {part} : Sectors(part) \cap Sectors(other) = {}
  /\ \A e \in Disks : e < c /\ HasExtended(e) /\ HasExtended(c) =>
       Base(c) + Base(e) \in LBAs /\ disk[c][Base(c) + Base(e)].kind # "table"

Init ==
  /\ disk \in Fresh /\ channel_cnt = Cardinality(DOMAIN disk)
  /\ \A c \in Disks : Partitioned(c) /\ \A part \in Readable(c) : ~HasSuper(part)
  /\ MemoryCleared /\ FileSystemCleared
  /\ failures = 0 /\ cut = {} /\ finished = {}

Boots ==
  \/ ide \/ filesys_init
  \/ search_next \/ search_channel \/ partition_format \/ format_write \/ format_refused
  \/ mount_partition \/ mount_refused \/ open_root_dir_NULL

Next == Boots \/ power_failure

(* The kernel runs on; the power does not have to fail. *)
Spec == Init /\ [][Next]_vars /\ WF_vars(Boots)

-----------------------------------------------------------------------------

(* partition_format, filesys_init: a start writes only to partitions that  *)
(* have not been formatted before, one at a time, never to a partition     *)
(* table, another partition, or a file system that is complete.            *)
FormatStaysInside ==
  [][\A c \in DOMAIN disk :
       LET changed == {lba \in LBAs : disk'[c][lba] # disk[c][lba]} IN
       changed # {} =>
         \E part \in Readable(c) : part \notin finished \cup cut /\ changed \subseteq Sectors(part)]_vars

(* What partition_format writes is there, as far as ide_write writes it. *)
Complete(part) == \A i \in 1 .. 5 : Holds(part.disk, Writes(part)[i])

(* filesys_init, mount_partition: when the kernel is up, every partition   *)
(* found on the first channel holds what partition_format writes to it,    *)
(* the power having failed or an ASSERT in the middle of its format        *)
(* excepted; the mounted one is the first of the first file disk, and its  *)
(* bitmaps are those that were to be written: the block bitmap if its      *)
(* sectors can be counted in a uint8_t.  inode_bitmap has its length if    *)
(* both bitmaps are equally long.  What ide_write's uint8_t cuts off is    *)
(* not written, of the inode table all but 96 of 608 sectors, and nothing  *)
(* is said of it.                                                          *)
MountedAsFormatted ==
  phase = "up" =>
    /\ \A part \in Readable(0) : part \in cut \/ Complete(part)
    /\ cur_part \in Primary(0) /\ cur_part.no = 1
    /\ LET sb == super_block(cur_part) IN
       /\ maps.block_len = sb.block_bitmap_sects
       /\ sb.block_bitmap_sects = sb.inode_bitmap_sects => maps.inode_len = sb.inode_bitmap_sects
       /\ cur_part \notin cut =>
            /\ sb.block_bitmap_sects < UInt8 => maps.block_bitmap = block_bitmap(cur_part)
            /\ maps.inode_bitmap = {0}

(* A free bit of the block bitmap that partition_format makes names a      *)
(* sector of the partition behind the inode table, or the first sector     *)
(* after the partition.                                                    *)
BlocksInside ==
  \A part \in finished :
    \A bit \in (0 .. block_bitmap_sects(part) * BitsPerSector - 1) \ block_bitmap(part) :
      /\ bit # 0
      /\ super_block(part).data_start_lba + bit \in Sectors(part) \cup {part.start_lba + part.sec_cnt}

(* Disks with which the kernel can come up: less than PrimMax primary      *)
(* partitions on each, at least one on the first, and no write of a format *)
(* with a count that ends as 0.                                            *)
Bootable ==
  /\ 0 \in Disks /\ Primary(0) # {}
  /\ \A c \in Disks : Cardinality(Primary(c)) < PrimMax
  /\ \A part \in Readable(0) : \A i \in 1 .. 5 : SecCnt(Writes(part)[i][2]) # 0

(* Wherever the power failed, a start comes to an end: the kernel is up,   *)
(* stopped by an ASSERT of partition_scan, of ide_write or of ide_read, or *)
(* goes on without a partition; with disks that are Bootable it is up.     *)
StartEnds ==
  /\ <>[](phase \in {"up", "panic", "fspanic", "adrift"})
  /\ Bootable => <>[](phase = "up")
=============================================================================
