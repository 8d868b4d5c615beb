----------------------------- MODULE Partitions -----------------------------
(***************************************************************************)
(* ide_init and partition_scan of device/ide.c: reading the partition      *)
(* tables of the file disks, one on each channel (sdb, sdd), into          *)
(* prim_parts, logic_parts and partition_list.                             *)
(*                                                                         *)
(* A disk is a function from sector numbers to what the sector holds.  The *)
(* recursion of partition_scan is a stack of frames, each with the sector  *)
(* it reads, the entries it has seen and a buffer from sys_malloc.         *)
(***************************************************************************)
EXTENDS Naturals, FiniteSets, Sequences, SequencesExt

CONSTANTS
  Channels,  \* the channel numbers, 0 .. 1
  LBAs,      \* the sectors of a disk
  Entries,   \* entries of a partition table: 4
  PrimMax,   \* length of prim_parts: 4
  LogicMax   \* length of logic_parts: 8

(* The numbers of the logical partitions start behind those of the primary *)
(* ones.                                                                   *)
ASSUME PartitionsAssumption ==
  /\ Channels \subseteq Nat /\ LBAs \subseteq Nat /\ 0 \in LBAs
  /\ Entries \in Nat /\ PrimMax \in 1 .. 4 /\ LogicMax \in Nat \ {0}

VARIABLES
  disk,            \* the file disk of each channel
  channel_cnt,
  phase,           \* what the start of the kernel is doing
  channel_no,
  frames,          \* the calls of partition_scan, the innermost last
  ext_lba_base,
  prim_parts, logic_parts,  \* what is in use of each disk's arrays
  partition_list,
  p_no, l_no,
  buffers          \* blocks partition_scan has and has not freed

scan == <<frames, ext_lba_base, prim_parts, logic_parts, partition_list, p_no, l_no, buffers>>

Unused   == [fs_type |-> 0, start_lba |-> 0, sec_cnt |-> 0]
Extended == 5
Disks    == {c \in Channels : c < channel_cnt}

(* The partition table in a sector; a sector that is zero has no entries.  *)
Table(c, lba) ==
  IF disk[c][lba].kind = "table" THEN disk[c][lba].table ELSE [i \in 1 .. Entries |-> Unused]

(* The memory of a kernel that starts. *)
MemoryCleared ==
  /\ phase = "probe" /\ channel_no = 0
  /\ frames = <<>> /\ ext_lba_base = 0
  /\ prim_parts = [c \in Channels |-> <<>>] /\ logic_parts = [c \in Channels |-> <<>>]
  /\ partition_list = <<>>
  /\ p_no = 0 /\ l_no = 0 /\ buffers = 0

Frame(lba) == [ext_lba |-> lba, part_idx |-> 0]
Top        == Last(frames)
Entry      == Table(channel_no, Top.ext_lba)[Top.part_idx + 1]
Seen       == Append(Front(frames), [Top EXCEPT !.part_idx = @ + 1])
AtEntry    == phase = "scan" /\ Top.part_idx < Entries

(* ide_init: the next file disk; its first table is in sector 0. *)
ide_init ==
  /\ phase = "probe" /\ channel_no < channel_cnt
  /\ phase' = "scan"
  /\ frames' = <<Frame(0)>>
  /\ buffers' = buffers + 1
  /\ UNCHANGED <<disk, channel_cnt, channel_no, ext_lba_base, prim_parts, logic_parts,
                 partition_list, p_no, l_no>>

(* A call of partition_scan returns, the outermost one to ide_init, which  *)
(* counts the partitions of the next disk anew.                            *)
Return ==
  /\ frames' = Front(frames)
  /\ IF Len(frames) > 1
     THEN UNCHANGED <<phase, channel_no, p_no, l_no>>
     ELSE phase' = "probe" /\ channel_no' = channel_no + 1 /\ p_no' = 0 /\ l_no' = 0

scan_empty ==
  /\ AtEntry /\ Entry.fs_type = 0
  /\ frames' = Seen
  /\ UNCHANGED <<disk, channel_cnt, phase, channel_no, ext_lba_base, prim_parts, logic_parts,
                 partition_list, p_no, l_no, buffers>>

(* The first extended entry gives the base, which the others are relative  *)
(* to; nothing resets it for the next disk.                                *)
scan_extended_Relative ==  \* mutant: relative to the table it is in
  /\ AtEntry /\ Entry.fs_type = Extended
  /\ ext_lba_base' = IF ext_lba_base = 0 THEN Entry.start_lba ELSE ext_lba_base
  /\ frames' = Append(Seen, Frame(Top.ext_lba + Entry.start_lba))
  /\ buffers' = buffers + 1
  /\ UNCHANGED <<disk, channel_cnt, phase, channel_no, prim_parts, logic_parts, partition_list,
                 p_no, l_no>>
scan_extended ==
  /\ AtEntry /\ Entry.fs_type = Extended
  /\ ext_lba_base' = IF ext_lba_base = 0 THEN Entry.start_lba ELSE ext_lba_base
  /\ frames' = Append(Seen, Frame(Entry.start_lba + ext_lba_base))
  /\ buffers' = buffers + 1
  /\ UNCHANGED <<disk, channel_cnt, phase, channel_no, prim_parts, logic_parts, partition_list,
                 p_no, l_no>>

Found(no) == [disk |-> channel_no, no |-> no, sec_cnt |-> Entry.sec_cnt,
              start_lba |-> Top.ext_lba + Entry.start_lba]

(* Sector 0 has the primary partitions; the fourth fails ASSERT(p_no < 4). *)
scan_primary ==
  LET part == Found(p_no + 1) IN
  /\ AtEntry /\ Entry.fs_type \notin {0, Extended} /\ Top.ext_lba = 0
  /\ prim_parts' = [prim_parts EXCEPT ![channel_no] = Append(@, part)]
  /\ partition_list' = Append(partition_list, part)
  /\ p_no' = p_no + 1
  /\ phase' = IF p_no' < PrimMax THEN phase ELSE "panic"
  /\ frames' = Seen
  /\ UNCHANGED <<disk, channel_cnt, channel_no, ext_lba_base, logic_parts, l_no, buffers>>

(* With the last one logic_parts has room for the call returns at once and *)
(* keeps its buffer.                                                       *)
scan_logical ==
  LET part == Found(l_no + 5) IN
  /\ AtEntry /\ Entry.fs_type \notin {0, Extended} /\ Top.ext_lba # 0
  /\ logic_parts' = [logic_parts EXCEPT ![channel_no] = Append(@, part)]
  /\ partition_list' = Append(partition_list, part)
  /\ IF l_no + 1 >= LogicMax
     THEN frames' = Front(frames)
     ELSE frames' = Seen
  /\ l_no' = l_no + 1
  /\ UNCHANGED <<disk, channel_cnt, phase, channel_no, ext_lba_base, prim_parts, p_no, buffers>>

scan_end ==
  /\ phase = "scan" /\ Top.part_idx = Entries
  /\ Return
  /\ buffers' = buffers - 1
  /\ UNCHANGED <<disk, channel_cnt, ext_lba_base, prim_parts, logic_parts, partition_list>>

partition_scan == scan_empty \/ scan_extended \/ scan_primary \/ scan_logical \/ scan_end

-----------------------------------------------------------------------------

(* What the tables t of a disk say.  Sector 0 has the primary partitions,  *)
(* numbered in their order.  The extended partition is a chain of tables,  *)
(* each with a logical partition, whose start is relative to the table,    *)
(* and a link to the next, relative to the extended partition.             *)
Tables(c) == [lba \in LBAs |-> Table(c, lba)]

Links(t, lba)  == {i \in 1 .. Entries : t[lba][i].fs_type = Extended}
Simple(t, lba) == {i \in 1 .. Entries : t[lba][i].fs_type \notin {0, Extended}}
Link(t, lba)   == t[lba][Min(Links(t, lba))].start_lba
Rank(t, i)     == Cardinality({j \in Simple(t, 0) : j <= i})

Chain(t) ==
  LET next[lba \in LBAs] ==
        <<lba>> \o (IF Links(t, lba) = {} THEN <<>> ELSE next[Link(t, 0) + Link(t, lba)])
  IN  IF Links(t, 0) = {} THEN <<>> ELSE next[Link(t, 0)]

Partition(c, no, lba, e) ==
  [disk |-> c, no |-> no, sec_cnt |-> e.sec_cnt, start_lba |-> lba + e.start_lba]
PrimaryAt(c, t, i) == Partition(c, Rank(t, i), 0, t[0][i])
LogicalAt(c, t, i) ==
  LET lba == Chain(t)[i] IN Partition(c, i + 4, lba, t[lba][Min(Simple(t, lba))])

Primary(c)  == {PrimaryAt(c, Tables(c), i) : i \in Simple(Tables(c), 0)}
Logical(c)  == {LogicalAt(c, Tables(c), i) : i \in DOMAIN Chain(Tables(c))}
Readable(c) == Primary(c) \cup {p \in Logical(c) : p.no < LogicMax + 5}

HasExtended(c) == Links(Tables(c), 0) # {}
Base(c)        == Link(Tables(c), 0)
Misled(c)      == HasExtended(c) /\ \E e \in Disks : e < c /\ HasExtended(e)
Full(c)        == \E p \in Logical(c) : p.no = LogicMax + 4

(* The tables t as a partitioning program writes them: a link at most in   *)
(* each, and in those of the extended partition, which the links lead      *)
(* through one after the other, a partition in front of it.                *)
WellChained(t) ==
  LET s == Chain(t) IN
  /\ t \in [LBAs -> [1 .. Entries -> [fs_type : Nat, start_lba : Nat, sec_cnt : Nat]]]
  /\ s \in Seq(LBAs \ {0})
  /\ s = <<>> <=> Links(t, 0) = {}
  /\ s # <<>> => s[1] = Link(t, 0)
  /\ \A i, j \in Links(t, 0) : i = j
  /\ \A n \in 1 .. Len(s) :
       /\ n = Len(s) <=> Links(t, s[n]) = {}
       /\ n < Len(s) => s[n + 1] = Link(t, 0) + Link(t, s[n])
       /\ \E a \in 1 .. Entries :
            Simple(t, s[n]) = {a} /\ \A i, j \in Links(t, s[n]) : i = j /\ a < i

(* ide_init, partition_scan: every partition of the tables is found, once, *)
(* with its number, start and length, as far as logic_parts has room;      *)
(* only a disk with as many primary partitions as prim_parts has elements  *)
(* is refused.  Not so the logical partitions of a disk after another with *)
(* an extended partition, whose base is still there.  Every buffer goes    *)
(* back but the one of the table with the last logical partition.          *)
ScanMatchesTables ==
  /\ phase = "panic" => Cardinality(Primary(channel_no)) >= PrimMax
  /\ phase \notin {"probe", "scan", "panic"} =>
       /\ IsInjective(partition_list)
       /\ \A c \in Disks : ~Misled(c) =>
            {p \in ToSet(partition_list) : p.disk = c} = Readable(c)
       /\ buffers = Cardinality({c \in Disks : ~Misled(c) /\ Full(c)})
=============================================================================
