----------------------------- MODULE BootProofs -----------------------------
(***************************************************************************)
(* Proofs about Boot, and so about the scan of module Partitions.          *)
(*                                                                         *)
(* ScanInv says where a scan is.  The calls of partition_scan follow the   *)
(* chain of tables of the disk (Descends): each but the innermost is past  *)
(* the link of its table (Past), and how many logical partitions have been *)
(* found depends on the innermost alone, on whether it is before its       *)
(* partition, behind it, or on the way back.  A disk behind another with   *)
(* an extended partition is read from that one's base (Misled): there the  *)
(* scan goes to one sector without a table and comes back (Strays).        *)
(*                                                                         *)
(* FormatInv says what the disks hold.  A partition that has a super block *)
(* has been formatted, whole or cut short, or is being formatted; a write  *)
(* goes to sectors of the partition that is formatted, and those of the    *)
(* partitions and of the tables are disjoint, so that all else stays.      *)
(***************************************************************************)
EXTENDS Boot, FiniteSetTheorems, TLAPS

Parts == [disk : Channels, no : Nat, sec_cnt : Nat, start_lba : Nat]

(* What prim_parts and logic_parts hold of a disk with the tables t when   *)
(* idx entries of sector 0 have been seen, and n logical partitions.       *)
PrimIs(p, c, t, idx) ==
  /\ p \in Seq(Parts) /\ Len(p) = Cardinality({j \in Simple(t, 0) : j <= idx})
  /\ \A i \in Simple(t, 0) : i <= idx => p[Rank(t, i)] = PrimaryAt(c, t, i)
  /\ \A n \in 1 .. Len(p) : \E i \in Simple(t, 0) : i <= idx /\ n = Rank(t, i)
LogicIs(l, c, t, n) ==
  l \in Seq(Parts) /\ Len(l) = n /\ \A i \in 1 .. n : l[i] = LogicalAt(c, t, i)

(* How many logical partitions the scan finds. *)
Least2(a, b) == IF a < b THEN a ELSE b
Wanted(t) == Least2(Len(Chain(t)), LogicMax)
Count(c)  == IF Misled(c) THEN 0 ELSE Wanted(Tables(c))

Untouched(c) == prim_parts[c] = <<>> /\ logic_parts[c] = <<>>
Scanned(c) ==
  /\ PrimIs(prim_parts[c], c, Tables(c), Entries)
  /\ LogicIs(logic_parts[c], c, Tables(c), Count(c))
  /\ Len(prim_parts[c]) < PrimMax

BootTypes ==
  /\ channel_cnt \in Nat /\ DOMAIN disk = 0 .. channel_cnt - 1 /\ DOMAIN disk \subseteq Channels
  /\ \A c \in DOMAIN disk : disk[c] = [lba \in LBAs |-> disk[c][lba]]
  /\ \A c \in DOMAIN disk : Partitioned(c)
  /\ channel_no \in 0 .. channel_cnt
  /\ phase \in {"probe", "scan", "search", "format", "up", "fspanic", "adrift", "panic"}
  /\ part_idx \in 0 .. Slots /\ write \in 0 .. 4
  /\ prim_parts \in [Channels -> Seq(Parts)] /\ logic_parts \in [Channels -> Seq(Parts)]
  /\ partition_list \in Seq(Parts)

(* A frame is past the link of its table, or before its partition. *)
Past(t, f)   == \E i \in Links(t, f.ext_lba) : i <= f.part_idx
Before(t, f) == \E i \in Simple(t, f.ext_lba) : f.part_idx < i

(* The frames fr of a scan of a disk with the tables t, of which n logical *)
(* partitions are to be found and l have been: down the chain of tables,   *)
(* and if the base is that of another disk, to one sector without a table. *)
FrameTypes == [ext_lba : LBAs, part_idx : 0 .. Entries]
IsScan(fr) ==
  /\ fr \in Seq(FrameTypes) /\ fr # <<>>
  /\ fr[1].ext_lba = 0 /\ \A j \in 2 .. Len(fr) : fr[j].ext_lba # 0
Descends(t, n, fr, l) ==
  LET m == Len(fr) IN
  /\ m - 1 <= n
  /\ \A j \in 2 .. m : fr[j].ext_lba = Chain(t)[j - 1]
  /\ \A j \in 1 .. m - 1 : Past(t, fr[j])
  /\ m - 1 = LogicMax => Before(t, fr[m])
  /\ l = IF Past(t, fr[m]) THEN n
         ELSE IF m = 1 THEN 0
         ELSE IF Before(t, fr[m]) THEN m - 2 ELSE m - 1
Strays(t, fr, l) ==
  /\ l = 0
  /\ \/ Len(fr) = 1
     \/ /\ Len(fr) = 2 /\ Past(t, fr[1])
        /\ Links(t, fr[2].ext_lba) = {} /\ Simple(t, fr[2].ext_lba) = {}

(* Where the scan is. *)
Scanning ==
  LET c == channel_no IN
  /\ c < channel_cnt
  /\ IsScan(frames)
  /\ PrimIs(prim_parts[c], c, Tables(c), frames[1].part_idx)
  /\ p_no = Len(prim_parts[c]) /\ p_no < PrimMax
  /\ l_no \in Nat /\ LogicIs(logic_parts[c], c, Tables(c), l_no)
  /\ IF Misled(c) THEN Strays(Tables(c), frames, l_no)
                  ELSE Descends(Tables(c), Wanted(Tables(c)), frames, l_no)

(* The base is that of the first extended partition that has been seen. *)
Seen1 == {c \in DOMAIN disk :
            /\ HasExtended(c)
            /\ \/ c < channel_no
               \/ c = channel_no /\ phase = "scan" /\ Past(Tables(c), frames[1])}
BaseIs ==
  /\ Seen1 = {} => ext_lba_base = 0
  /\ Seen1 # {} => \E c \in Seen1 : ext_lba_base = Base(c) /\ \A d \in Seen1 : c <= d

Kept(n)  == {c \in DOMAIN disk : c < n /\ ~Misled(c) /\ Full(c)}

Listed ==
  /\ \A i, j \in DOMAIN partition_list : partition_list[i] = partition_list[j] => i = j
  /\ ToSet(partition_list) = UNION {ToSet(prim_parts[c]) \cup ToSet(logic_parts[c]) : c \in DOMAIN disk}

ScanInv ==
  /\ phase = "probe" => frames = <<>> /\ p_no = 0 /\ l_no = 0 /\ buffers = Cardinality(Kept(channel_no))
  /\ phase = "scan" =>
       Scanning /\ buffers = Len(frames) + Cardinality(Kept(channel_no)) + (IF l_no = LogicMax THEN 1 ELSE 0)
  /\ phase \in {"probe", "scan"} =>
       /\ \A c \in DOMAIN disk : c < channel_no => Scanned(c)
       /\ \A c \in DOMAIN disk : c > channel_no \/ (c = channel_no /\ phase = "probe") => Untouched(c)
       /\ BaseIs
  /\ phase \in {"search", "format", "up", "fspanic", "adrift"} =>
       (\A c \in DOMAIN disk : Scanned(c)) /\ buffers = Cardinality(Kept(channel_cnt))
  /\ phase = "panic" => Cardinality(Primary(channel_no)) >= PrimMax
  /\ phase # "panic" => Listed

-----------------------------------------------------------------------------

Up        == phase \in {"search", "format", "up", "fspanic", "adrift"}
Formatted == finished \cup cut
At(idx) ==
  LET p == prim_parts[0]  l == logic_parts[0] IN
  IF idx < PrimMax THEN IF idx + 1 \in DOMAIN p THEN p[idx + 1] ELSE NoPart
                   ELSE IF idx - PrimMax + 1 \in DOMAIN l THEN l[idx - PrimMax + 1] ELSE NoPart
FormattedAre ==
  /\ \A part \in Formatted : part.disk \in DOMAIN disk /\ part \in Readable(part.disk)
  /\ \A part \in finished : Complete(part)
  /\ \A part \in cut : Holds(part.disk, Writes(part)[1])
SupersAre ==
  \A c \in DOMAIN disk : \A part \in Readable(c) :
    HasSuper(part) => part \in Formatted \/ (phase = "format" /\ part = Here /\ write > 0)
Formatting ==
  phase = "format" =>
    /\ channel_no = 0 /\ channel_cnt > 0 /\ part_idx < Slots
    /\ Here \in Readable(0) \ Formatted
    /\ \A i \in 1 .. write : Holds(0, Writes(Here)[i])
Searched ==
  /\ phase \in {"probe", "scan"} => part_idx = 0
  /\ Up =>
       /\ channel_no > 0 => part_idx = Slots
       /\ channel_cnt > 0 => \A idx \in 0 .. part_idx - 1 : At(idx).sec_cnt # 0 => HasSuper(At(idx))
  /\ phase = "up" => channel_no = channel_cnt
FormatInv == FormattedAre /\ SupersAre /\ Formatting /\ Searched

BootInv == BootTypes /\ ScanInv /\ FormatInv /\ MountedAsFormatted

-----------------------------------------------------------------------------

(* The disks are numbered from 0. *)
LEMMA DisksAre == BootTypes => Disks = DOMAIN disk /\ DOMAIN disk \subseteq Nat
<1> SUFFICES ASSUME BootTypes PROVE Disks = DOMAIN disk /\ DOMAIN disk \subseteq Nat
  OBVIOUS
<1>1. channel_cnt \in Nat /\ DOMAIN disk = 0 .. channel_cnt - 1 /\ DOMAIN disk \subseteq Channels
  BY DEF BootTypes
<1>2. \A c \in Channels : c \in Nat /\ (c < channel_cnt <=> c \in 0 .. channel_cnt - 1)
  BY <1>1, PartitionsAssumption
<1>3. Disks = {c \in Channels : c < channel_cnt}
  BY Zenon DEF Disks
<1> QED
  BY <1>1, <1>2, <1>3

(* The entries of a table, and how many of sector 0 are primary partitions *)
(* up to one of them.                                                      *)
Upto(t, idx) == {j \in Simple(t, 0) : j <= idx}

(* There are finitely many, for the table has finitely many entries. *)
LEMMA UptoFinite ==
  ASSUME NEW t, NEW idx \in Nat
  PROVE  /\ IsFiniteSet(Upto(t, idx)) /\ Cardinality(Upto(t, idx)) \in Nat
         /\ IsFiniteSet(Simple(t, 0)) /\ Cardinality(Simple(t, 0)) \in Nat
<1>1. IsFiniteSet(1 .. Entries)
  BY FS_Interval, PartitionsAssumption
<1>2. Simple(t, 0) \in SUBSET (1 .. Entries) /\ Upto(t, idx) \in SUBSET (1 .. Entries)
  BY DEF Simple, Upto
<1> QED
  BY <1>1, <1>2, FS_Subset, FS_CardinalityType

(* With the next entry there is one more if it is a partition's. *)
LEMMA UptoStep ==
  ASSUME NEW t, NEW idx \in 0 .. Entries - 1
  PROVE  /\ idx + 1 \in Simple(t, 0) =>
              /\ Rank(t, idx + 1) = Cardinality(Upto(t, idx)) + 1
              /\ Cardinality(Upto(t, idx + 1)) = Cardinality(Upto(t, idx)) + 1
         /\ idx + 1 \notin Simple(t, 0) => Upto(t, idx + 1) = Upto(t, idx)
<1>1. idx \in Nat /\ idx + 1 \in Nat /\ \A j \in Simple(t, 0) : j \in Nat
  BY PartitionsAssumption DEF Simple
<1>2. ASSUME idx + 1 \in Simple(t, 0)
      PROVE  Upto(t, idx + 1) = Upto(t, idx) \cup {idx + 1} /\ idx + 1 \notin Upto(t, idx)
  BY <1>1, <1>2 DEF Upto
<1>3. ASSUME idx + 1 \notin Simple(t, 0) PROVE Upto(t, idx + 1) = Upto(t, idx)
  BY <1>1, <1>3 DEF Upto
<1>4. Rank(t, idx + 1) = Cardinality(Upto(t, idx + 1))
  BY Zenon DEF Rank, Upto
<1> QED
  BY <1>1, <1>2, <1>3, <1>4, UptoFinite, FS_AddElement

(* Nothing has been seen of a table, or all of it. *)
LEMMA UptoEnds ==
  ASSUME NEW t PROVE Upto(t, 0) = {} /\ Upto(t, Entries) = Simple(t, 0)
BY PartitionsAssumption DEF Upto, Simple

(* The primary partitions have different numbers. *)
LEMMA RankGrows ==
  ASSUME NEW t, NEW i \in Simple(t, 0), NEW j \in Simple(t, 0), i < j
  PROVE  Rank(t, i) < Rank(t, j)
<1>1. i \in Nat /\ j \in Nat /\ \A k \in Simple(t, 0) : k \in Nat
  BY PartitionsAssumption DEF Simple
<1>2. Rank(t, i) = Cardinality(Upto(t, i)) /\ Rank(t, j) = Cardinality(Upto(t, j))
  BY Zenon DEF Rank, Upto
<1>3. Upto(t, i) \cup {j} \subseteq Upto(t, j) /\ j \notin Upto(t, i)
  <2>1. \A k \in Upto(t, i) : k \in Simple(t, 0) /\ k <= i
    BY Zenon DEF Upto
  <2>2. \A k \in Simple(t, 0) : k <= i => k <= j
    BY <1>1
  <2>3. ~(j <= i) /\ j <= j
    BY <1>1
  <2>4. \A k : k \in Upto(t, j) <=> k \in Simple(t, 0) /\ k <= j
    BY Zenon DEF Upto
  <2> QED
    BY <2>1, <2>2, <2>3, <2>4, Zenon
<1>4. IsFiniteSet(Upto(t, i)) /\ Cardinality(Upto(t, i)) \in Nat /\ IsFiniteSet(Upto(t, j))
  BY <1>1, UptoFinite
<1>5. Cardinality(Upto(t, i) \cup {j}) = Cardinality(Upto(t, i)) + 1
  BY <1>3, <1>4, FS_AddElement
<1>6. Cardinality(Upto(t, i) \cup {j}) <= Cardinality(Upto(t, j)) /\ Cardinality(Upto(t, j)) \in Nat
  BY <1>3, <1>4, FS_Subset, FS_CardinalityType
<1> QED
  BY <1>2, <1>4, <1>5, <1>6

(* The primary partitions are numbered from 1. *)
LEMMA RankIs ==
  ASSUME NEW t, NEW i \in Simple(t, 0)
  PROVE  Rank(t, i) \in 1 .. Cardinality(Simple(t, 0)) /\ Cardinality(Simple(t, 0)) \in Nat
<1>1. i \in Nat /\ \A k \in Simple(t, 0) : k \in Nat
  BY PartitionsAssumption DEF Simple
<1>2. Rank(t, i) = Cardinality(Upto(t, i))
  BY Zenon DEF Rank, Upto
<1>3. Upto(t, i) \subseteq Simple(t, 0) /\ Upto(t, i) # {}
  BY <1>1 DEF Upto
<1>4. IsFiniteSet(Simple(t, 0)) /\ IsFiniteSet(Upto(t, i)) /\ Cardinality(Upto(t, i)) \in Nat
  BY <1>1, UptoFinite
<1>5. Cardinality(Upto(t, i)) # 0 /\ Cardinality(Upto(t, i)) <= Cardinality(Simple(t, 0))
  BY <1>3, <1>4, FS_EmptySet, FS_Subset
<1> QED
  BY <1>1, <1>2, <1>4, <1>5, UptoFinite

(* Sequences with one element more or less. *)
LEMMA AppendIs ==
  ASSUME NEW X, NEW s \in Seq(X), NEW x \in X, NEW n \in Nat, Len(s) = n
  PROVE  /\ Append(s, x) \in Seq(X) /\ Len(Append(s, x)) = n + 1
         /\ Append(s, x)[n + 1] = x /\ \A i \in 1 .. n : Append(s, x)[i] = s[i]
OBVIOUS

(* What is found of a disk, entry by entry. *)
LEMMA PrimNone == ASSUME NEW c, NEW t PROVE PrimIs(<<>>, c, t, 0)
<1>1. Upto(t, 0) = {} /\ Cardinality(Upto(t, 0)) = 0
  BY UptoEnds, FS_EmptySet
<1>2. {j \in Simple(t, 0) : j <= 0} = Upto(t, 0)
  BY Zenon DEF Upto
<1>3. \A i \in Simple(t, 0) : ~(i <= 0)
  BY <1>1, Zenon DEF Upto
<1>4. <<>> \in Seq(Parts) /\ Len(<<>>) = 0 /\ \A n \in 1 .. Len(<<>>) : FALSE
  OBVIOUS
<1> QED
  BY <1>1, <1>2, <1>3, <1>4, Zenon DEF PrimIs

LEMMA PrimSkip ==
  ASSUME NEW p, NEW c, NEW t, NEW idx \in 0 .. Entries - 1,
         idx + 1 \notin Simple(t, 0), PrimIs(p, c, t, idx)
  PROVE  PrimIs(p, c, t, idx + 1)
<1>1. Upto(t, idx + 1) = Upto(t, idx)
  BY UptoStep
<1>2. \A i \in Simple(t, 0) : i <= idx + 1 <=> i <= idx
  BY <1>1, Zenon DEF Upto
<1>3. {j \in Simple(t, 0) : j <= idx + 1} = {j \in Simple(t, 0) : j <= idx}
  BY <1>2, Zenon
<1> QED
  BY <1>2, <1>3, Zenon DEF PrimIs

(* An entry of a primary partition has the next number. *)
LEMMA PrimAdd ==
  ASSUME NEW p, NEW c, NEW t, NEW idx \in 0 .. Entries - 1,
         idx + 1 \in Simple(t, 0), PrimIs(p, c, t, idx), PrimaryAt(c, t, idx + 1) \in Parts
  PROVE  /\ PrimIs(Append(p, PrimaryAt(c, t, idx + 1)), c, t, idx + 1)
         /\ Rank(t, idx + 1) = Len(p) + 1
<1>1. PICK part \in Parts : part = PrimaryAt(c, t, idx + 1)
  OBVIOUS
<1>2. PICK q : q = Append(p, part)
  OBVIOUS
<1>3. PICK n \in Nat : Len(p) = n /\ Cardinality(Upto(t, idx)) = n
  <2>1. Len(p) = Cardinality(Upto(t, idx))
    BY Zenon DEF PrimIs, Upto
  <2>2. idx \in Nat
    BY PartitionsAssumption
  <2> QED
    BY <2>1, <2>2, UptoFinite
<1>4. Rank(t, idx + 1) = n + 1 /\ Cardinality(Upto(t, idx + 1)) = n + 1
  BY <1>3, UptoStep
<1>5. q \in Seq(Parts) /\ Len(q) = n + 1 /\ q[n + 1] = part /\ \A i \in 1 .. n : q[i] = p[i]
  BY <1>2, <1>3, AppendIs DEF PrimIs
<1>6. \A i \in Simple(t, 0) : i \in Nat /\ (i <= idx + 1 <=> i <= idx \/ i = idx + 1)
  BY PartitionsAssumption DEF Simple
<1>7. ASSUME NEW i \in Simple(t, 0), i <= idx + 1 PROVE q[Rank(t, i)] = PrimaryAt(c, t, i)
  <2>1. CASE i = idx + 1
    BY <1>1, <1>4, <1>5, <2>1
  <2>2. CASE i <= idx
    <3>1. i < idx + 1 /\ p[Rank(t, i)] = PrimaryAt(c, t, i)
      BY <1>6, <2>2 DEF PrimIs
    <3>2. Rank(t, i) < n + 1 /\ Rank(t, i) \in 1 .. Cardinality(Simple(t, 0)) /\ Cardinality(Simple(t, 0)) \in Nat
      BY <1>4, <3>1, RankGrows, RankIs
    <3>3. Rank(t, i) \in 1 .. n
      BY <3>2
    <3> QED
      BY <1>5, <3>1, <3>3
  <2> QED
    BY <1>6, <1>7, <2>1, <2>2
<1>8. ASSUME NEW m \in 1 .. n + 1 PROVE \E i \in Simple(t, 0) : i <= idx + 1 /\ m = Rank(t, i)
  <2>1. CASE m = n + 1
    BY <1>4, <2>1
  <2>2. CASE m \in 1 .. n
    <3>1. PICK i \in Simple(t, 0) : i <= idx /\ m = Rank(t, i)
      BY <1>3, <2>2 DEF PrimIs
    <3> QED
      BY <1>6, <3>1
  <2> QED
    BY <2>1, <2>2
<1>9. PrimIs(q, c, t, idx + 1)
  BY <1>4, <1>5, <1>7, <1>8 DEF PrimIs, Upto
<1> QED
  BY <1>1, <1>2, <1>3, <1>4, <1>9

LEMMA LogicNone == ASSUME NEW c, NEW t PROVE LogicIs(<<>>, c, t, 0)
BY DEF LogicIs

(* A table of the chain gives the next logical partition. *)
LEMMA LogicAdd ==
  ASSUME NEW l, NEW c, NEW t, NEW n \in Nat, LogicIs(l, c, t, n), LogicalAt(c, t, n + 1) \in Parts
  PROVE  LogicIs(Append(l, LogicalAt(c, t, n + 1)), c, t, n + 1)
<1>1. PICK part \in Parts : part = LogicalAt(c, t, n + 1)
  OBVIOUS
<1>2. PICK q : q = Append(l, part)
  OBVIOUS
<1>3. q \in Seq(Parts) /\ Len(q) = n + 1 /\ q[n + 1] = part /\ \A i \in 1 .. n : q[i] = l[i]
  BY <1>2, AppendIs DEF LogicIs
<1>4. LogicIs(q, c, t, n + 1)
  BY <1>1, <1>3 DEF LogicIs
<1> QED
  BY <1>1, <1>2, <1>4

(* Sequences with the last element replaced or taken off. *)
LEMMA ReplaceIs ==
  ASSUME NEW X, NEW s \in Seq(X), s # <<>>, NEW x \in X, NEW n \in Nat, Len(s) = n
  PROVE  /\ n > 0 /\ Append(Front(s), x) \in Seq(X) /\ Len(Append(Front(s), x)) = n
         /\ Append(Front(s), x)[n] = x /\ \A i \in 1 .. n - 1 : Append(Front(s), x)[i] = s[i]
         /\ Last(s) = s[n] /\ Last(s) \in X
BY DEF Front, Last

LEMMA FrontIs ==
  ASSUME NEW X, NEW s \in Seq(X), s # <<>>, NEW n \in Nat, Len(s) = n
  PROVE  /\ n > 0 /\ Front(s) \in Seq(X) /\ Len(Front(s)) = n - 1
         /\ \A i \in 1 .. n - 1 : Front(s)[i] = s[i]
         /\ n > 1 => Front(s) # <<>>
         /\ n = 1 => Front(s) = <<>>
BY DEF Front

(* The tables of a partitioned disk. *)
LEMMA ChainIs ==
  ASSUME NEW t, WellChained(t)
  PROVE  /\ Chain(t) \in Seq(LBAs \ {0}) /\ Len(Chain(t)) \in Nat
         /\ Len(Chain(t)) = 0 <=> Links(t, 0) = {}
         /\ Len(Chain(t)) > 0 => Chain(t)[1] = Link(t, 0)
         /\ \A i, j \in Links(t, 0) : i = j
<1>1. PICK s : s = Chain(t)
  OBVIOUS
<1>2. /\ s \in Seq(LBAs \ {0}) /\ (s = <<>> <=> Links(t, 0) = {})
      /\ s # <<>> => s[1] = Link(t, 0)
      /\ \A i, j \in Links(t, 0) : i = j
  BY <1>1 DEF WellChained
<1>3. Len(s) \in Nat /\ (Len(s) = 0 <=> s = <<>>)
  BY <1>2
<1> QED
  BY <1>1, <1>2, <1>3

(* The n-th table of the chain: its link leads to the next one, and its    *)
(* partition is in front of the link.                                      *)
LEMMA TableIs ==
  ASSUME NEW t, WellChained(t), NEW n \in 1 .. Len(Chain(t)), NEW x, x = Chain(t)[n]
  PROVE  /\ x \in LBAs \ {0}
         /\ n = Len(Chain(t)) <=> Links(t, x) = {}
         /\ n < Len(Chain(t)) => Chain(t)[n + 1] = Link(t, 0) + Link(t, x)
         /\ \E a \in 1 .. Entries : Simple(t, x) = {a} /\ \A i \in Links(t, x) : a < i
         /\ \A i, j \in Links(t, x) : i = j
<1>1. PICK s : s = Chain(t)
  OBVIOUS
<1>2. s \in Seq(LBAs \ {0}) /\ n \in 1 .. Len(s)
  BY <1>1, ChainIs
<1>3. s[n] \in LBAs \ {0}
  BY <1>2
<1>4. \A k \in 1 .. Len(s) :
       /\ k = Len(s) <=> Links(t, s[k]) = {}
       /\ k < Len(s) => s[k + 1] = Link(t, 0) + Link(t, s[k])
       /\ \E a \in 1 .. Entries :
            Simple(t, s[k]) = {a} /\ \A i, j \in Links(t, s[k]) : i = j /\ a < i
  BY <1>1, Zenon DEF WellChained
<1>5. x = s[n]
  BY <1>1
<1>6. /\ n = Len(s) <=> Links(t, x) = {}
      /\ n < Len(s) => s[n + 1] = Link(t, 0) + Link(t, x)
      /\ \E a \in 1 .. Entries :
           Simple(t, x) = {a} /\ \A i, j \in Links(t, x) : i = j /\ a < i
  BY <1>2, <1>4, <1>5, Zenon
<1> QED
  BY <1>1, <1>3, <1>5, <1>6, Zenon

LEMMA TablePart ==
  ASSUME NEW t, WellChained(t), NEW n \in 1 .. Len(Chain(t)), NEW x, x = Chain(t)[n]
  PROVE  \E a \in 1 .. Entries : Simple(t, x) = {a} /\ \A i \in Links(t, x) : a < i
BY TableIs

(* The link of a table with one. *)
LEMMA LinkIs ==
  ASSUME NEW t, NEW lba, NEW k \in Links(t, lba), \A i, j \in Links(t, lba) : i = j
  PROVE  Link(t, lba) = t[lba][k].start_lba
<1>1. Links(t, lba) = {k} /\ k \in Nat
  BY PartitionsAssumption DEF Links
<1>2. Min({k}) = k
  BY <1>1 DEF Min
<1> QED
  BY <1>1, <1>2, Zenon DEF Link

(* A sector without a table leads nowhere and has no partition. *)
LEMMA NoEntries ==
  ASSUME NEW t, NEW lba, \A i \in 1 .. Entries : t[lba][i].fs_type = 0
  PROVE  Links(t, lba) = {} /\ Simple(t, lba) = {}
BY DEF Links, Simple, Extended

LEMMA ShortOf ==
  ASSUME NEW t, NEW lba, NEW a \in 1 .. Entries, Simple(t, lba) = {a}
  PROVE  Min(Simple(t, lba)) = a
<1>1. a \in Nat
  BY PartitionsAssumption
<1>2. Min({a}) = a
  BY <1>1 DEF Min
<1> QED
  BY <1>2, Zenon

(* One entry further: past the link, or not before the partition, exactly  *)
(* when that was the entry.                                                *)
Further(f, g) == g.ext_lba = f.ext_lba /\ g.part_idx = f.part_idx + 1
LEMMA PastStep ==
  ASSUME NEW t, NEW f, NEW g, Further(f, g), f.part_idx \in Nat
  PROVE  /\ Past(t, g) <=> Past(t, f) \/ g.part_idx \in Links(t, f.ext_lba)
         /\ Before(t, g) => Before(t, f)
         /\ g.part_idx \notin Simple(t, f.ext_lba) => (Before(t, f) <=> Before(t, g))
<1>1. \A i \in Links(t, f.ext_lba) \cup Simple(t, f.ext_lba) : i \in Nat
  BY PartitionsAssumption DEF Links, Simple
<1>a. PICK lba : lba = f.ext_lba
  OBVIOUS
<1>b. PICK k \in Nat : k = f.part_idx
  OBVIOUS
<1>2. f.ext_lba = lba /\ f.part_idx = k /\ g.ext_lba = lba /\ g.part_idx = k + 1
  BY <1>a, <1>b DEF Further
<1>3. /\ Past(t, f) <=> \E i \in Links(t, lba) : i <= k
      /\ Past(t, g) <=> \E i \in Links(t, lba) : i <= k + 1
      /\ Before(t, f) <=> \E i \in Simple(t, lba) : k < i
      /\ Before(t, g) <=> \E i \in Simple(t, lba) : k + 1 < i
  BY <1>2, Zenon DEF Past, Before
<1> QED
  BY <1>1, <1>2, <1>3

(* A table that has not been looked at, or to its end. *)
LEMMA PastEnds ==
  ASSUME NEW t, NEW f
  PROVE  /\ f.part_idx = 0 => ~Past(t, f) /\ (Before(t, f) <=> Simple(t, f.ext_lba) # {})
         /\ f.part_idx = Entries => (Past(t, f) <=> Links(t, f.ext_lba) # {}) /\ ~Before(t, f)
BY PartitionsAssumption DEF Past, Before, Links, Simple

(* The innermost frame of a scan, and the next entry of its table. *)
StepOf(fr) == Append(Front(fr), [Last(fr) EXCEPT !.part_idx = @ + 1])
(* The innermost call of a scan. *)
LEMMA LastIs ==
  ASSUME NEW fr, IsScan(fr), NEW m, m = Len(fr)
  PROVE  /\ m \in Nat \ {0} /\ Last(fr) = fr[m] /\ fr[m] \in FrameTypes
         /\ \A j \in 1 .. m : fr[j] \in FrameTypes
         /\ fr[m].ext_lba \in LBAs /\ fr[m].part_idx \in 0 .. Entries
         /\ m = 1 <=> fr[m].ext_lba = 0
<1>1. fr \in Seq(FrameTypes) /\ fr # <<>>
  BY DEF IsScan
<1>2. m \in Nat \ {0} /\ Last(fr) = fr[m] /\ \A j \in 1 .. m : fr[j] \in FrameTypes
  BY <1>1 DEF Last
<1>3. fr[1].ext_lba = 0 /\ \A j \in 2 .. m : fr[j].ext_lba # 0
  BY Zenon DEF IsScan
<1>4. m \in 1 .. m /\ (m = 1 \/ m \in 2 .. m)
  BY <1>2
<1>5. fr[m] \in FrameTypes /\ (m = 1 <=> fr[m].ext_lba = 0)
  BY <1>2, <1>3, <1>4
<1>6. fr[m].ext_lba \in LBAs /\ fr[m].part_idx \in 0 .. Entries
  BY <1>5 DEF FrameTypes
<1> QED
  BY <1>2, <1>5, <1>6

(* The innermost call goes on to its next entry. *)
LEMMA StepIs ==
  ASSUME NEW fr, IsScan(fr), NEW m, m = Len(fr), fr[m].part_idx # Entries
  PROVE  /\ IsScan(StepOf(fr)) /\ Len(StepOf(fr)) = m
         /\ Further(fr[m], StepOf(fr)[m])
         /\ \A j \in 1 .. m - 1 : StepOf(fr)[j] = fr[j]
<1>1. PICK x : x = [Last(fr) EXCEPT !.part_idx = @ + 1]
  OBVIOUS
<1>2. PICK f \in FrameTypes : f = Last(fr) /\ f = fr[m]
  BY LastIs
<1>3. x \in FrameTypes /\ x.ext_lba = f.ext_lba /\ x.part_idx = f.part_idx + 1
  BY <1>1, <1>2, PartitionsAssumption DEF FrameTypes
<1>4. PICK g : g = Append(Front(fr), x)
  OBVIOUS
<1>5. fr \in Seq(FrameTypes) /\ fr # <<>> /\ m \in Nat
  BY LastIs DEF IsScan
<1>6. /\ m > 0 /\ g \in Seq(FrameTypes) /\ Len(g) = m
      /\ g[m] = x /\ \A i \in 1 .. m - 1 : g[i] = fr[i]
  BY <1>3, <1>4, <1>5, ReplaceIs
<1>7. fr[1].ext_lba = 0 /\ \A j \in 2 .. m : fr[j].ext_lba # 0
  BY Zenon DEF IsScan
<1>8. \A j \in 1 .. m : g[j].ext_lba = fr[j].ext_lba
  BY <1>2, <1>3, <1>6
<1>9. g # <<>> /\ g[1].ext_lba = 0 /\ \A j \in 2 .. m : g[j].ext_lba # 0
  BY <1>6, <1>7, <1>8
<1>10. IsScan(g)
  BY <1>6, <1>9 DEF IsScan
<1> QED
  BY <1>1, <1>2, <1>3, <1>4, <1>6, <1>10, Zenon DEF Further, StepOf

(* A call within a call, and the return from one. *)
LEMMA CallIs ==
  ASSUME NEW fr, IsScan(fr), NEW m, m = Len(fr), NEW lba \in LBAs \ {0},
         NEW f, f = Frame(lba), NEW h, h = Append(fr, f)
  PROVE  IsScan(h) /\ Len(h) = m + 1 /\ h[m + 1] = f /\ \A j \in 1 .. m : h[j] = fr[j]
<1>1. f \in FrameTypes /\ f.ext_lba = lba /\ f.part_idx = 0
  BY PartitionsAssumption DEF Frame, FrameTypes
<1>2. m \in Nat \ {0} /\ fr \in Seq(FrameTypes)
  BY LastIs DEF IsScan
<1>3. h \in Seq(FrameTypes) /\ Len(h) = m + 1 /\ h[m + 1] = f /\ \A i \in 1 .. m : h[i] = fr[i]
  BY <1>1, <1>2, AppendIs
<1>4. fr[1].ext_lba = 0 /\ \A j \in 2 .. m : fr[j].ext_lba # 0
  BY Zenon DEF IsScan
<1>5. h # <<>> /\ h[1].ext_lba = 0 /\ \A j \in 2 .. m + 1 : h[j].ext_lba # 0
  BY <1>1, <1>2, <1>3, <1>4
<1> QED
  BY <1>1, <1>3, <1>5 DEF IsScan

(* The innermost call returns. *)
LEMMA ReturnIs ==
  ASSUME NEW fr, IsScan(fr), NEW m, m = Len(fr)
  PROVE  /\ m = 1 => Front(fr) = <<>>
         /\ m > 1 => IsScan(Front(fr)) /\ Len(Front(fr)) = m - 1 /\ \A j \in 1 .. m - 1 : Front(fr)[j] = fr[j]
<1>1. fr \in Seq(FrameTypes) /\ fr # <<>> /\ m \in Nat \ {0}
  BY LastIs DEF IsScan
<1>2. PICK g : g = Front(fr)
  OBVIOUS
<1>3. /\ g \in Seq(FrameTypes) /\ Len(g) = m - 1 /\ \A i \in 1 .. m - 1 : g[i] = fr[i]
      /\ m > 1 => g # <<>>
      /\ m = 1 => g = <<>>
  BY <1>1, <1>2, FrontIs
<1>4. fr[1].ext_lba = 0 /\ \A j \in 2 .. m : fr[j].ext_lba # 0
  BY Zenon DEF IsScan
<1>5. ASSUME m > 1 PROVE IsScan(g)
  <2>1. g[1].ext_lba = 0 /\ \A j \in 2 .. m - 1 : g[j].ext_lba # 0
    BY <1>1, <1>3, <1>4, <1>5
  <2> QED
    BY <1>3, <1>5, <2>1 DEF IsScan
<1> QED
  BY <1>2, <1>3, <1>5

(* How the frames of a scan move down the chain of tables and back: past   *)
(* an entry of no kind, from a table to the next, past a partition, out of *)
(* a table that is done, and out of the last one that is wanted.           *)
LEMMA WantedIs ==
  ASSUME NEW t, WellChained(t)
  PROVE  /\ Wanted(t) \in Nat /\ Wanted(t) <= Len(Chain(t)) /\ Wanted(t) <= LogicMax
         /\ Len(Chain(t)) \in Nat /\ LogicMax \in Nat \ {0}
         /\ Wanted(t) = Len(Chain(t)) \/ Wanted(t) = LogicMax
BY ChainIs, PartitionsAssumption DEF Wanted, Least2

(* A call that is not the outermost reads a table of the chain. *)
LEMMA DescendsBelow ==
  ASSUME NEW t, WellChained(t), NEW fr, IsScan(fr), NEW l, Descends(t, Wanted(t), fr, l),
         NEW m, m = Len(fr), m > 1
  PROVE  m \in Nat /\ m - 1 \in 1 .. Len(Chain(t)) /\ m - 1 <= Wanted(t) /\ fr[m].ext_lba = Chain(t)[m - 1]
<1>1. m \in Nat /\ m - 1 <= Wanted(t) /\ \A j \in 2 .. m : fr[j].ext_lba = Chain(t)[j - 1]
  BY LastIs DEF Descends
<1>2. m \in 2 .. m
  BY <1>1
<1> QED
  BY <1>1, <1>2, WantedIs

(* An entry that is no link, and no logical partition. *)
LEMMA DescendSkip ==
  ASSUME NEW t, WellChained(t), NEW fr, IsScan(fr), NEW l, Descends(t, Wanted(t), fr, l),
         NEW m, m = Len(fr), fr[m].part_idx # Entries, NEW k, k = fr[m].part_idx + 1,
         k \notin Links(t, fr[m].ext_lba), k \notin Simple(t, fr[m].ext_lba) \/ m = 1
  PROVE  Descends(t, Wanted(t), StepOf(fr), l)
<1>1. PICK g : g = StepOf(fr)
  OBVIOUS
<1>2. /\ m \in Nat \ {0} /\ Len(g) = m
      /\ Further(fr[m], g[m]) /\ \A j \in 1 .. m - 1 : g[j] = fr[j]
      /\ fr[m].part_idx \in Nat
  BY <1>1, StepIs, LastIs
<1>3. g[m].part_idx = k /\ g[m].ext_lba = fr[m].ext_lba
  BY <1>2 DEF Further
<1>4. (Past(t, g[m]) <=> Past(t, fr[m])) /\ (m = 1 \/ (Before(t, g[m]) <=> Before(t, fr[m])))
  <2>1. /\ Past(t, g[m]) <=> Past(t, fr[m]) \/ g[m].part_idx \in Links(t, fr[m].ext_lba)
        /\ g[m].part_idx \notin Simple(t, fr[m].ext_lba) => (Before(t, fr[m]) <=> Before(t, g[m]))
    BY <1>2, PastStep, Zenon
  <2> QED
    BY <1>3, <2>1, Zenon
<1>5. /\ m - 1 <= Wanted(t)
      /\ \A j \in 2 .. m : fr[j].ext_lba = Chain(t)[j - 1]
      /\ \A j \in 1 .. m - 1 : Past(t, fr[j])
      /\ m - 1 = LogicMax => Before(t, fr[m])
      /\ l = IF Past(t, fr[m]) THEN Wanted(t)
             ELSE IF m = 1 THEN 0
             ELSE IF Before(t, fr[m]) THEN m - 2 ELSE m - 1
  BY Zenon DEF Descends
<1>6. \A j \in 2 .. m : g[j].ext_lba = fr[j].ext_lba
  BY <1>2, <1>3
<1>7. m - 1 = LogicMax => m # 1
  BY <1>2, PartitionsAssumption
<1>8. \A j \in 1 .. m - 1 : Past(t, g[j])
  BY <1>2, <1>5
<1>9. \A j \in 2 .. m : g[j].ext_lba = Chain(t)[j - 1]
  BY <1>5, <1>6
<1>10. m - 1 = LogicMax => Before(t, g[m])
  BY <1>4, <1>5, <1>7
<1>11. l = IF Past(t, g[m]) THEN Wanted(t)
             ELSE IF m = 1 THEN 0
             ELSE IF Before(t, g[m]) THEN m - 2 ELSE m - 1
  BY <1>4, <1>5
<1> QED
  BY <1>1, <1>2, <1>5, <1>8, <1>9, <1>10, <1>11, Zenon DEF Descends

(* A link is followed: the scan goes one table down the chain. *)
LEMMA DescendCall ==
  ASSUME NEW t, WellChained(t), NEW fr, IsScan(fr), NEW l, Descends(t, Wanted(t), fr, l),
         NEW m, m = Len(fr), fr[m].part_idx # Entries, NEW k, k = fr[m].part_idx + 1,
         k \in Links(t, fr[m].ext_lba), NEW lba,
         lba = IF m = 1 THEN Link(t, 0) ELSE Link(t, 0) + t[fr[m].ext_lba][k].start_lba
  PROVE  /\ lba \in LBAs \ {0} /\ l # LogicMax
         /\ Descends(t, Wanted(t), Append(StepOf(fr), Frame(lba)), l)
<1>1. PICK g : g = StepOf(fr)
  OBVIOUS
<1>a. PICK x : x = fr[m].ext_lba
  OBVIOUS
<1>2. PICK i \in Nat : i = fr[m].part_idx
  BY LastIs
<1>3. /\ m \in Nat \ {0} /\ IsScan(g) /\ Len(g) = m
      /\ g[m].part_idx = k /\ g[m].ext_lba = x
      /\ \A j \in 1 .. m - 1 : g[j] = fr[j]
      /\ k \in Nat /\ i = k - 1
  BY <1>1, <1>2, <1>a, StepIs, LastIs DEF Further
<1>b. (m = 1 \/ m > 1) /\ k \in Links(t, x)
  BY <1>3, <1>a
<1>e. m \in Nat /\ m > 0
  BY <1>3
<1>4. \A j \in Links(t, x) : j = k
  <2>1. CASE m = 1
    <3>1. x = 0
      BY <1>a, <2>1, LastIs
    <3> QED
      BY <1>b, <3>1, ChainIs, Zenon
  <2>2. CASE m > 1
    <3>1. m - 1 \in 1 .. Len(Chain(t)) /\ x = Chain(t)[m - 1]
      BY <1>a, <2>2, DescendsBelow
    <3>2. \A j, n \in Links(t, x) : j = n
      BY <3>1, TableIs
    <3> QED
      BY <1>b, <3>2, Zenon
  <2> QED
    BY <1>b, <2>1, <2>2, Zenon
<1>5. ~Past(t, fr[m])
  <2>1. ~(k <= i)
    BY <1>3
  <2> QED
    BY <1>2, <1>a, <1>4, <2>1, Zenon DEF Past
<1>c. m - 1 <= Wanted(t)
  BY Zenon DEF Descends
<1>6. /\ \A j \in 2 .. m : fr[j].ext_lba = Chain(t)[j - 1]
      /\ \A j \in 1 .. m - 1 : Past(t, fr[j])
      /\ m - 1 = LogicMax => Before(t, fr[m])
      /\ l = IF m = 1 THEN 0 ELSE IF Before(t, fr[m]) THEN m - 2 ELSE m - 1
  BY <1>5, Zenon DEF Descends
<1>7. m <= Wanted(t) /\ lba = Chain(t)[m] /\ l = m - 1
  <2>1. CASE m = 1
    <3>1. x = 0 /\ lba = Link(t, 0) /\ l = 0
      BY <1>6, <1>a, <2>1, LastIs
    <3>2. Len(Chain(t)) # 0 /\ Len(Chain(t)) \in Nat
      BY <1>b, <3>1, ChainIs
    <3>3. Chain(t)[1] = lba
      BY <3>1, <3>2, ChainIs
    <3> QED
      BY <2>1, <3>1, <3>2, <3>3, WantedIs
  <2>2. CASE m > 1
    <3>1. m - 1 \in 1 .. Len(Chain(t)) /\ x = Chain(t)[m - 1]
      BY <1>a, <2>2, DescendsBelow
    <3>2. PICK a \in 1 .. Entries : Simple(t, x) = {a} /\ \A j \in Links(t, x) : a < j
      BY <3>1, TablePart
    <3>3. ~Before(t, fr[m])
      <4>1. a < k
        BY <1>b, <3>2, Zenon
      <4>2. ~(i < a)
        BY <1>3, <4>1, PartitionsAssumption
      <4> QED
        BY <1>2, <1>a, <3>2, <4>2, Zenon DEF Before
    <3>4. m - 1 # Len(Chain(t)) /\ Len(Chain(t)) \in Nat
      <4>1. Links(t, x) # {} /\ (m - 1 = Len(Chain(t)) <=> Links(t, x) = {})
        BY <1>b, <3>1, TableIs
      <4> QED
        BY <4>1, ChainIs, Zenon
    <3>a. m - 1 < Len(Chain(t))
      BY <1>e, <3>1, <3>4
    <3>5. Chain(t)[m - 1 + 1] = Link(t, 0) + Link(t, x)
      BY <3>1, <3>a, TableIs
    <3>b. \A j, n \in Links(t, x) : j = n
      BY <1>4, Zenon
    <3>6. Link(t, x) = t[x][k].start_lba
      BY <1>b, <3>b, LinkIs
    <3>7. m - 1 + 1 = m /\ m # 1
      BY <1>e, <2>2
    <3>8. lba = Chain(t)[m]
      BY <1>a, <3>5, <3>6, <3>7
    <3>9. m - 1 # LogicMax /\ l = m - 1
      BY <1>6, <3>3, <3>7, Zenon
    <3>10. m <= Wanted(t)
      BY <1>3, <1>c, <3>1, <3>4, <3>9, WantedIs
    <3> QED
      BY <3>8, <3>9, <3>10
  <2> QED
    BY <1>b, <2>1, <2>2, Zenon
<1>8. m \in 1 .. Len(Chain(t)) /\ lba \in LBAs \ {0} /\ Simple(t, lba) # {}
  <2>1. m \in 1 .. Len(Chain(t))
    BY <1>3, <1>7, WantedIs
  <2>2. lba = Chain(t)[m]
    BY <1>7
  <2>3. lba \in LBAs \ {0}
    BY <2>1, <2>2, TableIs
  <2>4. \E a \in 1 .. Entries : Simple(t, lba) = {a}
    BY <2>1, <2>2, TablePart
  <2> QED
    BY <2>1, <2>3, <2>4
<1>9. PICK f : f = Frame(lba)
  OBVIOUS
<1>10. PICK h : h = Append(g, f)
  OBVIOUS
<1>f. PICK n : n = m + 1
  OBVIOUS
<1>11. /\ Len(h) = n /\ h[n] = f /\ \A j \in 1 .. m : h[j] = g[j]
       /\ f.ext_lba = lba /\ f.part_idx = 0
  <2>1. IsScan(g) /\ m = Len(g)
    BY <1>3
  <2>2. lba \in LBAs \ {0}
    BY <1>8
  <2>3. Len(h) = m + 1 /\ h[m + 1] = f
    BY <2>1, <2>2, <1>9, <1>10, CallIs
  <2>5. f.ext_lba = lba /\ f.part_idx = 0
    BY <1>9 DEF Frame
  <2>4. \A j \in 1 .. m : h[j] = g[j]
    BY <2>1, <2>2, <1>9, <1>10, CallIs
  <2> QED
    BY <2>3, <2>4, <2>5, <1>f
<1>12. ~Past(t, f) /\ Before(t, f)
  BY <1>8, <1>11, PastEnds, Zenon
<1>13. ASSUME NEW j \in 2 .. n PROVE h[j].ext_lba = Chain(t)[j - 1]
  <2>1. CASE j = n
    <3>1. j - 1 = m
      BY <1>e, <1>f, <2>1
    <3> QED
      BY <1>7, <1>11, <2>1, <3>1, Zenon
  <2>2. CASE j \in 2 .. m
    <3>1. g[j].ext_lba = fr[j].ext_lba
      <4>1. j = m \/ j \in 1 .. m - 1
        BY <1>e, <2>2
      <4> QED
        BY <1>3, <1>a, <4>1
    <3>2. j \in 1 .. m
      BY <1>e, <2>2
    <3> QED
      BY <1>6, <1>11, <2>2, <3>1, <3>2, Zenon
  <2>3. j = n \/ j \in 2 .. m
    BY <1>e, <1>f
  <2> QED
    BY <2>1, <2>2, <2>3, Zenon
<1>14. ASSUME NEW j \in 1 .. n - 1 PROVE Past(t, h[j])
  <2>1. CASE j = m
    <3>1. h[j] = g[m] /\ m \in 1 .. m
      BY <1>e, <1>11, <2>1
    <3>2. k <= g[m].part_idx /\ k \in Links(t, g[m].ext_lba)
      BY <1>3, <1>b
    <3> QED
      BY <3>1, <3>2, Zenon DEF Past
  <2>2. CASE j \in 1 .. m - 1
    <3>1. h[j] = fr[j]
      BY <1>3, <1>e, <1>11, <2>2
    <3> QED
      BY <1>6, <2>2, <3>1, Zenon
  <2>3. j = m \/ j \in 1 .. m - 1
    BY <1>e, <1>f
  <2> QED
    BY <2>1, <2>2, <2>3, Zenon
<1>15. n - 1 <= Wanted(t) /\ n # 1 /\ l = n - 2 /\ l # LogicMax
  BY <1>e, <1>f, <1>7, WantedIs
<1>16. Descends(t, Wanted(t), h, l)
  BY <1>11, <1>12, <1>13, <1>14, <1>15, Zenon DEF Descends
<1> QED
  BY <1>1, <1>8, <1>9, <1>10, <1>15, <1>16, Zenon

(* A table is done: the scan comes back past the link that led to it. *)
LEMMA DescendReturn ==
  ASSUME NEW t, WellChained(t), NEW fr, IsScan(fr), NEW l, Descends(t, Wanted(t), fr, l),
         NEW m, m = Len(fr), m > 1
  PROVE  Descends(t, Wanted(t), Front(fr), Wanted(t))
<1>1. PICK g : g = Front(fr)
  OBVIOUS
<1>2. PICK n : n = m - 1
  OBVIOUS
<1>3. m \in Nat
  BY LastIs
<1>4. Len(g) = n /\ \A j \in 1 .. n : g[j] = fr[j]
  BY <1>1, <1>2, ReturnIs
<1>5. /\ m - 1 <= Wanted(t)
      /\ \A j \in 2 .. m : fr[j].ext_lba = Chain(t)[j - 1]
      /\ \A j \in 1 .. m - 1 : Past(t, fr[j])
  BY Zenon DEF Descends
<1>6. \A j \in 1 .. n : Past(t, g[j])
  BY <1>2, <1>4, <1>5, Zenon
<1>7. /\ n \in 1 .. n /\ n - 1 <= Wanted(t) /\ n - 1 # LogicMax
      /\ \A j \in 1 .. n - 1 : j \in 1 .. n
      /\ \A j \in 2 .. n : j \in 1 .. n /\ j \in 2 .. m
  BY <1>2, <1>3, <1>5, WantedIs
<1>8. \A j \in 2 .. n : g[j].ext_lba = Chain(t)[j - 1]
  BY <1>4, <1>5, <1>7, Zenon
<1>9. Descends(t, Wanted(t), g, Wanted(t))
  BY <1>4, <1>6, <1>7, <1>8, Zenon DEF Descends
<1> QED
  BY <1>1, <1>9

FindsAt(t, fr, l, m, x, k) ==
  /\ l = m - 2 /\ x = Chain(t)[m - 1] /\ Simple(t, x) = {k}
  /\ l + 1 < LogicMax => Descends(t, Wanted(t), StepOf(fr), l + 1)
  /\ ~(l + 1 < LogicMax) => /\ l + 1 = LogicMax /\ Wanted(t) = LogicMax
                            /\ Descends(t, Wanted(t), Front(fr), l + 1)
(* The partition of a table of the chain: the next logical one. *)
LEMMA DescendFound ==
  ASSUME NEW t, WellChained(t), NEW fr, IsScan(fr), NEW l, Descends(t, Wanted(t), fr, l),
         NEW m, m = Len(fr), m > 1, fr[m].part_idx # Entries, NEW k, k = fr[m].part_idx + 1,
         NEW x, x = fr[m].ext_lba, k \in Simple(t, x)
  PROVE  FindsAt(t, fr, l, m, x, k)
<1>1. PICK g : g = StepOf(fr)
  OBVIOUS
<1>2. PICK i \in Nat : i = fr[m].part_idx
  BY LastIs
<1>3. /\ m \in Nat \ {0} /\ Len(g) = m
      /\ g[m].part_idx = k /\ g[m].ext_lba = x
      /\ \A j \in 1 .. m - 1 : g[j] = fr[j]
  BY <1>1, StepIs, LastIs DEF Further
<1>4. m \in Nat /\ k \in Nat /\ i = k - 1
  BY <1>2, <1>3
<1>5. m - 1 \in 1 .. Len(Chain(t)) /\ m - 1 <= Wanted(t) /\ x = Chain(t)[m - 1]
  BY DescendsBelow
<1>6. PICK a \in 1 .. Entries : Simple(t, x) = {a} /\ \A j \in Links(t, x) : a < j
  BY <1>5, TablePart
<1>7. a = k /\ \A j \in Links(t, x) : j \in Nat /\ k < j
  BY <1>6, PartitionsAssumption DEF Links
<1>8. ~Past(t, fr[m]) /\ Before(t, fr[m])
  <2>1. \A j \in Links(t, x) : ~(j <= i)
    BY <1>4, <1>7
  <2>2. i < k
    BY <1>4
  <2>3. ~Past(t, fr[m])
    BY <1>2, <2>1, Zenon DEF Past
  <2> QED
    BY <1>2, <2>2, <2>3, Zenon DEF Before
<1>9. ~Past(t, g[m]) /\ ~Before(t, g[m])
  <2>1. \A j \in Links(t, x) : ~(j <= k)
    BY <1>4, <1>7
  <2>2. ~(k < k) /\ \A j \in Simple(t, x) : j = k
    BY <1>4, <1>6, <1>7
  <2>3. ~Past(t, g[m])
    BY <1>3, <2>1, Zenon DEF Past
  <2> QED
    BY <1>3, <2>2, <2>3, Zenon DEF Before
<1>10. m # 1
  BY <1>4
<1>11. /\ \A j \in 2 .. m : fr[j].ext_lba = Chain(t)[j - 1]
       /\ \A j \in 1 .. m - 1 : Past(t, fr[j])
       /\ l = m - 2
  BY <1>8, <1>10, Zenon DEF Descends
<1>12. ASSUME l + 1 < LogicMax PROVE Descends(t, Wanted(t), g, l + 1)
  <2>1. l + 1 = m - 1 /\ m - 1 # LogicMax
    BY <1>4, <1>11, <1>12, PartitionsAssumption
  <2>2. \A j \in 1 .. m - 1 : Past(t, g[j])
    BY <1>3, <1>11, Zenon
  <2>3. ASSUME NEW j \in 2 .. m PROVE g[j].ext_lba = Chain(t)[j - 1]
    <3>1. j = m \/ j \in 1 .. m - 1
      BY <1>4
    <3>2. g[j].ext_lba = fr[j].ext_lba
      BY <1>3, <3>1
    <3> QED
      BY <1>11, <3>2, Zenon
  <2> QED
    BY <1>3, <1>5, <1>9, <1>10, <2>1, <2>2, <2>3, Zenon DEF Descends
<1>13. ASSUME ~(l + 1 < LogicMax)
       PROVE  l + 1 = LogicMax /\ Wanted(t) = LogicMax /\ Descends(t, Wanted(t), Front(fr), l + 1)
  <2>1. l + 1 = LogicMax /\ Wanted(t) = LogicMax
    BY <1>4, <1>5, <1>11, <1>13, WantedIs
  <2>2. Descends(t, Wanted(t), Front(fr), Wanted(t))
    BY DescendReturn
  <2> QED
    BY <2>1, <2>2
<1> QED
  BY <1>1, <1>5, <1>6, <1>7, <1>11, <1>12, <1>13 DEF FindsAt

(* A table that is done has given every partition that is wanted. *)
LEMMA DescendDone ==
  ASSUME NEW t, WellChained(t), NEW fr, IsScan(fr), NEW l, Descends(t, Wanted(t), fr, l),
         NEW m, m = Len(fr), fr[m].part_idx = Entries
  PROVE  l = Wanted(t)
<1>1. PICK x : x = fr[m].ext_lba
  OBVIOUS
<1>2. m \in Nat /\ m > 0 /\ (m = 1 <=> x = 0)
  BY <1>1, LastIs
<1>3. (Past(t, fr[m]) <=> Links(t, x) # {}) /\ ~Before(t, fr[m])
  BY <1>1, PastEnds, Zenon
<1>4. /\ m - 1 <= Wanted(t)
      /\ m - 1 # LogicMax
      /\ l = IF Past(t, fr[m]) THEN Wanted(t) ELSE IF m = 1 THEN 0 ELSE m - 1
  BY <1>3, Zenon DEF Descends
<1>5. CASE Past(t, fr[m])
  BY <1>4, <1>5, Zenon
<1>6. CASE ~Past(t, fr[m])
  <2>1. Links(t, x) = {} /\ l = (IF m = 1 THEN 0 ELSE m - 1)
    BY <1>3, <1>4, <1>6, Zenon
  <2>2. CASE m = 1
    <3>1. Len(Chain(t)) = 0
      BY <1>2, <2>1, <2>2, ChainIs
    <3> QED
      BY <2>1, <2>2, <3>1, WantedIs
  <2>3. CASE m > 1
    <3>1. m - 1 \in 1 .. Len(Chain(t)) /\ x = Chain(t)[m - 1]
      BY <1>1, <2>3, DescendsBelow
    <3>2. m - 1 = Len(Chain(t))
      BY <2>1, <3>1, TableIs
    <3> QED
      BY <1>2, <1>4, <2>1, <2>3, <3>2, WantedIs
  <2> QED
    BY <1>2, <2>2, <2>3
<1> QED
  BY <1>5, <1>6

(* With the base of another disk, the scan sees one table without entries. *)
LEMMA StraySkip ==
  ASSUME NEW t, NEW fr, IsScan(fr), NEW l, Strays(t, fr, l),
         NEW m, m = Len(fr), fr[m].part_idx # Entries
  PROVE  Strays(t, StepOf(fr), l)
<1>1. PICK g : g = StepOf(fr)
  OBVIOUS
<1>2. /\ m \in Nat \ {0} /\ Len(g) = m
      /\ g[m].ext_lba = fr[m].ext_lba
      /\ \A j \in 1 .. m - 1 : g[j] = fr[j]
  BY <1>1, StepIs, LastIs DEF Further
<1>3. CASE m = 1
  BY <1>1, <1>2, <1>3, Zenon DEF Strays
<1>4. CASE m # 1
  <2>1. m = 2 /\ Past(t, fr[1]) /\ Links(t, fr[2].ext_lba) = {} /\ Simple(t, fr[2].ext_lba) = {} /\ l = 0
    BY <1>4, Zenon DEF Strays
  <2>2. g[1] = fr[1] /\ g[2].ext_lba = fr[2].ext_lba
    BY <1>2, <2>1
  <2> QED
    BY <1>1, <1>2, <2>1, <2>2, Zenon DEF Strays
<1> QED
  BY <1>3, <1>4

(* The base of another disk leads to a sector without a table. *)
LEMMA StrayCall ==
  ASSUME NEW t, NEW fr, IsScan(fr), NEW l, Strays(t, fr, l),
         NEW m, m = Len(fr), fr[m].part_idx # Entries, NEW k, k = fr[m].part_idx + 1,
         k \in Links(t, fr[m].ext_lba), NEW lba \in LBAs \ {0}, Links(t, lba) = {}, Simple(t, lba) = {}
  PROVE  m = 1 /\ l = 0 /\ Strays(t, Append(StepOf(fr), Frame(lba)), l)
<1>1. m = 1 /\ l = 0
  <2>1. m # 1 => m = 2 /\ Links(t, fr[2].ext_lba) = {}
    BY Zenon DEF Strays
  <2>2. m = 2 => Links(t, fr[2].ext_lba) # {}
    OBVIOUS
  <2>3. l = 0
    BY DEF Strays
  <2> QED
    BY <2>1, <2>2, <2>3, Zenon
<1>2. PICK g : g = StepOf(fr)
  OBVIOUS
<1>3. IsScan(g) /\ m = Len(g) /\ g[m].part_idx = k /\ g[m].ext_lba = fr[m].ext_lba
  BY <1>2, StepIs DEF Further
<1>4. k \in Links(t, g[m].ext_lba) /\ k <= g[m].part_idx
  <2>1. k \in Nat
    BY PartitionsAssumption DEF Links
  <2>2. k <= k
    BY <2>1
  <2> QED
    BY <1>3, <2>2, Zenon
<1>5. PICK f : f = Frame(lba)
  OBVIOUS
<1>6. PICK h : h = Append(g, f)
  OBVIOUS
<1>7. Len(h) = 2 /\ h[2] = f /\ h[1] = g[1]
  <2>1. Len(h) = m + 1 /\ h[m + 1] = f /\ \A j \in 1 .. m : h[j] = g[j]
    BY <1>3, <1>5, <1>6, CallIs
  <2> QED
    BY <1>1, <2>1
<1>8. f.ext_lba = lba
  BY <1>5 DEF Frame
<1>9. Past(t, h[1])
  BY <1>1, <1>4, <1>7, Zenon DEF Past
<1> QED
  BY <1>1, <1>2, <1>5, <1>6, <1>7, <1>8, <1>9, Zenon DEF Strays

(* From that sector the scan comes back. *)
LEMMA StrayReturn ==
  ASSUME NEW t, NEW fr, IsScan(fr), NEW l, Strays(t, fr, l), NEW m, m = Len(fr), m > 1
  PROVE  Strays(t, Front(fr), l)
<1>1. m = 2 /\ l = 0
  <2>1. m # 1
    OBVIOUS
  <2> QED
    BY <2>1, Zenon DEF Strays
<1>2. Len(Front(fr)) = 1
  <2>1. Len(Front(fr)) = m - 1
    BY ReturnIs
  <2> QED
    BY <1>1, <2>1
<1> QED
  BY <1>1, <1>2 DEF Strays

-----------------------------------------------------------------------------

(* What depends on the tables alone. *)
SameTables ==
  /\ DOMAIN disk' = DOMAIN disk /\ channel_cnt' = channel_cnt
  /\ \A c \in DOMAIN disk : Tables(c)' = Tables(c)

(* Steps that change no table change nothing that the tables say. *)
LEMMA TablesSay ==
  ASSUME BootTypes, SameTables
  PROVE  /\ Disks' = Disks
         /\ \A c \in DOMAIN disk :
              /\ HasExtended(c)' = HasExtended(c) /\ Base(c)' = Base(c)
              /\ Primary(c)' = Primary(c) /\ Logical(c)' = Logical(c) /\ Readable(c)' = Readable(c)
              /\ Full(c)' = Full(c) /\ Misled(c)' = Misled(c) /\ Count(c)' = Count(c)
<1>1. Disks' = Disks /\ Disks = DOMAIN disk
  BY DisksAre DEF SameTables, Disks
<1>2. ASSUME NEW c \in DOMAIN disk
      PROVE  /\ HasExtended(c)' = HasExtended(c) /\ Base(c)' = Base(c)
             /\ Primary(c)' = Primary(c) /\ Logical(c)' = Logical(c)
  <2>1. Tables(c)' = Tables(c)
    BY DEF SameTables
  <2>2. HasExtended(c)' = HasExtended(c) /\ Base(c)' = Base(c)
    BY <2>1 DEF HasExtended, Base
  <2> QED
    BY <2>1, <2>2, Zenon DEF Primary, Logical
<1>3. ASSUME NEW c \in DOMAIN disk
      PROVE  Readable(c)' = Readable(c) /\ Full(c)' = Full(c) /\ Misled(c)' = Misled(c)
  <2>1. Readable(c)' = Readable(c)
    BY <1>2, Zenon DEF Readable
  <2>2. Full(c)' = Full(c)
    BY <1>2, Zenon DEF Full
  <2>3. \A e \in Disks : HasExtended(e)' = HasExtended(e)
    BY <1>1, <1>2
  <2>4. Misled(c)' = Misled(c)
    BY <1>1, <1>2, <2>3, Zenon DEF Misled
  <2> QED
    BY <2>1, <2>2, <2>4
<1>4. ASSUME NEW c \in DOMAIN disk PROVE Count(c)' = Count(c)
  BY <1>3, Zenon DEF Count, SameTables
<1> QED
  BY <1>1, <1>2, <1>3, <1>4

(* A step that writes to no disk changes no table. *)
LEMMA DiskSays ==
  ASSUME BootTypes, UNCHANGED <<disk, channel_cnt>> PROVE SameTables
BY DEF SameTables, Tables, Table

(* The disk that is scanned. *)
LEMMA ScanIs ==
  ASSUME BootTypes, ScanInv, phase = "scan", NEW c, c = channel_no
  PROVE  /\ c \in DOMAIN disk /\ c \in Nat /\ c \in Channels /\ WellChained(Tables(c))
         /\ Count(c) = IF Misled(c) THEN 0 ELSE Wanted(Tables(c))
         /\ Scanning
<1>1. Scanning /\ c < channel_cnt
  BY DEF ScanInv, Scanning
<1>2. channel_cnt \in Nat /\ DOMAIN disk = 0 .. channel_cnt - 1 /\ c \in 0 .. channel_cnt
  BY DEF BootTypes
<1>3. c \in DOMAIN disk /\ c \in Nat
  BY <1>1, <1>2
<1>4. c \in Channels /\ Partitioned(c)
  BY <1>3 DEF BootTypes
<1> QED
  BY <1>1, <1>3, <1>4, Zenon DEF Partitioned, Count

(* The entry the scan looks at. *)
LEMMA EntryIs ==
  ASSUME BootTypes, ScanInv, AtEntry, NEW c, c = channel_no, NEW m, m = Len(frames),
         NEW x, x = frames[m].ext_lba, NEW k, k = frames[m].part_idx + 1
  PROVE  /\ x \in LBAs /\ k \in 1 .. Entries /\ frames[m].part_idx # Entries
         /\ Top = frames[m] /\ Entry = Tables(c)[x][k]
         /\ Entry \in [fs_type : Nat, start_lba : Nat, sec_cnt : Nat]
         /\ k \in Links(Tables(c), x) <=> Entry.fs_type = Extended
         /\ k \in Simple(Tables(c), x) <=> Entry.fs_type \notin {0, Extended}
<1>1. phase = "scan" /\ Top.part_idx < Entries
  BY DEF AtEntry
<1>2. c \in DOMAIN disk /\ WellChained(Tables(c)) /\ IsScan(frames)
  BY <1>1, ScanIs DEF Scanning
<1>3. Top = frames[m] /\ x \in LBAs /\ frames[m].part_idx \in 0 .. Entries
  BY <1>2, LastIs DEF Top
<1>4. k \in 1 .. Entries /\ frames[m].part_idx # Entries
  BY <1>1, <1>3, PartitionsAssumption
<1>5. Tables(c)[x] = Table(c, x)
  BY <1>3 DEF Tables
<1>6. Entry = Tables(c)[x][k]
  BY <1>3, <1>5 DEF Entry
<1>7. Tables(c) \in [LBAs -> [1 .. Entries -> [fs_type : Nat, start_lba : Nat, sec_cnt : Nat]]]
  BY <1>2 DEF WellChained
<1>8. Entry \in [fs_type : Nat, start_lba : Nat, sec_cnt : Nat]
  BY <1>3, <1>4, <1>6, <1>7
<1>9. /\ k \in Links(Tables(c), x) <=> Entry.fs_type = Extended
      /\ k \in Simple(Tables(c), x) <=> Entry.fs_type \notin {0, Extended}
  BY <1>4, <1>6, Zenon DEF Links, Simple
<1> QED
  BY <1>3, <1>4, <1>6, <1>8, <1>9

(* The partitions have the types of struct partition. *)
LEMMA PartsAre ==
  ASSUME BootTypes, NEW c \in DOMAIN disk, NEW t, t = Tables(c)
  PROVE  /\ \A i \in Simple(t, 0) : PrimaryAt(c, t, i) \in Parts
         /\ \A i \in 1 .. Len(Chain(t)) : LogicalAt(c, t, i) \in Parts
<1>1. c \in Channels /\ WellChained(t)
  BY DEF BootTypes, Partitioned
<1>2. t \in [LBAs -> [1 .. Entries -> [fs_type : Nat, start_lba : Nat, sec_cnt : Nat]]]
  BY <1>1 DEF WellChained
<1>3. ASSUME NEW no \in Nat, NEW lba \in Nat, NEW e \in [fs_type : Nat, start_lba : Nat, sec_cnt : Nat]
      PROVE  Partition(c, no, lba, e) \in Parts
  BY <1>1, <1>3 DEF Partition, Parts
<1>4. ASSUME NEW i \in Simple(t, 0) PROVE PrimaryAt(c, t, i) \in Parts
  <2>0. Rank(t, i) \in Nat
    BY RankIs
  <2>1. i \in 1 .. Entries /\ Rank(t, i) \in Nat
    BY <2>0 DEF Simple
  <2>2. t[0][i] \in [fs_type : Nat, start_lba : Nat, sec_cnt : Nat]
    BY <1>2, <2>1, PartitionsAssumption
  <2> QED
    BY <1>3, <2>1, <2>2 DEF PrimaryAt
<1>5. ASSUME NEW i \in 1 .. Len(Chain(t)) PROVE LogicalAt(c, t, i) \in Parts
  <2>1. PICK x : x = Chain(t)[i]
    OBVIOUS
  <2>2. PICK a \in 1 .. Entries : Simple(t, x) = {a}
    BY <1>1, <2>1, TablePart
  <2>3. Min(Simple(t, x)) = a
    BY <2>2, ShortOf
  <2>4. x \in LBAs
    BY <1>1, <2>1, TableIs
  <2>5. t[x][a] \in [fs_type : Nat, start_lba : Nat, sec_cnt : Nat] /\ x \in Nat /\ i + 4 \in Nat
    BY <1>2, <2>2, <2>4, PartitionsAssumption
  <2>6. LogicalAt(c, t, i) = Partition(c, i + 4, x, t[x][a])
    BY <2>1, <2>3, Zenon DEF LogicalAt
  <2> QED
    BY <1>3, <2>5, <2>6
<1> QED
  BY <1>4, <1>5

(* Tables whose buffer is kept. *)
LEMMA KeptFinite ==
  ASSUME BootTypes, NEW n PROVE IsFiniteSet(Kept(n)) /\ Cardinality(Kept(n)) \in Nat
<1>1. IsFiniteSet(DOMAIN disk)
  <2>1. DOMAIN disk = 0 .. channel_cnt - 1 /\ channel_cnt - 1 \in Int /\ 0 \in Int
    BY DEF BootTypes
  <2> QED
    BY <2>1, FS_Interval
<1>2. Kept(n) \subseteq DOMAIN disk
  BY DEF Kept
<1> QED
  BY <1>1, <1>2, FS_Subset, FS_CardinalityType

(* A step of the scan that stays on the disk. *)
LEMMA ScanStays ==
  ASSUME BootTypes, ScanInv, phase = "scan", phase' = "scan", NEW c, c = channel_no,
         UNCHANGED <<disk, channel_cnt, channel_no>>,
         \A d \in DOMAIN disk \ {c} :
           prim_parts'[d] = prim_parts[d] /\ logic_parts'[d] = logic_parts[d],
         Scanning', Listed',
         buffers' = Len(frames') + Cardinality(Kept(c)) + (IF l_no' = LogicMax THEN 1 ELSE 0),
         BaseIs'
  PROVE  ScanInv'
<1>1. SameTables /\ DOMAIN disk \subseteq Nat /\ c \in DOMAIN disk
  BY DiskSays, DisksAre, ScanIs
<1>2. \A d \in DOMAIN disk :
        Tables(d)' = Tables(d) /\ Count(d)' = Count(d) /\ Misled(d)' = Misled(d) /\ Full(d)' = Full(d)
  BY <1>1, TablesSay DEF SameTables
<1>3. Kept(c)' = Kept(c)
  BY <1>1, <1>2 DEF Kept, SameTables
<1>4. ASSUME NEW d \in DOMAIN disk, d # c PROVE (Scanned(d) => Scanned(d)') /\ (Untouched(d) => Untouched(d)')
  BY <1>2, <1>4 DEF Scanned, Untouched
<1>5. /\ \A d \in DOMAIN disk : d < channel_no => Scanned(d)
      /\ \A d \in DOMAIN disk : d > channel_no \/ (d = channel_no /\ phase = "probe") => Untouched(d)
  BY Zenon DEF ScanInv
<1>6. \A d \in DOMAIN disk : d < c \/ d > c => d # c
  BY <1>1
<1>7. /\ \A d \in DOMAIN disk' : d < channel_no' => Scanned(d)'
      /\ \A d \in DOMAIN disk' : d > channel_no' \/ (d = channel_no' /\ phase' = "probe") => Untouched(d)'
  BY <1>4, <1>5, <1>6
<1> QED
  BY <1>3, <1>7 DEF ScanInv

(* The base changes with the first link of a disk only. *)
LEMMA BaseStays ==
  ASSUME BootTypes, SameTables, BaseIs, UNCHANGED ext_lba_base, Seen1' = Seen1
  PROVE  BaseIs'
<1>1. Seen1 = {} => ext_lba_base' = 0
  BY DEF BaseIs
<1>2. ASSUME NEW c \in Seen1, ext_lba_base = Base(c), \A d \in Seen1 : c <= d
      PROVE  ext_lba_base' = Base(c)'
  <2>1. c \in DOMAIN disk
    BY DEF Seen1
  <2> QED
    BY <1>2, <2>1, TablesSay
<1>3. Seen1 # {} => \E c \in Seen1 : ext_lba_base' = Base(c)' /\ \A d \in Seen1 : c <= d
  BY <1>2, Zenon DEF BaseIs
<1> QED
  BY <1>1, <1>3, Zenon DEF BaseIs

(* An entry that is no link adds nothing to the extended partitions that   *)
(* have been seen.                                                         *)
LEMMA SeenStays ==
  ASSUME BootTypes, SameTables, phase = "scan", phase' = "scan", UNCHANGED channel_no,
         NEW c, c = channel_no, Past(Tables(c), frames[1])' <=> Past(Tables(c), frames[1])
  PROVE  Seen1' = Seen1
<1>1. DOMAIN disk' = DOMAIN disk /\ \A d \in DOMAIN disk : HasExtended(d)' = HasExtended(d)
  BY TablesSay DEF SameTables
<1>2. Past(Tables(channel_no), frames[1])' <=> Past(Tables(channel_no), frames[1])
  BY Zenon
<1> QED
  BY <1>1, <1>2, Zenon DEF Seen1

(* An entry of no kind changes nothing but the place in the table. *)
LEMMA EmptyKeeps ==
  ASSUME BootTypes, ScanInv, scan_empty PROVE ScanInv'
<1>a. PICK c : c = channel_no
  OBVIOUS
<1>b. PICK t : t = Tables(c)
  OBVIOUS
<1>c. PICK m : m = Len(frames)
  OBVIOUS
<1>d. PICK x : x = frames[m].ext_lba
  OBVIOUS
<1>e. PICK k : k = frames[m].part_idx + 1
  OBVIOUS
<1>f. PICK g : g = StepOf(frames)
  OBVIOUS
<1>1. /\ AtEntry /\ Entry.fs_type = 0 /\ phase = "scan" /\ phase' = "scan"
      /\ UNCHANGED <<disk, channel_cnt, channel_no, ext_lba_base, prim_parts, logic_parts,
                     partition_list, p_no, l_no, buffers>>
      /\ frames' = g
  BY <1>f DEF scan_empty, AtEntry, Seen, Top, StepOf
<1>2. /\ c \in DOMAIN disk /\ WellChained(t) /\ Scanning
      /\ SameTables /\ t = Tables(c)' /\ Misled(c)' = Misled(c)
  BY <1>1, <1>a, <1>b, ScanIs, DiskSays, TablesSay DEF SameTables
<1>3. /\ IsScan(frames) /\ PrimIs(prim_parts[c], c, t, frames[1].part_idx)
      /\ IF Misled(c) THEN Strays(t, frames, l_no) ELSE Descends(t, Wanted(t), frames, l_no)
  BY <1>2, <1>a, <1>b, Zenon DEF Scanning
<1>4. /\ k \notin Links(t, x) /\ k \notin Simple(t, x) /\ frames[m].part_idx # Entries
      /\ k \in 1 .. Entries
  <2>1. Entry.fs_type # Extended
    BY <1>1 DEF Extended
  <2> QED
    BY <1>1, <1>a, <1>b, <1>c, <1>d, <1>e, <2>1, EntryIs
<1>5. /\ IsScan(g) /\ Len(g) = m /\ Further(frames[m], g[m])
      /\ \A j \in 1 .. m - 1 : g[j] = frames[j]
      /\ m \in Nat \ {0} /\ (m = 1 <=> x = 0) /\ frames[m].part_idx \in Nat
  BY <1>3, <1>4, <1>c, <1>d, <1>f, StepIs, LastIs
<1>6. IF Misled(c) THEN Strays(t, g, l_no) ELSE Descends(t, Wanted(t), g, l_no)
  <2>1. CASE Misled(c)
    BY <1>3, <1>4, <1>c, <1>f, <2>1, StraySkip, Zenon
  <2>2. CASE ~Misled(c)
    BY <1>2, <1>3, <1>4, <1>c, <1>d, <1>e, <1>f, <2>2, DescendSkip
  <2> QED
    BY <2>1, <2>2, Zenon
<1>7. PrimIs(prim_parts[c], c, t, g[1].part_idx) /\ (Past(t, g[1]) <=> Past(t, frames[1]))
  <2>1. CASE m = 1
    <3>1. x = 0 /\ frames[1].part_idx = k - 1 /\ g[1].part_idx = k /\ k - 1 + 1 = k /\ k - 1 \in 0 .. Entries - 1
      <4>1. PICK i : i = frames[m].part_idx
        OBVIOUS
      <4>2. i \in Nat /\ k = i + 1 /\ x = 0
        BY <1>5, <1>e, <2>1, <4>1
      <4>3. g[m].part_idx = i + 1
        BY <1>5, <4>1, Zenon DEF Further
      <4>4. k - 1 = i /\ k - 1 + 1 = k /\ k - 1 \in 0 .. Entries - 1
        BY <1>4, <4>2, PartitionsAssumption
      <4> QED
        BY <2>1, <4>1, <4>2, <4>3, <4>4
    <3>2. PrimIs(prim_parts[c], c, t, k - 1 + 1)
      BY <1>3, <1>4, <3>1, PrimSkip
    <3>3. frames[1].part_idx \in Nat /\ Further(frames[1], g[1]) /\ x = frames[1].ext_lba
      BY <1>5, <1>d, <2>1, <3>1
    <3>4. Past(t, g[1]) <=> Past(t, frames[1]) \/ g[1].part_idx \in Links(t, frames[1].ext_lba)
      BY <3>3, PastStep, Zenon
    <3> QED
      BY <1>4, <3>1, <3>2, <3>3, <3>4, Zenon
  <2>2. CASE m # 1
    <3>1. g[1] = frames[1]
      BY <1>5, <2>2
    <3> QED
      BY <1>3, <3>1
  <2> QED
    BY <2>1, <2>2
<1>8. Scanning'
  BY <1>1, <1>2, <1>5, <1>6, <1>7, <1>a, <1>b, Zenon DEF Scanning
<1>9. BaseIs'
  <2>1. Past(Tables(c), frames[1])' <=> Past(Tables(c), frames[1])
    BY <1>1, <1>2, <1>7, <1>b, Zenon
  <2>2. BaseIs
    BY <1>1 DEF ScanInv
  <2> QED
    BY <1>1, <1>2, <1>a, <2>1, <2>2, SeenStays, BaseStays
<1>10. Listed'
  BY <1>1 DEF ScanInv, Listed
<1>11. buffers' = Len(frames') + Cardinality(Kept(c)) + (IF l_no' = LogicMax THEN 1 ELSE 0)
  BY <1>1, <1>5, <1>a, <1>c DEF ScanInv
<1> QED
  BY <1>1, <1>8, <1>9, <1>10, <1>11, <1>a, ScanStays

(* The base of a disk is the sector of the first table of its chain. *)
LEMMA BaseIn ==
  ASSUME BootTypes, NEW c \in DOMAIN disk, HasExtended(c)
  PROVE  Base(c) \in LBAs \ {0} /\ Base(c) \in Nat /\ Base(c) # 0
<1>1. PICK t : t = Tables(c)
  OBVIOUS
<1>2. WellChained(t) /\ Links(t, 0) # {} /\ Base(c) = Link(t, 0)
  BY <1>1, Zenon DEF BootTypes, Partitioned, HasExtended, Base
<1>3. PICK s : s = Chain(t)
  OBVIOUS
<1>4. s \in Seq(LBAs \ {0}) /\ Len(s) \in Nat /\ Len(s) # 0 /\ (Len(s) > 0 => s[1] = Link(t, 0))
  BY <1>2, <1>3, ChainIs
<1>5. s[1] = Link(t, 0) /\ s[1] \in LBAs \ {0}
  BY <1>4
<1> QED
  BY <1>2, <1>5, PartitionsAssumption

(* Where a link leads: with no base yet, or one of the same disk, to the   *)
(* next table; with the base of another disk, to where there is none.      *)
Leads(c, t, m, e, y) ==
  /\ HasExtended(c) /\ ext_lba_base \in Nat
  /\ Misled(c) => /\ m = 1 /\ y \in LBAs \ {0}
                  /\ Links(t, y) = {} /\ Simple(t, y) = {}
  /\ ~Misled(c) => y = IF m = 1 THEN Link(t, 0) ELSE Link(t, 0) + e
  /\ ext_lba_base = 0 <=> Seen1 = {}
  /\ Seen1 = {} => e = Base(c)
(* Where a link leads, with the base the scan has. *)
LEMMA LinkLeads ==
  ASSUME BootTypes, ScanInv, phase = "scan", NEW c, c = channel_no, NEW t, t = Tables(c),
         NEW m, m = Len(frames), NEW x, x = frames[m].ext_lba,
         NEW k, k = frames[m].part_idx + 1, k \in Links(t, x), NEW e, e = t[x][k].start_lba, e \in Nat,
         NEW y, y = e + ext_lba_base
  PROVE  Leads(c, t, m, e, y)
<1>1. /\ c \in DOMAIN disk /\ c \in Nat /\ WellChained(t) /\ IsScan(frames)
      /\ IF Misled(c) THEN Strays(t, frames, l_no) ELSE Descends(t, Wanted(t), frames, l_no)
  BY ScanIs, Zenon DEF Scanning
<1>2. m \in Nat \ {0} /\ (m = 1 <=> x = 0) /\ frames[1].ext_lba = 0
  BY <1>1, LastIs DEF IsScan
<1>3. ASSUME Misled(c) PROVE m = 1
  <2>1. Len(frames) = 1 \/ (Len(frames) = 2 /\ Links(t, frames[2].ext_lba) = {})
    BY <1>1, <1>3, Zenon DEF Strays
  <2> QED
    BY <2>1
<1>4. ASSUME ~Misled(c), m # 1 PROVE Past(t, frames[1])
  <2>1. \A j \in 1 .. m - 1 : Past(t, frames[j])
    BY <1>1, <1>4, Zenon DEF Descends
  <2>2. 1 \in 1 .. m - 1
    BY <1>2, <1>4
  <2> QED
    BY <2>1, <2>2
<1>5. HasExtended(c) /\ Links(t, 0) # {} /\ (m = 1 => e = Link(t, 0) /\ e = Base(c)) /\ Base(c) = Link(t, 0)
  <2>1. Past(t, frames[1]) => Links(t, 0) # {}
    BY <1>2, Zenon DEF Past
  <2>2. m = 1 => Links(t, 0) # {}
    BY <1>2
  <2>3. Links(t, 0) # {}
    BY <1>3, <1>4, <2>1, <2>2, Zenon
  <2>4. ASSUME m = 1 PROVE e = Link(t, 0)
    <3>1. x = 0 /\ \A i, j \in Links(t, 0) : i = j
      BY <1>1, <1>2, <2>4, ChainIs
    <3>2. Link(t, x) = t[x][k].start_lba
      BY <3>1, LinkIs
    <3> QED
      BY <3>1, <3>2
  <2> QED
    BY <2>3, <2>4, Zenon DEF HasExtended, Base
<1>6. \A d \in DOMAIN disk : HasExtended(d) => Base(d) \in LBAs \ {0} /\ Base(d) \in Nat /\ Base(d) # 0
  BY BaseIn
<1>7. Disks = DOMAIN disk /\ DOMAIN disk \subseteq Nat
  BY DisksAre
<1>8. Misled(c) <=> \E d \in DOMAIN disk : d < c /\ HasExtended(d)
  BY <1>5, <1>7, Zenon DEF Misled
<1>9. \A d : d \in Seen1 <=> d \in DOMAIN disk /\ HasExtended(d) /\ (d < c \/ (d = c /\ Past(t, frames[1])))
  BY Zenon DEF Seen1
<1>10. /\ Seen1 = {} => ext_lba_base = 0
       /\ Seen1 # {} => \E d \in Seen1 : ext_lba_base = Base(d) /\ \A i \in Seen1 : d <= i
  BY DEF ScanInv, BaseIs
<1>11. ext_lba_base \in Nat /\ (ext_lba_base = 0 <=> Seen1 = {})
  <2>1. CASE Seen1 = {}
    BY <1>10, <2>1
  <2>2. CASE Seen1 # {}
    <3>1. PICK d \in Seen1 : ext_lba_base = Base(d)
      BY <1>10, <2>2
    <3>2. Base(d) \in Nat /\ Base(d) # 0
      BY <1>6, <1>9, Zenon
    <3> QED
      BY <2>2, <3>1, <3>2
  <2> QED
    BY <2>1, <2>2
<1>12. CASE Misled(c)
  <2>1. PICK f \in DOMAIN disk : f < c /\ HasExtended(f)
    BY <1>8, <1>12
  <2>2. f \in Seen1
    BY <1>9, <2>1, Zenon
  <2>3. PICK d \in Seen1 : ext_lba_base = Base(d) /\ \A i \in Seen1 : d <= i
    BY <1>10, <2>2
  <2>4. d \in DOMAIN disk /\ HasExtended(d) /\ d <= f
    BY <1>9, <2>2, <2>3, Zenon
  <2>5. d < c
    BY <1>1, <1>7, <2>1, <2>4
  <2>6. Partitioned(c)
    BY <1>1 DEF BootTypes
  <2>7. Base(c) + Base(d) \in LBAs /\ disk[c][Base(c) + Base(d)].kind # "table"
    BY <1>5, <1>7, <2>4, <2>5, <2>6, Zenon DEF Partitioned
  <2>9. y # 0 /\ y \in LBAs /\ disk[c][y].kind # "table"
    <3>1. Base(c) \in Nat /\ Base(c) # 0 /\ Base(d) \in Nat
      BY <1>1, <1>5, <1>6, <2>4
    <3>2. e = Base(c)
      BY <1>3, <1>5, <1>12
    <3>3. y = Base(c) + Base(d)
      BY <2>3, <3>2
    <3>4. y # 0
      BY <3>1, <3>3
    <3> QED
      BY <2>7, <3>3, <3>4
  <2>10. t[y] = [i \in 1 .. Entries |-> Unused]
    BY <2>9, Zenon DEF Tables, Table
  <2>11. \A i \in 1 .. Entries : t[y][i].fs_type = 0
    BY <2>10 DEF Unused
  <2>12. Links(t, y) = {} /\ Simple(t, y) = {}
    BY <2>11, NoEntries
  <2> QED
    BY <1>3, <1>5, <1>11, <1>12, <2>2, <2>9, <2>12 DEF Leads
<1>13. CASE ~Misled(c)
  <2>1. \A d \in Seen1 : d = c /\ Past(t, frames[1])
    BY <1>8, <1>9, <1>13, Zenon
  <2>2. CASE m = 1
    <3>1. ~Past(t, frames[1])
      <4>1. x = 0 /\ \A i, j \in Links(t, 0) : i = j
        BY <1>1, <1>2, <2>2, ChainIs
      <4>2. frames[m].part_idx \in Nat
        BY <1>1, LastIs
      <4>3. ~(k <= frames[m].part_idx)
        BY <4>2
      <4>4. ~(k <= frames[1].part_idx)
        BY <2>2, <4>3
      <4>5. \A i \in Links(t, frames[1].ext_lba) : i = k
        BY <1>2, <4>1
      <4> QED
        BY <4>4, <4>5, Zenon DEF Past
    <3>2. Seen1 = {} /\ ext_lba_base = 0
      BY <1>10, <2>1, <3>1
    <3> QED
      BY <1>5, <1>11, <1>13, <2>2, <3>2 DEF Leads
  <2>3. CASE m # 1
    <3>1. c \in Seen1
      BY <1>1, <1>4, <1>5, <1>9, <1>13, <2>3, Zenon
    <3>2. ext_lba_base = Link(t, 0) /\ Link(t, 0) \in Nat
      BY <1>1, <1>5, <1>6, <1>10, <2>1, <3>1
    <3> QED
      BY <1>5, <1>11, <1>13, <2>3, <3>1, <3>2 DEF Leads
  <2> QED
    BY <2>2, <2>3
<1> QED
  BY <1>12, <1>13

(* The link of sector 0 adds the disk to those whose extended partition    *)
(* has been seen.                                                          *)
LEMMA SeenGrows ==
  ASSUME BootTypes, SameTables, phase = "scan", phase' = "scan", UNCHANGED channel_no,
         NEW c \in DOMAIN disk, c = channel_no, HasExtended(c), Past(Tables(c), frames[1])'
  PROVE  Seen1' = Seen1 \cup {c} /\ \A d \in Seen1 : d \in DOMAIN disk /\ d <= c
<1>1. /\ DOMAIN disk' = DOMAIN disk /\ DOMAIN disk \subseteq Nat
      /\ \A d \in DOMAIN disk : HasExtended(d)' = HasExtended(d)
  BY TablesSay, DisksAre DEF SameTables
<1>2. \A d : d \in Seen1 <=> d \in DOMAIN disk /\ HasExtended(d) /\ (d < c \/ (d = c /\ Past(Tables(c), frames[1])))
  BY Zenon DEF Seen1
<1>3. \A d : d \in Seen1' <=> d \in DOMAIN disk /\ HasExtended(d) /\ (d < c \/ d = c)
  BY <1>1, Zenon DEF Seen1
<1>4. \A d : d \in Seen1' <=> d \in Seen1 \/ d = c
  BY <1>2, <1>3, Zenon
<1>5. Seen1' = Seen1 \cup {c}
  BY <1>4
<1>6. \A d \in Seen1 : d \in DOMAIN disk /\ (d < c \/ d = c)
  BY <1>2, Zenon
<1> QED
  BY <1>1, <1>5, <1>6

(* A link: the scan goes on in the table it leads to. *)
LEMMA ExtendedKeeps ==
  ASSUME BootTypes, ScanInv, scan_extended PROVE ScanInv'
<1>a. PICK c : c = channel_no
  OBVIOUS
<1>b. PICK t : t = Tables(c)
  OBVIOUS
<1>c. PICK m : m = Len(frames)
  OBVIOUS
<1>d. PICK x : x = frames[m].ext_lba
  OBVIOUS
<1>e. PICK k : k = frames[m].part_idx + 1
  OBVIOUS
<1>f. PICK g : g = StepOf(frames)
  OBVIOUS
<1>g. PICK e : e = Entry.start_lba
  OBVIOUS
<1>h. PICK y : y = e + ext_lba_base
  OBVIOUS
<1>i. PICK f : f = Frame(y)
  OBVIOUS
<1>j. PICK h : h = Append(g, f)
  OBVIOUS
<1>1. /\ AtEntry /\ Entry.fs_type = Extended /\ phase = "scan" /\ phase' = "scan"
      /\ UNCHANGED <<disk, channel_cnt, channel_no, prim_parts, logic_parts,
                     partition_list, p_no, l_no>>
      /\ frames' = h /\ buffers' = buffers + 1
      /\ ext_lba_base' = IF ext_lba_base = 0 THEN e ELSE ext_lba_base
  BY <1>f, <1>g, <1>h, <1>i, <1>j, Zenon DEF scan_extended, AtEntry, Seen, Top, StepOf
<1>2. /\ c \in DOMAIN disk /\ WellChained(t) /\ Scanning
      /\ SameTables /\ t = Tables(c)' /\ Misled(c)' = Misled(c) /\ Base(c)' = Base(c)
  BY <1>1, <1>a, <1>b, ScanIs, DiskSays, TablesSay DEF SameTables
<1>3. /\ IsScan(frames) /\ PrimIs(prim_parts[c], c, t, frames[1].part_idx)
      /\ IF Misled(c) THEN Strays(t, frames, l_no) ELSE Descends(t, Wanted(t), frames, l_no)
  BY <1>2, <1>a, <1>b, Zenon DEF Scanning
<1>4. /\ k \in Links(t, x) /\ frames[m].part_idx # Entries /\ k \in 1 .. Entries
      /\ e = t[x][k].start_lba /\ e \in Nat
  BY <1>1, <1>a, <1>b, <1>c, <1>d, <1>e, <1>g, EntryIs
<1>5. /\ IsScan(g) /\ Len(g) = m /\ Further(frames[m], g[m])
      /\ \A j \in 1 .. m - 1 : g[j] = frames[j]
      /\ m \in Nat \ {0} /\ (m = 1 <=> x = 0) /\ frames[m].part_idx \in Nat
  BY <1>3, <1>4, <1>c, <1>d, <1>f, StepIs, LastIs
<1>6. /\ HasExtended(c) /\ ext_lba_base \in Nat
      /\ Misled(c) => /\ m = 1 /\ y \in LBAs \ {0}
                      /\ Links(t, y) = {} /\ Simple(t, y) = {}
      /\ ~Misled(c) => y = IF m = 1 THEN Link(t, 0) ELSE Link(t, 0) + e
      /\ ext_lba_base = 0 <=> Seen1 = {}
      /\ Seen1 = {} => e = Base(c)
  <2>1. phase = "scan" /\ k \in Links(t, x)
    BY <1>1, <1>4
  <2>2. e = t[x][k].start_lba /\ e \in Nat
    BY <1>4
  <2>3. Leads(c, t, m, e, y)
    BY <2>1, <2>2, <1>a, <1>b, <1>c, <1>d, <1>e, <1>h, LinkLeads, Zenon
  <2> QED
    BY <2>3, Zenon DEF Leads
<1>7. /\ y \in LBAs \ {0} /\ l_no # LogicMax
      /\ IF Misled(c) THEN Strays(t, h, l_no) ELSE Descends(t, Wanted(t), h, l_no)
  <2>1. CASE Misled(c)
    <3>1. y \in LBAs \ {0} /\ Links(t, y) = {} /\ Simple(t, y) = {} /\ Strays(t, frames, l_no)
      BY <1>3, <1>6, <2>1, Zenon
    <3>2. l_no = 0 /\ Strays(t, Append(StepOf(frames), Frame(y)), l_no)
      <4>1. k \in Links(t, frames[m].ext_lba) /\ IsScan(frames)
        BY <1>3, <1>4, <1>d
      <4>2. Strays(t, Append(StepOf(frames), Frame(y)), l_no)
        BY <1>4, <1>c, <1>e, <3>1, <4>1, StrayCall, Zenon
      <4> QED
        BY <4>2 DEF Strays
    <3> QED
      BY <1>f, <1>i, <1>j, <2>1, <3>1, <3>2, PartitionsAssumption
  <2>2. CASE ~Misled(c)
    <3>1. y = IF m = 1 THEN Link(t, 0) ELSE Link(t, 0) + t[frames[m].ext_lba][k].start_lba
      BY <1>4, <1>6, <1>d, <2>2, Zenon
    <3>2. Descends(t, Wanted(t), frames, l_no) /\ k \in Links(t, frames[m].ext_lba)
      BY <1>3, <1>4, <1>d, <2>2, Zenon
    <3>3. /\ y \in LBAs \ {0} /\ l_no # LogicMax
          /\ Descends(t, Wanted(t), Append(StepOf(frames), Frame(y)), l_no)
      BY <1>2, <1>3, <1>4, <1>c, <1>e, <3>1, <3>2, DescendCall
    <3> QED
      BY <1>f, <1>i, <1>j, <2>2, <3>3
  <2> QED
    BY <2>1, <2>2
<1>8. IsScan(h) /\ Len(h) = m + 1 /\ h[1] = g[1]
  <2>1. IsScan(h) /\ Len(h) = m + 1 /\ \A j \in 1 .. m : h[j] = g[j]
    <3>1. m = Len(g) /\ IsScan(g) /\ y \in LBAs \ {0}
      BY <1>5, <1>7
    <3>2. IsScan(h)
      BY <3>1, <1>i, <1>j, CallIs, Zenon
    <3>3. Len(h) = m + 1
      BY <3>1, <1>i, <1>j, CallIs
    <3>4. \A j \in 1 .. m : h[j] = g[j]
      BY <3>1, <1>i, <1>j, CallIs
    <3> QED
      BY <3>2, <3>3, <3>4
  <2>2. 1 \in 1 .. m
    BY <1>5
  <2> QED
    BY <2>1, <2>2
<1>9. PrimIs(prim_parts[c], c, t, h[1].part_idx) /\ Past(t, h[1])
  <2>1. CASE m = 1
    <3>1. PICK i \in Nat : i = frames[m].part_idx
      BY <1>5
    <3>2. k = i + 1 /\ x = 0 /\ i \in 0 .. Entries - 1 /\ k <= k
      BY <1>4, <1>5, <1>e, <2>1, <3>1, PartitionsAssumption
    <3>3. h[1].part_idx = i + 1 /\ h[1].ext_lba = x
      BY <1>5, <1>8, <1>d, <2>1, <3>1 DEF Further
    <3>4. k \notin Simple(t, 0)
      BY <1>4, <3>2 DEF Links, Simple
    <3>5. PrimIs(prim_parts[c], c, t, i)
      BY <1>3, <2>1, <3>1
    <3>6. PrimIs(prim_parts[c], c, t, i + 1)
      BY <3>2, <3>4, <3>5, PrimSkip
    <3>7. Past(t, h[1])
      BY <1>4, <3>2, <3>3, Zenon DEF Past
    <3> QED
      BY <3>3, <3>6, <3>7
  <2>2. CASE m # 1
    <3>1. h[1] = frames[1]
      BY <1>5, <1>8, <2>2
    <3>2. ~Misled(c)
      BY <1>6, <2>2, Zenon
    <3>3. \A j \in 1 .. m - 1 : Past(t, frames[j])
      BY <1>3, <1>c, <3>2, Zenon DEF Descends
    <3>4. 1 \in 1 .. m - 1
      BY <1>5, <2>2
    <3> QED
      BY <1>3, <3>1, <3>3, <3>4
  <2> QED
    BY <2>1, <2>2
<1>10. Scanning'
  BY <1>1, <1>2, <1>7, <1>8, <1>9, <1>a, <1>b, Zenon DEF Scanning
<1>11. BaseIs'
  <2>1. Seen1' = Seen1 \cup {c} /\ \A d \in Seen1 : d \in DOMAIN disk /\ d <= c
    <3>1. Past(Tables(c), frames[1])'
      BY <1>1, <1>2, <1>9
    <3> QED
      BY <1>1, <1>2, <1>6, <1>a, <3>1, SeenGrows
  <2>2. c \in Nat
    BY <1>2, DisksAre
  <2>3. CASE Seen1 = {}
    <3>1. ext_lba_base' = Base(c)' /\ Seen1' = {c} /\ c <= c
      BY <1>1, <1>2, <1>6, <2>1, <2>2, <2>3
    <3> QED
      BY <3>1 DEF BaseIs
  <2>4. CASE Seen1 # {}
    <3>1. BaseIs
      BY <1>1 DEF ScanInv
    <3>2. PICK d \in Seen1 : ext_lba_base = Base(d) /\ \A i \in Seen1 : d <= i
      BY <2>4, <3>1 DEF BaseIs
    <3>3. ext_lba_base' = Base(d)'
      BY <1>1, <1>2, <1>6, <2>1, <2>4, <3>2, TablesSay
    <3>4. d \in Seen1' /\ \A i \in Seen1' : d <= i
      BY <2>1, <3>2
    <3> QED
      BY <3>3, <3>4, Zenon DEF BaseIs
  <2> QED
    BY <2>3, <2>4
<1>12. Listed'
  BY <1>1 DEF ScanInv, Listed
<1>13. buffers' = Len(frames') + Cardinality(Kept(c)) + (IF l_no' = LogicMax THEN 1 ELSE 0)
  <2>1. buffers = m + Cardinality(Kept(c)) + 0
    BY <1>1, <1>7, <1>a, <1>c DEF ScanInv
  <2>2. Cardinality(Kept(c)) \in Nat
    BY KeptFinite
  <2> QED
    BY <1>1, <1>5, <1>7, <1>8, <2>1, <2>2
<1> QED
  BY <1>1, <1>10, <1>11, <1>12, <1>13, <1>a, <1>2, ScanStays

(* The partitions found have the number of their place. *)
LEMMA PrimNumbers ==
  ASSUME NEW p, NEW c, NEW t, NEW idx, PrimIs(p, c, t, idx), NEW n \in 1 .. Len(p)
  PROVE  p[n].disk = c /\ p[n].no = n
<1>1. PICK i \in Simple(t, 0) : i <= idx /\ n = Rank(t, i)
  BY Zenon DEF PrimIs
<1>2. p[n] = PrimaryAt(c, t, i)
  BY <1>1, Zenon DEF PrimIs
<1> QED
  BY <1>1, <1>2 DEF PrimaryAt, Partition

LEMMA LogicNumbers ==
  ASSUME NEW l, NEW c, NEW t, NEW n, LogicIs(l, c, t, n), NEW i \in 1 .. Len(l)
  PROVE  l[i].disk = c /\ l[i].no = i + 4
<1>1. l[i] = LogicalAt(c, t, i)
  BY Zenon DEF LogicIs
<1> QED
  BY <1>1 DEF LogicalAt, Partition

Numbered(d) ==
  /\ \A n \in 1 .. Len(prim_parts[d]) : prim_parts[d][n].disk = d /\ prim_parts[d][n].no = n
  /\ \A n \in 1 .. Len(logic_parts[d]) : logic_parts[d][n].disk = d /\ logic_parts[d][n].no = n + 4
(* The scan: prim_parts and logic_parts are in the order of the numbers. *)
LEMMA AllNumbered ==
  ASSUME BootTypes, ScanInv, phase = "scan", NEW d \in DOMAIN disk PROVE Numbered(d)
<1>1. PICK c : c = channel_no
  OBVIOUS
<1>2. c \in Nat /\ d \in Nat /\ Scanning
  BY <1>1, DisksAre, ScanIs
<1>3. CASE d < c
  <2>1. Scanned(d)
    BY <1>1, <1>3 DEF ScanInv
  <2>2. PrimIs(prim_parts[d], d, Tables(d), Entries) /\ LogicIs(logic_parts[d], d, Tables(d), Count(d))
    BY <2>1, Zenon DEF Scanned
  <2> QED
    BY <2>2, PrimNumbers, LogicNumbers, Zenon DEF Numbered
<1>4. CASE d = c
  <2>1. PrimIs(prim_parts[d], d, Tables(d), frames[1].part_idx) /\ LogicIs(logic_parts[d], d, Tables(d), l_no)
    BY <1>1, <1>2, <1>4, Zenon DEF Scanning
  <2> QED
    BY <2>1, PrimNumbers, LogicNumbers, Zenon DEF Numbered
<1>5. CASE d > c
  <2>1. Untouched(d)
    BY <1>1, <1>5 DEF ScanInv
  <2> QED
    BY <2>1 DEF Untouched, Numbered
<1> QED
  BY <1>2, <1>3, <1>4, <1>5

(* A partition with the next number has not been found before. *)
LEMMA NewPart ==
  ASSUME BootTypes, ScanInv, phase = "scan", NEW c, c = channel_no, NEW part, part.disk = c,
         \/ part.no = p_no + 1
         \/ part.no = l_no + 5
  PROVE  part \notin ToSet(partition_list)
<1>1. SUFFICES ASSUME part \in ToSet(partition_list) PROVE FALSE
  OBVIOUS
<1>2. ToSet(partition_list) = UNION {ToSet(prim_parts[d]) \cup ToSet(logic_parts[d]) : d \in DOMAIN disk}
  BY DEF ScanInv, Listed
<1>3. PICK d \in DOMAIN disk : part \in ToSet(prim_parts[d]) \cup ToSet(logic_parts[d])
  BY <1>1, <1>2, Zenon
<1>4. Numbered(d) /\ d \in Channels
  BY AllNumbered DEF BootTypes
<1>5. prim_parts[d] \in Seq(Parts) /\ logic_parts[d] \in Seq(Parts)
  BY <1>4 DEF BootTypes
<1>6. Scanning
  BY ScanIs
<1>7. p_no = Len(prim_parts[c]) /\ p_no < PrimMax /\ l_no \in Nat /\ Len(logic_parts[c]) = l_no
  BY <1>6, Zenon DEF Scanning, LogicIs
<1>8. PrimMax \in 1 .. 4
  BY PartitionsAssumption
<1>9. CASE part \in ToSet(prim_parts[d])
  <2>1. PICK n \in 1 .. Len(prim_parts[d]) : part = prim_parts[d][n]
    BY <1>5, <1>9 DEF ToSet
  <2>2. c = d /\ part.no = n
    BY <1>4, <2>1, Zenon DEF Numbered
  <2>3. n \in 1 .. p_no /\ p_no \in Nat
    BY <1>5, <1>7, <2>1, <2>2
  <2> QED
    BY <1>7, <1>8, <2>2, <2>3
<1>10. CASE part \in ToSet(logic_parts[d])
  <2>1. PICK n \in 1 .. Len(logic_parts[d]) : part = logic_parts[d][n]
    BY <1>5, <1>10 DEF ToSet
  <2>2. c = d /\ part.no = n + 4
    BY <1>4, <2>1, Zenon DEF Numbered
  <2>3. n \in 1 .. l_no
    BY <1>7, <2>1, <2>2
  <2>4. p_no \in Nat
    BY <1>5, <1>7, <2>2
  <2> QED
    BY <1>7, <1>8, <2>2, <2>3, <2>4
<1> QED
  BY <1>3, <1>9, <1>10

(* A partition that is found goes to the end of partition_list. *)
LEMMA ListAdd ==
  ASSUME BootTypes, Listed, NEW c \in DOMAIN disk, NEW part \in Parts, part \notin ToSet(partition_list),
         partition_list' = Append(partition_list, part), DOMAIN disk' = DOMAIN disk,
         \/ prim_parts' = [prim_parts EXCEPT ![c] = Append(@, part)] /\ logic_parts' = logic_parts
         \/ logic_parts' = [logic_parts EXCEPT ![c] = Append(@, part)] /\ prim_parts' = prim_parts
  PROVE  Listed'
<1>1. PICK n : n = Len(partition_list)
  OBVIOUS
<1>2. /\ partition_list \in Seq(Parts) /\ n \in Nat /\ c \in Channels /\ DOMAIN disk \subseteq Channels
      /\ prim_parts \in [Channels -> Seq(Parts)] /\ logic_parts \in [Channels -> Seq(Parts)]
  BY <1>1 DEF BootTypes
<1>3. ASSUME NEW s \in Seq(Parts) PROVE ToSet(Append(s, part)) = ToSet(s) \cup {part}
  BY DEF ToSet
<1>4. PICK q : q = partition_list'
  OBVIOUS
<1>5. /\ Len(q) = n + 1 /\ q[n + 1] = part /\ \A i \in 1 .. n : q[i] = partition_list[i]
      /\ q \in Seq(Parts)
  BY <1>1, <1>2, <1>4, AppendIs
<1>a. DOMAIN partition_list = 1 .. n /\ DOMAIN q = 1 .. n + 1 /\ n \in Nat
  BY <1>1, <1>2, <1>5
<1>6. \A i \in 1 .. n : partition_list[i] # part
  BY <1>a, Zenon DEF ToSet
<1>7. \A i, j \in 1 .. n : partition_list[i] = partition_list[j] => i = j
  BY <1>a, Zenon DEF Listed
<1>8. ASSUME NEW i \in DOMAIN q, NEW j \in DOMAIN q, q[i] = q[j] PROVE i = j
  <2>1. (i \in 1 .. n \/ i = n + 1) /\ (j \in 1 .. n \/ j = n + 1)
    BY <1>a
  <2>2. CASE i \in 1 .. n /\ j \in 1 .. n
    BY <1>5, <1>7, <1>8, <2>2
  <2>3. CASE i \in 1 .. n /\ j = n + 1
    BY <1>5, <1>6, <1>8, <2>3
  <2>4. CASE i = n + 1 /\ j \in 1 .. n
    BY <1>5, <1>6, <1>8, <2>4
  <2> QED
    BY <2>1, <2>2, <2>3, <2>4
<1>9. ToSet(q) = ToSet(partition_list) \cup {part}
  BY <1>2, <1>3, <1>4
<1>10. PICK P, Q : P = [d \in DOMAIN disk |-> ToSet(prim_parts[d]) \cup ToSet(logic_parts[d])]
                 /\ Q = [d \in DOMAIN disk |-> ToSet(prim_parts'[d]) \cup ToSet(logic_parts'[d])]
  OBVIOUS
<1>11. ASSUME NEW d \in DOMAIN disk PROVE Q[d] = IF d = c THEN P[d] \cup {part} ELSE P[d]
  <2>1. prim_parts[d] \in Seq(Parts) /\ logic_parts[d] \in Seq(Parts)
    BY <1>2
  <2>2. CASE d # c
    <3>1. prim_parts'[d] = prim_parts[d] /\ logic_parts'[d] = logic_parts[d]
      BY <1>2, <2>2
    <3> QED
      BY <1>10, <2>2, <3>1
  <2>3. CASE d = c
    <3>1. \/ prim_parts'[d] = Append(prim_parts[d], part) /\ logic_parts'[d] = logic_parts[d]
          \/ logic_parts'[d] = Append(logic_parts[d], part) /\ prim_parts'[d] = prim_parts[d]
      BY <1>2, <2>3
    <3>2. ToSet(prim_parts'[d]) \cup ToSet(logic_parts'[d]) = ToSet(prim_parts[d]) \cup ToSet(logic_parts[d]) \cup {part}
      BY <1>3, <2>1, <3>1
    <3> QED
      BY <1>10, <2>3, <3>2
  <2> QED
    BY <2>2, <2>3
<1>12. ToSet(partition_list) = UNION {P[d] : d \in DOMAIN disk}
  BY <1>10 DEF Listed
<1>13. ToSet(q) = UNION {Q[d] : d \in DOMAIN disk}
  <2>1. \A x : x \in ToSet(q) <=> x \in UNION {P[d] : d \in DOMAIN disk} \/ x = part
    BY <1>9, <1>12, Zenon
  <2>2. \A x : x \in UNION {P[d] : d \in DOMAIN disk} <=> \E d \in DOMAIN disk : x \in P[d]
    BY Zenon
  <2>3. \A x : x \in UNION {Q[d] : d \in DOMAIN disk} <=> \E d \in DOMAIN disk : x \in Q[d]
    BY Zenon
  <2>4. \A x : \A d \in DOMAIN disk : x \in Q[d] <=> x \in P[d] \/ (x = part /\ d = c)
    BY <1>11
  <2>5. \A x : x \in ToSet(q) <=> x \in UNION {Q[d] : d \in DOMAIN disk}
    BY <2>1, <2>2, <2>3, <2>4, Zenon
  <2> QED
    BY <2>5
<1>14. ToSet(q) = UNION {ToSet(prim_parts'[d]) \cup ToSet(logic_parts'[d]) : d \in DOMAIN disk}
  BY <1>10, <1>13
<1> QED
  BY <1>4, <1>8, <1>14, Zenon DEF Listed

(* There are as many primary partitions as entries for them. *)
LEMMA PrimaryCount ==
  ASSUME NEW c, NEW t, t = Tables(c)
  PROVE  Cardinality(Primary(c)) = Cardinality(Simple(t, 0))
<1>1. PICK S : S = Simple(t, 0)
  OBVIOUS
<1>2. PICK f : f = [i \in S |-> PrimaryAt(c, t, i)]
  OBVIOUS
<1>3. IsFiniteSet(S)
  BY <1>1, UptoFinite, PartitionsAssumption
<1>4. Primary(c) = {f[i] : i \in S}
  BY <1>1, <1>2 DEF Primary
<1>5. ASSUME NEW i \in S, NEW j \in S, f[i] = f[j] PROVE i = j
  <2>1. f[i].no = Rank(t, i) /\ f[j].no = Rank(t, j)
    BY <1>2 DEF PrimaryAt, Partition
  <2>2. i \in Nat /\ j \in Nat
    BY <1>1, PartitionsAssumption DEF Simple
  <2>3. Rank(t, i) \in Nat /\ Rank(t, j) \in Nat /\ Rank(t, i) = Rank(t, j)
    BY <1>1, <1>5, <2>1, RankIs
  <2>4. ~(i < j) /\ ~(j < i)
    BY <1>1, <2>3, RankGrows
  <2> QED
    BY <2>2, <2>4
<1>6. f \in Surjection(S, Primary(c)) /\ f \in Injection(S, Primary(c))
  <2>1. f \in [S -> Primary(c)] /\ \A x \in Primary(c) : \E i \in S : f[i] = x
    BY <1>2, <1>4
  <2>2. DOMAIN f = S
    BY <1>2
  <2>3. IsInjective(f)
    BY <1>5, <2>2, Zenon DEF IsInjective
  <2> QED
    BY <2>1, <2>3, Zenon DEF Surjection, Injection
<1> QED
  BY <1>1, <1>3, <1>6, FS_Surjection

(* A primary partition: it is entered in prim_parts and the list; the last *)
(* one prim_parts has room for stops the kernel.                           *)
LEMMA PrimaryKeeps ==
  ASSUME BootTypes, ScanInv, scan_primary
  PROVE  /\ ScanInv'
         /\ prim_parts' \in [Channels -> Seq(Parts)] /\ partition_list' \in Seq(Parts)
<1>a. PICK c : c = channel_no
  OBVIOUS
<1>b. PICK t : t = Tables(c)
  OBVIOUS
<1>c. PICK m : m = Len(frames)
  OBVIOUS
<1>d. PICK x : x = frames[m].ext_lba
  OBVIOUS
<1>e. PICK k : k = frames[m].part_idx + 1
  OBVIOUS
<1>f. PICK g : g = StepOf(frames)
  OBVIOUS
<1>g. PICK part : part = Found(p_no + 1)
  OBVIOUS
<1>h. PICK p : p = prim_parts[c]
  OBVIOUS
<1>1. /\ AtEntry /\ Entry.fs_type \notin {0, Extended} /\ Top.ext_lba = 0 /\ phase = "scan"
      /\ UNCHANGED <<disk, channel_cnt, channel_no, ext_lba_base, logic_parts, l_no, buffers>>
      /\ prim_parts' = [prim_parts EXCEPT ![c] = Append(@, part)]
      /\ partition_list' = Append(partition_list, part)
      /\ p_no' = p_no + 1
      /\ frames' = g
  BY <1>a, <1>f, <1>g, Zenon DEF scan_primary, AtEntry, Seen, Top, StepOf
<1>i. phase' = IF p_no' < PrimMax THEN phase ELSE "panic"
  BY DEF scan_primary
<1>2. /\ c \in DOMAIN disk /\ c \in Channels /\ WellChained(t) /\ Scanning
      /\ SameTables /\ t = Tables(c)' /\ Misled(c)' = Misled(c) /\ Primary(c)' = Primary(c)
  BY <1>1, <1>a, <1>b, ScanIs, DiskSays, TablesSay DEF SameTables
<1>3. /\ c < channel_cnt /\ IsScan(frames) /\ PrimIs(p, c, t, frames[1].part_idx)
      /\ p_no = Len(p) /\ p_no < PrimMax /\ l_no \in Nat /\ LogicIs(logic_parts[c], c, t, l_no)
      /\ IF Misled(c) THEN Strays(t, frames, l_no) ELSE Descends(t, Wanted(t), frames, l_no)
  BY <1>2, <1>a, <1>b, <1>h, Zenon DEF Scanning
<1>4. /\ k \in Simple(t, x) /\ k \notin Links(t, x) /\ frames[m].part_idx # Entries
      /\ k \in 1 .. Entries /\ Entry = t[x][k] /\ Top = frames[m] /\ x = 0
      /\ Entry \in [fs_type : Nat, start_lba : Nat, sec_cnt : Nat]
  BY <1>1, <1>a, <1>b, <1>c, <1>d, <1>e, EntryIs
<1>5. /\ IsScan(g) /\ Len(g) = m /\ Further(frames[m], g[m])
      /\ m = 1 /\ frames[m].part_idx \in Nat
  BY <1>3, <1>4, <1>c, <1>d, <1>f, StepIs, LastIs
<1>6. PICK i \in Nat : i = frames[1].part_idx
  BY <1>5
<1>7. k = i + 1 /\ i \in 0 .. Entries - 1 /\ g[1].part_idx = i + 1 /\ g[1].ext_lba = frames[1].ext_lba
  <2>1. k = i + 1
    BY <1>5, <1>6, <1>e
  <2>2. g[m].part_idx = frames[m].part_idx + 1 /\ g[m].ext_lba = frames[m].ext_lba
    BY <1>5 DEF Further
  <2> QED
    BY <1>4, <1>5, <1>6, <2>1, <2>2, PartitionsAssumption
<1>8. IF Misled(c) THEN Strays(t, g, l_no) ELSE Descends(t, Wanted(t), g, l_no)
  <2>1. CASE Misled(c)
    BY <1>3, <1>4, <1>c, <1>f, <2>1, StraySkip, Zenon
  <2>2. CASE ~Misled(c)
    BY <1>2, <1>3, <1>4, <1>5, <1>c, <1>d, <1>e, <1>f, <2>2, DescendSkip
  <2> QED
    BY <2>1, <2>2, Zenon
<1>9. /\ PrimIs(Append(p, PrimaryAt(c, t, k)), c, t, k) /\ Rank(t, k) = p_no + 1
      /\ PrimaryAt(c, t, k) \in Parts
  <2>1. k \in Simple(t, 0) /\ i + 1 = k
    BY <1>4, <1>7
  <2>2. PrimaryAt(c, t, k) \in Parts
    BY <1>2, <1>b, <2>1, PartsAre
  <2>3. PrimIs(p, c, t, i)
    BY <1>3, <1>6
  <2>4. i + 1 \in Simple(t, 0) /\ PrimaryAt(c, t, i + 1) \in Parts
    BY <2>1, <2>2
  <2>5. PrimIs(Append(p, PrimaryAt(c, t, i + 1)), c, t, i + 1) /\ Rank(t, i + 1) = Len(p) + 1
    BY <1>7, <2>3, <2>4, PrimAdd
  <2> QED
    BY <1>3, <2>1, <2>2, <2>5
<1>10. part = PrimaryAt(c, t, k) /\ part.disk = c /\ part.no = p_no + 1
  <2>1. PICK e : e = Entry
    OBVIOUS
  <2>2. PICK r : r = p_no + 1
    OBVIOUS
  <2>3. part = [disk |-> c, no |-> r, sec_cnt |-> e.sec_cnt, start_lba |-> 0 + e.start_lba]
    BY <1>1, <1>a, <1>g, <2>1, <2>2, Zenon DEF Found
  <2>4. t[0][k] = e
    BY <1>4, <2>1
  <2>5. PrimaryAt(c, t, k) = [disk |-> c, no |-> r, sec_cnt |-> e.sec_cnt, start_lba |-> 0 + e.start_lba]
    BY <1>9, <2>2, <2>4, Zenon DEF PrimaryAt, Partition
  <2> QED
    BY <2>2, <2>3, <2>5
<1>11. part \in Parts /\ PrimIs(Append(p, part), c, t, g[1].part_idx)
  BY <1>7, <1>9, <1>10
<1>12. prim_parts \in [Channels -> Seq(Parts)] /\ partition_list \in Seq(Parts)
  BY DEF BootTypes
<1>13. p \in Seq(Parts) /\ Append(p, part) \in Seq(Parts) /\ Len(Append(p, part)) = p_no + 1
  BY <1>2, <1>3, <1>11, <1>12, <1>h
<1>14. prim_parts' \in [Channels -> Seq(Parts)] /\ partition_list' \in Seq(Parts)
  <2>1. [prim_parts EXCEPT ![c] = Append(@, part)] = [prim_parts EXCEPT ![c] = Append(p, part)]
    BY <1>2, <1>12, <1>h
  <2> QED
    BY <1>1, <1>2, <1>11, <1>12, <1>13, <2>1
<1>15. prim_parts'[c] = Append(p, part) /\ \A d \in DOMAIN disk \ {c} : prim_parts'[d] = prim_parts[d]
  <2>1. DOMAIN disk \subseteq Channels
    BY DEF BootTypes
  <2> QED
    BY <1>1, <1>2, <1>12, <1>h, <2>1
<1>16. CASE p_no' < PrimMax
  <2>1. phase' = "scan"
    BY <1>1, <1>16, <1>i
  <2>2. Scanning'
    <3>1. IsScan(frames') /\ PrimIs(prim_parts'[c], c, t, frames'[1].part_idx)
      BY <1>1, <1>5, <1>11, <1>15
    <3>2. p_no' = Len(prim_parts'[c]) /\ p_no' < PrimMax
      BY <1>1, <1>13, <1>15, <1>16
    <3>3. l_no' \in Nat /\ LogicIs(logic_parts'[c], c, t, l_no')
      BY <1>1, <1>3
    <3>4. IF Misled(c) THEN Strays(t, frames', l_no') ELSE Descends(t, Wanted(t), frames', l_no')
      BY <1>1, <1>8
    <3> QED
      BY <1>1, <1>2, <1>3, <1>a, <1>b, <3>1, <3>2, <3>3, <3>4, Zenon DEF Scanning
  <2>3. BaseIs'
    <3>1. Past(t, g[1]) <=> Past(t, frames[1])
      <4>1. frames[1].part_idx \in Nat /\ Further(frames[1], g[1]) /\ g[1].part_idx \notin Links(t, frames[1].ext_lba)
        BY <1>4, <1>5, <1>6, <1>7, <1>d
      <4> QED
        BY <4>1, PastStep, Zenon
    <3>2. Past(Tables(c), frames[1])' <=> Past(Tables(c), frames[1])
      BY <1>1, <1>2, <1>b, <3>1, Zenon
    <3>3. BaseIs
      BY <1>1 DEF ScanInv
    <3> QED
      BY <1>1, <1>2, <1>a, <2>1, <3>2, <3>3, SeenStays, BaseStays
  <2>4. Listed'
    <3>1. Listed
      BY <1>1 DEF ScanInv
    <3>2. part \notin ToSet(partition_list)
      BY <1>1, <1>10, <1>a, NewPart
    <3> QED
      BY <1>1, <1>2, <1>11, <3>1, <3>2, ListAdd
  <2>5. buffers' = Len(frames') + Cardinality(Kept(c)) + (IF l_no' = LogicMax THEN 1 ELSE 0)
    BY <1>1, <1>5, <1>a, <1>c DEF ScanInv
  <2>6. ScanInv'
    BY <1>1, <1>2, <1>15, <1>a, <2>1, <2>2, <2>3, <2>4, <2>5, ScanStays
  <2> QED
    BY <1>14, <2>6
<1>17. CASE ~(p_no' < PrimMax)
  <2>1. Rank(t, k) >= PrimMax /\ k \in Simple(t, 0) /\ p_no \in Nat
    BY <1>1, <1>3, <1>4, <1>9, <1>13, <1>17, PartitionsAssumption
  <2>2. Cardinality(Primary(c)) >= PrimMax
    BY <1>b, <2>1, RankIs, PrimaryCount, PartitionsAssumption
  <2>3. Cardinality(Primary(channel_no))' >= PrimMax
    BY <1>1, <1>2, <1>a, <2>2
  <2>4. phase' = "panic"
    BY <1>17, <1>i
  <2>5. ScanInv'
    BY <2>3, <2>4 DEF ScanInv
  <2> QED
    BY <1>14, <2>5
<1> QED
  BY <1>16, <1>17

(* A logical partition: it is entered in logic_parts and the list, and     *)
(* with the last one there is room for its table is left.                  *)
LEMMA LogicalKeeps ==
  ASSUME BootTypes, ScanInv, scan_logical
  PROVE  /\ ScanInv'
         /\ logic_parts' \in [Channels -> Seq(Parts)] /\ partition_list' \in Seq(Parts)
<1>a. PICK c : c = channel_no
  OBVIOUS
<1>b. PICK t : t = Tables(c)
  OBVIOUS
<1>c. PICK m : m = Len(frames)
  OBVIOUS
<1>d. PICK x : x = frames[m].ext_lba
  OBVIOUS
<1>e. PICK k : k = frames[m].part_idx + 1
  OBVIOUS
<1>f. PICK g : g = frames'
  OBVIOUS
<1>g. PICK part : part = Found(l_no + 5)
  OBVIOUS
<1>h. PICK p : p = logic_parts[c]
  OBVIOUS
<1>1. /\ AtEntry /\ Entry.fs_type \notin {0, Extended} /\ Top.ext_lba # 0 /\ phase = "scan" /\ phase' = "scan"
      /\ UNCHANGED <<disk, channel_cnt, channel_no, ext_lba_base, prim_parts, p_no, buffers>>
      /\ logic_parts' = [logic_parts EXCEPT ![c] = Append(@, part)]
      /\ partition_list' = Append(partition_list, part)
      /\ l_no' = l_no + 1
      /\ g = IF l_no + 1 >= LogicMax THEN Front(frames) ELSE StepOf(frames)
  BY <1>a, <1>f, <1>g, Zenon DEF scan_logical, AtEntry, Seen, Top, StepOf
<1>2. /\ c \in DOMAIN disk /\ c \in Channels /\ WellChained(t) /\ Scanning
      /\ SameTables /\ t = Tables(c)' /\ Misled(c)' = Misled(c)
  BY <1>1, <1>a, <1>b, ScanIs, DiskSays, TablesSay DEF SameTables
<1>3. /\ c < channel_cnt /\ IsScan(frames) /\ PrimIs(prim_parts[c], c, t, frames[1].part_idx)
      /\ p_no = Len(prim_parts[c]) /\ p_no < PrimMax /\ l_no \in Nat /\ LogicIs(p, c, t, l_no)
      /\ IF Misled(c) THEN Strays(t, frames, l_no) ELSE Descends(t, Wanted(t), frames, l_no)
  BY <1>2, <1>a, <1>b, <1>h, Zenon DEF Scanning
<1>4. /\ k \in Simple(t, x) /\ frames[m].part_idx # Entries
      /\ k \in 1 .. Entries /\ Entry = t[x][k] /\ Top = frames[m] /\ x # 0
  BY <1>1, <1>a, <1>b, <1>c, <1>d, <1>e, EntryIs
<1>5. m \in Nat /\ m > 1
  BY <1>3, <1>4, <1>c, <1>d, LastIs
<1>6. ~Misled(c) /\ Descends(t, Wanted(t), frames, l_no)
  <2>1. Misled(c) => m = 1 \/ (m = 2 /\ Simple(t, frames[2].ext_lba) = {})
    BY <1>3, <1>c, Zenon DEF Strays
  <2>2. ~Misled(c)
    BY <1>4, <1>5, <1>d, <2>1
  <2> QED
    BY <1>3, <2>2, Zenon
<1>7. /\ l_no = m - 2 /\ x = Chain(t)[m - 1] /\ Simple(t, x) = {k}
      /\ l_no + 1 < LogicMax => Descends(t, Wanted(t), StepOf(frames), l_no + 1)
      /\ ~(l_no + 1 < LogicMax) => /\ l_no + 1 = LogicMax /\ Wanted(t) = LogicMax
                                   /\ Descends(t, Wanted(t), Front(frames), l_no + 1)
  <2>1. FindsAt(t, frames, l_no, m, x, k)
    BY <1>2, <1>3, <1>4, <1>5, <1>6, <1>c, <1>d, <1>e, DescendFound, Zenon
  <2> QED
    BY <2>1, Zenon DEF FindsAt
<1>8. PICK n : n = l_no + 1
  OBVIOUS
<1>9. n = m - 1 /\ n \in Nat /\ n > 0 /\ n - 1 = l_no /\ LogicMax \in Nat
  BY <1>3, <1>5, <1>7, <1>8, PartitionsAssumption
<1>10. /\ IsScan(g) /\ g[1] = frames[1] /\ Descends(t, Wanted(t), g, n)
       /\ Len(g) = IF n = LogicMax THEN m - 1 ELSE m
  <2>0. 1 \in 1 .. m - 1
    BY <1>5
  <2>1. CASE l_no + 1 >= LogicMax
    <3>1. ~(l_no + 1 < LogicMax) /\ g = Front(frames)
      BY <1>1, <1>8, <1>9, <2>1
    <3>2. n = LogicMax /\ Descends(t, Wanted(t), g, n)
      BY <1>7, <1>8, <3>1
    <3> QED
      BY <1>3, <1>5, <1>c, <2>0, <3>1, <3>2, ReturnIs
  <2>2. CASE ~(l_no + 1 >= LogicMax)
    <3>1. l_no + 1 < LogicMax /\ g = StepOf(frames) /\ n # LogicMax
      BY <1>1, <1>8, <1>9, <2>2
    <3>2. Descends(t, Wanted(t), g, n)
      BY <1>7, <1>8, <3>1
    <3> QED
      BY <1>3, <1>4, <1>c, <2>0, <3>1, <3>2, StepIs
  <2> QED
    BY <2>1, <2>2
<1>11. part = LogicalAt(c, t, n) /\ part \in Parts /\ part.disk = c /\ part.no = l_no + 5
  <2>1. PICK e : e = Entry
    OBVIOUS
  <2>2. PICK r : r = l_no + 5
    OBVIOUS
  <2>3. part = [disk |-> c, no |-> r, sec_cnt |-> e.sec_cnt, start_lba |-> x + e.start_lba]
    BY <1>4, <1>a, <1>d, <1>g, <2>1, <2>2, Zenon DEF Found
  <2>4. t[x][k] = e /\ Chain(t)[n] = x /\ Min(Simple(t, x)) = k
    BY <1>4, <1>7, <1>9, <2>1, ShortOf
  <2>5. n + 4 = r
    BY <1>9, <1>8, <1>3, <2>2
  <2>6. LogicalAt(c, t, n) = [disk |-> c, no |-> r, sec_cnt |-> e.sec_cnt, start_lba |-> x + e.start_lba]
    BY <2>4, <2>5, Zenon DEF LogicalAt, Partition
  <2>7. n \in 1 .. Len(Chain(t))
    BY <1>2, <1>3, <1>5, <1>6, <1>9, <1>c, DescendsBelow
  <2>8. LogicalAt(c, t, n) \in Parts
    BY <1>2, <1>b, <2>7, PartsAre
  <2> QED
    BY <2>2, <2>3, <2>6, <2>8
<1>12. LogicIs(Append(p, part), c, t, n)
  <2>1. LogicalAt(c, t, l_no + 1) \in Parts /\ part = LogicalAt(c, t, l_no + 1)
    BY <1>8, <1>11
  <2>2. LogicIs(Append(p, LogicalAt(c, t, l_no + 1)), c, t, l_no + 1)
    BY <1>3, <2>1, LogicAdd
  <2> QED
    BY <1>8, <2>1, <2>2
<1>13. logic_parts \in [Channels -> Seq(Parts)] /\ partition_list \in Seq(Parts) /\ p \in Seq(Parts)
  BY <1>2, <1>h DEF BootTypes
<1>14. Append(p, part) \in Seq(Parts)
  BY <1>11, <1>13
<1>15. logic_parts' \in [Channels -> Seq(Parts)] /\ partition_list' \in Seq(Parts)
  <2>1. [logic_parts EXCEPT ![c] = Append(@, part)] = [logic_parts EXCEPT ![c] = Append(p, part)]
    BY <1>2, <1>13, <1>h
  <2> QED
    BY <1>1, <1>2, <1>11, <1>13, <1>14, <2>1
<1>16. logic_parts'[c] = Append(p, part) /\ \A d \in DOMAIN disk \ {c} : logic_parts'[d] = logic_parts[d]
  <2>1. DOMAIN disk \subseteq Channels
    BY DEF BootTypes
  <2> QED
    BY <1>1, <1>2, <1>13, <1>h, <2>1
<1>17. Scanning'
  <2>1. IsScan(frames') /\ PrimIs(prim_parts'[c], c, t, frames'[1].part_idx)
    BY <1>1, <1>3, <1>10, <1>f
  <2>2. p_no' = Len(prim_parts'[c]) /\ p_no' < PrimMax
    BY <1>1, <1>3
  <2>3. l_no' \in Nat /\ LogicIs(logic_parts'[c], c, t, l_no')
    BY <1>1, <1>8, <1>9, <1>12, <1>16
  <2>4. ~Misled(c) /\ Descends(t, Wanted(t), frames', l_no')
    BY <1>1, <1>6, <1>8, <1>10, <1>f
  <2> QED
    BY <1>1, <1>2, <1>3, <1>a, <1>b, <2>1, <2>2, <2>3, <2>4, Zenon DEF Scanning
<1>18. BaseIs'
  <2>1. Past(Tables(c), frames[1])' <=> Past(Tables(c), frames[1])
    BY <1>1, <1>2, <1>10, <1>b, <1>f, Zenon
  <2>2. BaseIs
    BY <1>1 DEF ScanInv
  <2> QED
    BY <1>1, <1>2, <1>a, <2>1, <2>2, SeenStays, BaseStays
<1>19. Listed'
  <2>1. Listed
    BY <1>1 DEF ScanInv
  <2>2. part \notin ToSet(partition_list)
    BY <1>1, <1>11, <1>a, NewPart
  <2> QED
    BY <1>1, <1>2, <1>11, <2>1, <2>2, ListAdd
<1>20. buffers' = Len(frames') + Cardinality(Kept(c)) + (IF l_no' = LogicMax THEN 1 ELSE 0)
  <2>1. buffers = m + Cardinality(Kept(c)) + (IF l_no = LogicMax THEN 1 ELSE 0)
    BY <1>1, <1>a, <1>c DEF ScanInv
  <2>2. Cardinality(Kept(c)) \in Nat
    BY KeptFinite
  <2>3. l_no # LogicMax
    <3>1. m - 1 <= Wanted(t)
      BY <1>2, <1>3, <1>5, <1>6, <1>c, DescendsBelow
    <3> QED
      BY <1>2, <1>5, <1>7, <3>1, WantedIs
  <2>4. buffers' = m + Cardinality(Kept(c)) /\ l_no' = n /\ Len(frames') = Len(g)
    BY <1>1, <1>5, <1>8, <1>f, <2>1, <2>2, <2>3
  <2>5. CASE n = LogicMax
    BY <1>5, <1>10, <2>2, <2>4, <2>5
  <2>6. CASE n # LogicMax
    BY <1>5, <1>10, <2>2, <2>4, <2>6
  <2> QED
    BY <2>5, <2>6
<1> QED
  BY <1>1, <1>2, <1>15, <1>16, <1>17, <1>18, <1>19, <1>20, <1>a, ScanStays

(* A table that is done, of the extended partition. *)
LEMMA ReturnKeeps ==
  ASSUME BootTypes, ScanInv, scan_end, Len(frames) > 1 PROVE ScanInv'
<1>a. PICK c : c = channel_no
  OBVIOUS
<1>b. PICK t : t = Tables(c)
  OBVIOUS
<1>c. PICK m : m = Len(frames)
  OBVIOUS
<1>f. PICK g : g = Front(frames)
  OBVIOUS
<1>1. /\ Top.part_idx = Entries /\ phase = "scan" /\ phase' = "scan"
      /\ UNCHANGED <<disk, channel_cnt, channel_no, ext_lba_base, prim_parts, logic_parts,
                     partition_list, p_no, l_no>>
      /\ frames' = g /\ buffers' = buffers - 1
  BY <1>f DEF scan_end, Return
<1>2. /\ c \in DOMAIN disk /\ WellChained(t) /\ Scanning
      /\ SameTables /\ t = Tables(c)' /\ Misled(c)' = Misled(c)
  BY <1>1, <1>a, <1>b, ScanIs, DiskSays, TablesSay DEF SameTables
<1>3. /\ IsScan(frames) /\ PrimIs(prim_parts[c], c, t, frames[1].part_idx)
      /\ IF Misled(c) THEN Strays(t, frames, l_no) ELSE Descends(t, Wanted(t), frames, l_no)
  BY <1>2, <1>a, <1>b, Zenon DEF Scanning
<1>4. m \in Nat /\ m > 1 /\ frames[m].part_idx = Entries
  BY <1>1, <1>3, <1>c, LastIs DEF Top
<1>5. IsScan(g) /\ Len(g) = m - 1 /\ g[1] = frames[1]
  <2>1. 1 \in 1 .. m - 1
    BY <1>4
  <2>2. IsScan(g) /\ Len(g) = m - 1 /\ \A j \in 1 .. m - 1 : g[j] = frames[j]
    BY <1>3, <1>4, <1>c, <1>f, ReturnIs
  <2> QED
    BY <2>1, <2>2
<1>6. IF Misled(c) THEN Strays(t, g, l_no) ELSE Descends(t, Wanted(t), g, l_no)
  <2>1. CASE Misled(c)
    BY <1>3, <1>4, <1>c, <1>f, <2>1, StrayReturn, Zenon
  <2>2. CASE ~Misled(c)
    <3>1. Descends(t, Wanted(t), frames, l_no)
      BY <1>3, <2>2, Zenon
    <3>2. l_no = Wanted(t)
      BY <1>2, <1>3, <1>4, <1>c, <3>1, DescendDone
    <3>3. Descends(t, Wanted(t), g, Wanted(t))
      BY <1>2, <1>3, <1>4, <1>c, <1>f, <3>1, DescendReturn
    <3> QED
      BY <2>2, <3>2, <3>3
  <2> QED
    BY <2>1, <2>2, Zenon
<1>7. Scanning'
  BY <1>1, <1>2, <1>3, <1>5, <1>6, <1>a, <1>b, Zenon DEF Scanning
<1>8. BaseIs'
  <2>1. Past(Tables(c), frames[1])' <=> Past(Tables(c), frames[1])
    BY <1>1, <1>2, <1>5, <1>b, Zenon
  <2>2. BaseIs
    BY <1>1 DEF ScanInv
  <2> QED
    BY <1>1, <1>2, <1>a, <2>1, <2>2, SeenStays, BaseStays
<1>9. Listed'
  BY <1>1 DEF ScanInv, Listed
<1>10. buffers' = Len(frames') + Cardinality(Kept(c)) + (IF l_no' = LogicMax THEN 1 ELSE 0)
  <2>1. buffers = m + Cardinality(Kept(c)) + (IF l_no = LogicMax THEN 1 ELSE 0)
    BY <1>1, <1>a, <1>c DEF ScanInv
  <2>2. Cardinality(Kept(c)) \in Nat
    BY KeptFinite
  <2> QED
    BY <1>1, <1>4, <1>5, <2>1, <2>2
<1> QED
  BY <1>1, <1>2, <1>7, <1>8, <1>9, <1>10, <1>a, ScanStays

(* The disks on which the last element of logic_parts is used. *)
LEMMA FullIs ==
  ASSUME NEW c, NEW t, t = Tables(c), WellChained(t)
  PROVE  Full(c) <=> Wanted(t) = LogicMax
<1>1. PICK s : s = Chain(t)
  OBVIOUS
<1>2. /\ s \in Seq(LBAs \ {0}) /\ Len(s) \in Nat /\ LogicMax \in Nat \ {0}
      /\ Wanted(t) = LogicMax <=> LogicMax <= Len(s)
  BY <1>1, ChainIs, PartitionsAssumption DEF Wanted, Least2
<1>3. DOMAIN s = 1 .. Len(s)
  BY <1>2
<1>4. Full(c) <=> \E i \in 1 .. Len(s) : LogicalAt(c, t, i).no = LogicMax + 4
  BY <1>1, <1>3 DEF Full, Logical
<1>5. \A i \in 1 .. Len(s) : LogicalAt(c, t, i).no = i + 4
  BY DEF LogicalAt, Partition
<1>6. Full(c) <=> \E i \in 1 .. Len(s) : i = LogicMax
  BY <1>2, <1>4, <1>5
<1> QED
  BY <1>2, <1>6

(* A disk that has been scanned has kept a buffer if it has the last       *)
(* logical partition.                                                      *)
LEMMA KeptGrows ==
  ASSUME BootTypes, NEW c \in DOMAIN disk
  PROVE  Cardinality(Kept(c + 1)) = Cardinality(Kept(c)) + (IF Count(c) = LogicMax THEN 1 ELSE 0)
<1>1. DOMAIN disk \subseteq Nat /\ c \in Nat
  BY DisksAre
<1>2. WellChained(Tables(c))
  BY DEF BootTypes, Partitioned
<1>3. Count(c) = LogicMax <=> ~Misled(c) /\ Full(c)
  <2>1. Full(c) <=> Wanted(Tables(c)) = LogicMax
    BY <1>2, FullIs
  <2>2. Count(c) = IF Misled(c) THEN 0 ELSE Wanted(Tables(c))
    BY DEF Count
  <2>3. LogicMax # 0
    BY PartitionsAssumption
  <2> QED
    BY <2>1, <2>2, <2>3, Zenon
<1>4. \A d \in DOMAIN disk : d < c + 1 <=> d < c \/ d = c
  BY <1>1
<1>5. c \notin Kept(c)
  BY <1>1 DEF Kept
<1>6. IsFiniteSet(Kept(c)) /\ Cardinality(Kept(c)) \in Nat
  BY KeptFinite
<1>7. CASE Count(c) = LogicMax
  <2>1. Kept(c + 1) = Kept(c) \cup {c}
    BY <1>3, <1>4, <1>7 DEF Kept
  <2> QED
    BY <1>5, <1>6, <1>7, <2>1, FS_AddElement
<1>8. CASE Count(c) # LogicMax
  <2>1. Kept(c + 1) = Kept(c)
    BY <1>3, <1>4, <1>8 DEF Kept
  <2> QED
    BY <1>6, <1>8, <2>1
<1> QED
  BY <1>7, <1>8

(* Sector 0 is done: ide_init goes on with the next disk. *)
LEMMA NextDisk ==
  ASSUME BootTypes, ScanInv, scan_end, ~(Len(frames) > 1) PROVE ScanInv' /\ channel_no' \in 0 .. channel_cnt
<1>a. PICK c : c = channel_no
  OBVIOUS
<1>b. PICK t : t = Tables(c)
  OBVIOUS
<1>1. /\ Top.part_idx = Entries /\ phase = "scan" /\ phase' = "probe" /\ channel_no' = c + 1
      /\ UNCHANGED <<disk, channel_cnt, ext_lba_base, prim_parts, logic_parts, partition_list>>
      /\ frames' = Front(frames) /\ buffers' = buffers - 1 /\ p_no' = 0 /\ l_no' = 0
  BY <1>a DEF scan_end, Return
<1>2. /\ c \in DOMAIN disk /\ c \in Nat /\ WellChained(t) /\ Scanning
      /\ SameTables /\ t = Tables(c)' /\ Misled(c)' = Misled(c)
      /\ Count(c) = IF Misled(c) THEN 0 ELSE Wanted(t)
  BY <1>1, <1>a, <1>b, ScanIs, DiskSays, TablesSay DEF SameTables
<1>3. /\ c < channel_cnt /\ IsScan(frames) /\ PrimIs(prim_parts[c], c, t, frames[1].part_idx)
      /\ p_no = Len(prim_parts[c]) /\ p_no < PrimMax /\ LogicIs(logic_parts[c], c, t, l_no)
      /\ IF Misled(c) THEN Strays(t, frames, l_no) ELSE Descends(t, Wanted(t), frames, l_no)
  BY <1>2, <1>a, <1>b, Zenon DEF Scanning
<1>4. /\ Len(frames) = 1 /\ frames[1].part_idx = Entries /\ Front(frames) = <<>>
      /\ frames[1].ext_lba = 0
  <2>1. PICK m : m = Len(frames)
    OBVIOUS
  <2>2. m \in Nat \ {0} /\ Last(frames) = frames[m]
    BY <1>3, <2>1, LastIs
  <2>3. m = 1
    BY <2>1, <2>2
  <2>4. Front(frames) = <<>>
    BY <1>3, <2>1, <2>3, ReturnIs
  <2>5. frames[1].ext_lba = 0
    BY <1>3 DEF IsScan
  <2> QED
    BY <1>1, <2>1, <2>2, <2>3, <2>4, <2>5 DEF Top
<1>5. l_no = Count(c)
  <2>1. CASE Misled(c)
    BY <1>2, <1>3, <2>1, Zenon DEF Strays
  <2>2. CASE ~Misled(c)
    <3>1. Descends(t, Wanted(t), frames, l_no)
      BY <1>3, <2>2, Zenon
    <3>2. PICK m : m = Len(frames)
      OBVIOUS
    <3>3. frames[m].part_idx = Entries
      BY <1>4, <3>2
    <3>4. l_no = Wanted(t)
      BY <1>2, <1>3, <3>1, <3>2, <3>3, DescendDone
    <3> QED
      BY <1>2, <2>2, <3>4
  <2> QED
    BY <2>1, <2>2
<1>6. Scanned(c)
  BY <1>3, <1>4, <1>5, <1>b DEF Scanned
<1>7. buffers' = Cardinality(Kept(c + 1)) /\ Kept(c + 1)' = Kept(c + 1)
  <2>1. buffers = 1 + Cardinality(Kept(c)) + (IF l_no = LogicMax THEN 1 ELSE 0)
    BY <1>1, <1>4, <1>a DEF ScanInv
  <2>2. Cardinality(Kept(c)) \in Nat
    BY KeptFinite
  <2>3. Cardinality(Kept(c + 1)) = Cardinality(Kept(c)) + (IF l_no = LogicMax THEN 1 ELSE 0)
    BY <1>2, <1>5, KeptGrows
  <2>4. Kept(c + 1)' = Kept(c + 1)
    BY <1>2, TablesSay DEF Kept, SameTables
  <2> QED
    BY <1>1, <2>1, <2>2, <2>3, <2>4
<1>8. /\ DOMAIN disk \subseteq Nat
      /\ \A d \in DOMAIN disk : (d < c + 1 <=> d < c \/ d = c) /\ (d > c + 1 \/ d = c + 1 <=> d > c)
  BY <1>2, DisksAre
<1>9. ASSUME NEW d \in DOMAIN disk PROVE (Scanned(d) => Scanned(d)') /\ (Untouched(d) => Untouched(d)')
  <2>1. Tables(d)' = Tables(d) /\ Count(d)' = Count(d)
    BY <1>2, TablesSay DEF SameTables
  <2> QED
    BY <1>1, <2>1 DEF Scanned, Untouched
<1>10. /\ \A d \in DOMAIN disk : d < c => Scanned(d)
       /\ \A d \in DOMAIN disk : d > c => Untouched(d)
  BY <1>1, <1>a, Zenon DEF ScanInv
<1>11. \A d \in DOMAIN disk : d < c + 1 => Scanned(d)'
  BY <1>6, <1>8, <1>9, <1>10, Zenon
<1>12. \A d \in DOMAIN disk : d > c + 1 \/ d = c + 1 => Untouched(d)'
  BY <1>8, <1>9, <1>10, Zenon
<1>13. BaseIs'
  <2>1. HasExtended(c) => Past(t, frames[1])
    <3>1. Past(t, frames[1]) <=> Links(t, frames[1].ext_lba) # {}
      BY <1>4, PastEnds, Zenon
    <3> QED
      BY <1>4, <1>b, <3>1, Zenon DEF HasExtended
  <2>2. \A d : d \in Seen1 <=> d \in DOMAIN disk /\ HasExtended(d) /\ (d < c \/ (d = c /\ Past(t, frames[1])))
    BY <1>1, <1>a, <1>b, Zenon DEF Seen1
  <2>3. DOMAIN disk' = DOMAIN disk /\ \A d \in DOMAIN disk : HasExtended(d)' = HasExtended(d)
    BY <1>2, TablesSay DEF SameTables
  <2>4. \A d : d \in Seen1' <=> d \in DOMAIN disk /\ HasExtended(d) /\ d < c + 1
    BY <1>1, <2>3 DEF Seen1
  <2>5. \A d : d \in Seen1' <=> d \in Seen1
    BY <1>8, <2>1, <2>2, <2>4, Zenon
  <2>6. Seen1' = Seen1
    BY <2>5
  <2>7. BaseIs
    BY <1>1 DEF ScanInv
  <2> QED
    BY <1>1, <1>2, <2>6, <2>7, BaseStays
<1>14. Listed'
  BY <1>1 DEF ScanInv, Listed
<1>15. channel_no' \in 0 .. channel_cnt
  BY <1>1, <1>2, <1>3 DEF BootTypes
<1>16. /\ \A d \in DOMAIN disk' : d < channel_no' => Scanned(d)'
       /\ \A d \in DOMAIN disk' : d > channel_no' \/ (d = channel_no' /\ phase' = "probe") => Untouched(d)'
  BY <1>1, <1>11, <1>12, Zenon
<1>17. buffers' = Cardinality(Kept(channel_no)')
  BY <1>1, <1>7
<1> QED
  BY <1>1, <1>4, <1>13, <1>14, <1>15, <1>16, <1>17 DEF ScanInv

(* ide_init starts with cleared memory. *)
LEMMA ClearedIs == BootTypes /\ MemoryCleared => ScanInv
<1> SUFFICES ASSUME BootTypes, MemoryCleared PROVE ScanInv
  OBVIOUS
<1>1. /\ phase = "probe" /\ channel_no = 0 /\ frames = <<>> /\ ext_lba_base = 0
      /\ prim_parts = [c \in Channels |-> <<>>] /\ logic_parts = [c \in Channels |-> <<>>]
      /\ partition_list = <<>> /\ p_no = 0 /\ l_no = 0 /\ buffers = 0
  BY DEF MemoryCleared
<1>2. DOMAIN disk \subseteq Nat /\ DOMAIN disk \subseteq Channels
  BY DisksAre DEF BootTypes
<1>3. \A d \in DOMAIN disk : ~(d < 0)
  BY <1>2
<1>4. Kept(0) = {} /\ Seen1 = {}
  BY <1>1, <1>3, Zenon DEF Kept, Seen1
<1>5. \A d \in DOMAIN disk : prim_parts[d] = <<>> /\ logic_parts[d] = <<>>
  BY <1>1, <1>2
<1>6. buffers = Cardinality(Kept(channel_no))
  BY <1>1, <1>4, FS_EmptySet
<1>7. BaseIs
  BY <1>1, <1>4 DEF BaseIs
<1>8. Listed
  <2>1. ToSet(<<>>) = {} /\ DOMAIN <<>> = {}
    BY DEF ToSet
  <2>2. \A d \in DOMAIN disk : ToSet(prim_parts[d]) \cup ToSet(logic_parts[d]) = {}
    BY <1>5, <2>1
  <2>3. UNION {ToSet(prim_parts[d]) \cup ToSet(logic_parts[d]) : d \in DOMAIN disk} = {}
    BY <2>2
  <2> QED
    BY <1>1, <2>1, <2>3 DEF Listed
<1>9. \A d \in DOMAIN disk : Untouched(d)
  BY <1>5, Zenon DEF Untouched
<1> QED
  BY <1>1, <1>3, <1>6, <1>7, <1>8, <1>9, Zenon DEF ScanInv

(* ide_init: the first table of a disk. *)
LEMMA BeginKeeps ==
  ASSUME BootTypes, ScanInv, ide_init PROVE ScanInv'
<1>a. PICK c : c = channel_no
  OBVIOUS
<1>b. PICK t : t = Tables(c)
  OBVIOUS
<1>c. PICK f : f = Frame(0)
  OBVIOUS
<1>d. PICK g : g = <<f>>
  OBVIOUS
<1>1. /\ phase = "probe" /\ phase' = "scan" /\ c < channel_cnt
      /\ UNCHANGED <<disk, channel_cnt, channel_no, ext_lba_base, prim_parts, logic_parts,
                     partition_list, p_no, l_no>>
      /\ frames' = g /\ buffers' = buffers + 1
  BY <1>a, <1>c, <1>d, Zenon DEF ide_init
<1>2. /\ p_no = 0 /\ l_no = 0 /\ buffers = Cardinality(Kept(c))
      /\ \A d \in DOMAIN disk : d < c => Scanned(d)
      /\ \A d \in DOMAIN disk : d > c \/ d = c => Untouched(d)
      /\ BaseIs /\ Listed
  BY <1>1, <1>a, Zenon DEF ScanInv
<1>3. c \in DOMAIN disk /\ c \in Nat /\ c \in Channels
  <2>1. channel_cnt \in Nat /\ DOMAIN disk = 0 .. channel_cnt - 1 /\ c \in 0 .. channel_cnt
    BY <1>a DEF BootTypes
  <2>2. c \in DOMAIN disk /\ c \in Nat
    BY <1>1, <2>1
  <2> QED
    BY <2>2 DEF BootTypes
<1>4. SameTables /\ t = Tables(c)' /\ Misled(c)' = Misled(c) /\ WellChained(t)
  BY <1>1, <1>3, <1>b, DiskSays, TablesSay DEF SameTables, BootTypes, Partitioned
<1>5. f \in FrameTypes /\ f.ext_lba = 0 /\ f.part_idx = 0
  BY <1>c, PartitionsAssumption DEF Frame, FrameTypes
<1>6. IsScan(g) /\ Len(g) = 1 /\ g[1] = f
  <2>1. g \in Seq(FrameTypes) /\ Len(g) = 1 /\ g[1] = f /\ g # <<>>
    BY <1>5, <1>d
  <2> QED
    BY <1>5, <2>1 DEF IsScan
<1>7. ~Past(t, f)
  BY <1>5, PastEnds, Zenon
<1>8. IF Misled(c) THEN Strays(t, g, 0) ELSE Descends(t, Wanted(t), g, 0)
  <2>1. Strays(t, g, 0)
    BY <1>6 DEF Strays
  <2>2. Descends(t, Wanted(t), g, 0)
    <3>1. 1 - 1 <= Wanted(t) /\ 1 - 1 # LogicMax
      BY <1>4, WantedIs
    <3>2. \A j \in 2 .. 1 : FALSE
      OBVIOUS
    <3>3. \A j \in 1 .. 1 - 1 : FALSE
      OBVIOUS
    <3> QED
      BY <1>6, <1>7, <3>1, <3>2, <3>3, Zenon DEF Descends
  <2> QED
    BY <2>1, <2>2
<1>9. prim_parts[c] = <<>> /\ logic_parts[c] = <<>>
  BY <1>2, <1>3, Zenon DEF Untouched
<1>10. Scanning'
  <2>1. PrimIs(prim_parts'[c], c, t, frames'[1].part_idx) /\ p_no' = Len(prim_parts'[c]) /\ p_no' < PrimMax
    BY <1>1, <1>2, <1>5, <1>6, <1>9, PrimNone, PartitionsAssumption
  <2>2. l_no' \in Nat /\ LogicIs(logic_parts'[c], c, t, l_no')
    BY <1>1, <1>2, <1>9, LogicNone
  <2>3. IF Misled(c) THEN Strays(t, frames', l_no') ELSE Descends(t, Wanted(t), frames', l_no')
    BY <1>1, <1>2, <1>8
  <2>4. IsScan(frames')
    BY <1>1, <1>6
  <2> QED
    BY <1>1, <1>3, <1>4, <1>a, <1>b, <2>1, <2>2, <2>3, <2>4, Zenon DEF Scanning
<1>11. BaseIs'
  <2>1. DOMAIN disk' = DOMAIN disk /\ \A d \in DOMAIN disk : HasExtended(d)' = HasExtended(d)
    BY <1>4, TablesSay DEF SameTables
  <2>2. ~Past(Tables(c), frames[1])'
    BY <1>1, <1>4, <1>6, <1>7
  <2>3. \A d : d \in Seen1 <=> d \in DOMAIN disk /\ HasExtended(d) /\ d < c
    BY <1>1, <1>a DEF Seen1
  <2>4. \A d : d \in Seen1' <=> d \in DOMAIN disk /\ HasExtended(d) /\ d < c
    BY <1>1, <1>a, <2>1, <2>2, Zenon DEF Seen1
  <2>5. Seen1' = Seen1
    BY <2>3, <2>4
  <2> QED
    BY <1>1, <1>2, <1>4, <2>5, BaseStays
<1>12. ASSUME NEW d \in DOMAIN disk PROVE (Scanned(d) => Scanned(d)') /\ (Untouched(d) => Untouched(d)')
  <2>1. Tables(d)' = Tables(d) /\ Count(d)' = Count(d)
    BY <1>4, TablesSay DEF SameTables
  <2> QED
    BY <1>1, <2>1 DEF Scanned, Untouched
<1>13. /\ \A d \in DOMAIN disk' : d < channel_no' => Scanned(d)'
       /\ \A d \in DOMAIN disk' : d > channel_no' \/ (d = channel_no' /\ phase' = "probe") => Untouched(d)'
  BY <1>1, <1>2, <1>12, <1>a
<1>14. Listed'
  BY <1>1, <1>2 DEF Listed
<1>15. buffers' = Len(frames') + Cardinality(Kept(channel_no)') + (IF l_no' = LogicMax THEN 1 ELSE 0)
  <2>1. Kept(channel_no)' = Kept(c)
    BY <1>1, <1>4, <1>a, TablesSay DEF Kept, SameTables
  <2>2. Cardinality(Kept(c)) \in Nat /\ LogicMax # 0
    BY KeptFinite, PartitionsAssumption
  <2> QED
    BY <1>1, <1>2, <1>6, <2>1, <2>2
<1> QED
  BY <1>1, <1>10, <1>11, <1>13, <1>14, <1>15 DEF ScanInv

(* What the scan has found stays as it is. *)
LEMMA UpKeeps ==
  ASSUME BootTypes, ScanInv, SameTables, UNCHANGED scan, Up',
         Up \/ (phase = "probe" /\ channel_no = channel_cnt)
  PROVE  ScanInv'
<1>1. /\ channel_cnt \in Nat /\ DOMAIN disk = 0 .. channel_cnt - 1 /\ DOMAIN disk' = DOMAIN disk
      /\ channel_cnt' = channel_cnt
  BY DEF BootTypes, SameTables
<1>2. UNCHANGED <<prim_parts, logic_parts, partition_list, buffers>>
  BY DEF scan
<1>3. (\A c \in DOMAIN disk : Scanned(c)) /\ buffers = Cardinality(Kept(channel_cnt)) /\ Listed
  <2>1. CASE Up
    BY <2>1 DEF Up, ScanInv
  <2>2. CASE phase = "probe" /\ channel_no = channel_cnt
    <3>1. \A d \in DOMAIN disk : d < channel_no
      BY <1>1, <2>2
    <3> QED
      BY <2>2, <3>1 DEF ScanInv
  <2> QED
    BY <2>1, <2>2
<1>4. ASSUME NEW d \in DOMAIN disk PROVE Scanned(d)'
  <2>1. Tables(d)' = Tables(d) /\ Count(d)' = Count(d)
    BY TablesSay DEF SameTables
  <2> QED
    BY <1>2, <1>3, <2>1 DEF Scanned
<1>5. Kept(channel_cnt)' = Kept(channel_cnt)
  BY <1>1, TablesSay DEF Kept
<1>6. Listed'
  BY <1>1, <1>2, <1>3 DEF Listed
<1>7. phase' \in {"search", "format", "up", "fspanic", "adrift"}
  BY DEF Up
<1>8. buffers' = Cardinality(Kept(channel_cnt)')
  BY <1>2, <1>3, <1>5
<1> QED
  BY <1>1, <1>4, <1>6, <1>7, <1>8 DEF ScanInv

(* The disks stay partitioned as long as no sector becomes a table. *)
SameLayout ==
  /\ SameTables
  /\ \A c \in DOMAIN disk : disk'[c] = [lba \in LBAs |-> disk'[c][lba]]
  /\ \A c \in DOMAIN disk : \A lba \in LBAs : disk[c][lba].kind # "table" => disk'[c][lba].kind # "table"

LEMMA TypesStay ==
  ASSUME BootTypes, SameLayout,
         channel_no' \in 0 .. channel_cnt,
         phase' \in {"probe", "scan", "search", "format", "up", "fspanic", "adrift", "panic"},
         part_idx' \in 0 .. Slots, write' \in 0 .. 4,
         prim_parts' \in [Channels -> Seq(Parts)], logic_parts' \in [Channels -> Seq(Parts)],
         partition_list' \in Seq(Parts)
  PROVE  BootTypes'
<1>1. /\ SameTables /\ DOMAIN disk' = DOMAIN disk /\ channel_cnt' = channel_cnt
      /\ \A c \in DOMAIN disk : disk'[c] = [lba \in LBAs |-> disk'[c][lba]]
      /\ \A c \in DOMAIN disk : \A lba \in LBAs : disk[c][lba].kind # "table" => disk'[c][lba].kind # "table"
  BY DEF SameLayout, SameTables
<1>2. ASSUME NEW c \in DOMAIN disk PROVE Partitioned(c)'
  <2>1. Partitioned(c)
    BY DEF BootTypes
  <2>2. /\ Tables(c)' = Tables(c) /\ Readable(c)' = Readable(c) /\ HasExtended(c)' = HasExtended(c)
        /\ Base(c)' = Base(c) /\ Disks' = Disks /\ Disks = DOMAIN disk
    BY <1>1, TablesSay, DisksAre DEF SameTables
  <2>3. \A e \in DOMAIN disk : HasExtended(e)' = HasExtended(e) /\ Base(e)' = Base(e)
    BY <1>1, TablesSay
  <2>4. WellChained(Tables(c))'
    BY <2>1, <2>2 DEF Partitioned
  <2>5. (\A part \in Readable(c) :
           /\ Roomy(part) /\ Sectors(part) \subseteq LBAs
           /\ \A lba \in Sectors(part) : disk[c][lba].kind # "table"
           /\ \A other \in Readable(c) \ {part} : Sectors(part) \cap Sectors(other) = {})'
    <3>1. \A part \in Readable(c) :
            /\ Roomy(part) /\ Sectors(part) \subseteq LBAs
            /\ \A lba \in Sectors(part) : disk[c][lba].kind # "table"
            /\ \A other \in Readable(c) \ {part} : Sectors(part) \cap Sectors(other) = {}
      BY <2>1, Zenon DEF Partitioned
    <3>2. \A part \in Readable(c) : \A lba \in Sectors(part) : disk'[c][lba].kind # "table"
      BY <1>1, <3>1
    <3> QED
      BY <2>2, <3>1, <3>2, Zenon
  <2>6. (\A e \in Disks : e < c /\ HasExtended(e) /\ HasExtended(c) =>
           Base(c) + Base(e) \in LBAs /\ disk[c][Base(c) + Base(e)].kind # "table")'
    <3>1. \A e \in Disks : e < c /\ HasExtended(e) /\ HasExtended(c) =>
            Base(c) + Base(e) \in LBAs /\ disk[c][Base(c) + Base(e)].kind # "table"
      BY <2>1, Zenon DEF Partitioned
    <3>2. \A e \in Disks : e < c /\ HasExtended(e) /\ HasExtended(c) =>
            Base(c) + Base(e) \in LBAs /\ disk'[c][Base(c) + Base(e)].kind # "table"
      BY <1>1, <3>1
    <3> QED
      BY <2>2, <2>3, <3>2
  <2> QED
    BY <2>4, <2>5, <2>6 DEF Partitioned
<1>3. /\ channel_cnt' \in Nat /\ DOMAIN disk' = 0 .. channel_cnt' - 1 /\ DOMAIN disk' \subseteq Channels
      /\ \A c \in DOMAIN disk' : disk'[c] = [lba \in LBAs |-> disk'[c][lba]]
  BY <1>1 DEF BootTypes
<1> QED
  BY <1>1, <1>2, <1>3 DEF BootTypes

LEMMA TypesKeep ==
  ASSUME BootTypes, UNCHANGED <<disk, channel_cnt>>,
         channel_no' \in 0 .. channel_cnt,
         phase' \in {"probe", "scan", "search", "format", "up", "fspanic", "adrift", "panic"},
         part_idx' \in 0 .. Slots, write' \in 0 .. 4,
         prim_parts' \in [Channels -> Seq(Parts)], logic_parts' \in [Channels -> Seq(Parts)],
         partition_list' \in Seq(Parts)
  PROVE  BootTypes'
<1>1. SameLayout
  BY DiskSays DEF SameLayout, BootTypes
<1> QED
  BY <1>1, TypesStay

LEMMA SlotsIs == Slots \in Nat /\ PrimMax \in Nat /\ PrimMax <= Slots /\ 0 \in 0 .. Slots
BY PartitionsAssumption DEF Slots

(* ide_init and partition_scan. *)
LEMMA IdeKeeps == ASSUME BootTypes, ScanInv, ide PROVE BootTypes' /\ ScanInv'
<1>1. /\ channel_no \in 0 .. channel_cnt /\ part_idx \in 0 .. Slots /\ write \in 0 .. 4
      /\ prim_parts \in [Channels -> Seq(Parts)] /\ logic_parts \in [Channels -> Seq(Parts)]
      /\ partition_list \in Seq(Parts)
  BY DEF BootTypes
<1>2. part_idx' = part_idx /\ write' = write
  BY DEF ide, fsvars
<1>3. CASE ide_init
  <2>1. UNCHANGED <<disk, channel_cnt, channel_no, prim_parts, logic_parts, partition_list>> /\ phase' = "scan"
    BY <1>3 DEF ide_init
  <2>2. BootTypes'
    BY <1>1, <1>2, <2>1, TypesKeep
  <2> QED
    BY <1>3, <2>2, BeginKeeps
<1>4. CASE scan_empty
  <2>1. UNCHANGED <<disk, channel_cnt, channel_no, prim_parts, logic_parts, partition_list>> /\ phase' = "scan"
    BY <1>4 DEF scan_empty, AtEntry
  <2>2. BootTypes'
    BY <1>1, <1>2, <2>1, TypesKeep
  <2> QED
    BY <1>4, <2>2, EmptyKeeps
<1>5. CASE scan_extended
  <2>1. UNCHANGED <<disk, channel_cnt, channel_no, prim_parts, logic_parts, partition_list>> /\ phase' = "scan"
    BY <1>5 DEF scan_extended, AtEntry
  <2>2. BootTypes'
    BY <1>1, <1>2, <2>1, TypesKeep
  <2> QED
    BY <1>5, <2>2, ExtendedKeeps
<1>6. CASE scan_primary
  <2>1. UNCHANGED <<disk, channel_cnt, channel_no, logic_parts>> /\ phase' \in {"scan", "panic"}
    BY <1>6 DEF scan_primary, AtEntry
  <2>2. prim_parts' \in [Channels -> Seq(Parts)] /\ partition_list' \in Seq(Parts) /\ ScanInv'
    BY <1>6, PrimaryKeeps
  <2>3. BootTypes'
    BY <1>1, <1>2, <2>1, <2>2, TypesKeep
  <2> QED
    BY <2>2, <2>3
<1>7. CASE scan_logical
  <2>1. UNCHANGED <<disk, channel_cnt, channel_no, prim_parts>> /\ phase' = "scan"
    BY <1>7 DEF scan_logical, AtEntry
  <2>2. logic_parts' \in [Channels -> Seq(Parts)] /\ partition_list' \in Seq(Parts) /\ ScanInv'
    BY <1>7, LogicalKeeps
  <2>3. BootTypes'
    BY <1>1, <1>2, <2>1, <2>2, TypesKeep
  <2> QED
    BY <2>2, <2>3
<1>8. CASE scan_end
  <2>1. /\ UNCHANGED <<disk, channel_cnt, prim_parts, logic_parts, partition_list>>
        /\ phase' \in {"scan", "probe"}
    BY <1>8 DEF scan_end, Return
  <2>2. ScanInv' /\ channel_no' \in 0 .. channel_cnt
    <3>1. CASE Len(frames) > 1
      <4>1. channel_no' = channel_no
        BY <1>8, <3>1 DEF scan_end, Return
      <4> QED
        BY <1>1, <1>8, <3>1, <4>1, ReturnKeeps
    <3>2. CASE ~(Len(frames) > 1)
      BY <1>8, <3>2, NextDisk
    <3> QED
      BY <3>1, <3>2
  <2>3. BootTypes'
    BY <1>1, <1>2, <2>1, <2>2, TypesKeep
  <2> QED
    BY <2>2, <2>3
<1> QED
  BY <1>3, <1>4, <1>5, <1>6, <1>7, <1>8 DEF ide, partition_scan

(* A start: after the power has failed, or the first. *)
LEMMA FailureKeeps ==
  ASSUME BootTypes, power_failure PROVE BootTypes' /\ ScanInv'
<1>1. /\ UNCHANGED <<disk, channel_cnt>> /\ MemoryCleared' /\ part_idx' = 0 /\ write' = 0
      /\ channel_no' = 0 /\ phase' = "probe" /\ partition_list' = <<>>
      /\ prim_parts' = [c \in Channels |-> <<>>] /\ logic_parts' = [c \in Channels |-> <<>>]
  BY DEF power_failure, MemoryCleared
<1>2. /\ prim_parts' \in [Channels -> Seq(Parts)] /\ logic_parts' \in [Channels -> Seq(Parts)]
      /\ partition_list' \in Seq(Parts)
  <2>1. <<>> \in Seq(Parts)
    OBVIOUS
  <2> QED
    BY <1>1, <2>1
<1>3. 0 \in 0 .. channel_cnt
  BY DEF BootTypes
<1>4. BootTypes'
  BY <1>1, <1>2, <1>3, SlotsIs, TypesKeep
<1>5. (BootTypes /\ MemoryCleared => ScanInv)'
  BY ClearedIs, PTL
<1> QED
  BY <1>1, <1>4, <1>5
-----------------------------------------------------------------------------

(* What the scan has found of a disk is what its tables say. *)
LEMMA PrimFound ==
  ASSUME NEW p, NEW c, NEW t, PrimIs(p, c, t, Entries)
  PROVE  /\ DOMAIN p = 1 .. Len(p) /\ Len(p) \in Nat
         /\ ToSet(p) = {PrimaryAt(c, t, i) : i \in Simple(t, 0)}
<1>1. /\ p \in Seq(Parts) /\ Len(p) = Cardinality(Upto(t, Entries))
      /\ \A i \in Simple(t, 0) : i <= Entries => p[Rank(t, i)] = PrimaryAt(c, t, i)
      /\ \A n \in 1 .. Len(p) : \E i \in Simple(t, 0) : i <= Entries /\ n = Rank(t, i)
  BY Zenon DEF PrimIs, Upto
<1>2. \A i \in Simple(t, 0) : i <= Entries
  BY PartitionsAssumption DEF Simple
<1>3. Upto(t, Entries) = Simple(t, 0)
  BY UptoEnds
<1>4. \A i \in Simple(t, 0) : Rank(t, i) \in 1 .. Len(p)
  BY <1>1, <1>3, RankIs
<1>5. DOMAIN p = 1 .. Len(p) /\ Len(p) \in Nat
  BY <1>1
<1>6. ASSUME NEW n \in 1 .. Len(p) PROVE \E i \in Simple(t, 0) : p[n] = PrimaryAt(c, t, i)
  BY <1>1, Zenon
<1>7. ASSUME NEW i \in Simple(t, 0) PROVE \E n \in 1 .. Len(p) : p[n] = PrimaryAt(c, t, i)
  BY <1>1, <1>2, <1>4, Zenon
<1>8. ToSet(p) = {PrimaryAt(c, t, i) : i \in Simple(t, 0)}
  BY <1>5, <1>6, <1>7 DEF ToSet
<1> QED
  BY <1>5, <1>8

LEMMA LogicFound ==
  ASSUME NEW l, NEW c, NEW t, NEW n \in Nat, LogicIs(l, c, t, n)
  PROVE  DOMAIN l = 1 .. n /\ ToSet(l) = {LogicalAt(c, t, i) : i \in 1 .. n}
<1>1. l \in Seq(Parts) /\ Len(l) = n /\ \A i \in 1 .. n : l[i] = LogicalAt(c, t, i)
  BY Zenon DEF LogicIs
<1>2. DOMAIN l = 1 .. n
  BY <1>1
<1> QED
  BY <1>1, <1>2 DEF ToSet

(* Which logical partitions there is room for. *)
LEMMA ReadableIs ==
  ASSUME NEW c, NEW t, t = Tables(c), WellChained(t)
  PROVE  Readable(c) = {PrimaryAt(c, t, i) : i \in Simple(t, 0)} \cup {LogicalAt(c, t, i) : i \in 1 .. Wanted(t)}
<1>1. PICK s : s = Chain(t)
  OBVIOUS
<1>2. s \in Seq(LBAs \ {0}) /\ Len(s) \in Nat /\ LogicMax \in Nat
  BY <1>1, ChainIs, PartitionsAssumption
<1>3. DOMAIN s = 1 .. Len(s)
  BY <1>2
<1>4. \A i : LogicalAt(c, t, i).no = i + 4
  BY DEF LogicalAt, Partition
<1>5. \A i : i \in 1 .. Wanted(t) <=> i \in 1 .. Len(s) /\ i + 4 < LogicMax + 5
  BY <1>1, <1>2 DEF Wanted, Least2
<1>6. Primary(c) = {PrimaryAt(c, t, i) : i \in Simple(t, 0)} /\ Logical(c) = {LogicalAt(c, t, i) : i \in 1 .. Len(s)}
  BY <1>1, <1>3, Zenon DEF Primary, Logical
<1>7. {p \in Logical(c) : p.no < LogicMax + 5} = {LogicalAt(c, t, i) : i \in 1 .. Wanted(t)}
  BY <1>4, <1>5, <1>6
<1> QED
  BY <1>6, <1>7 DEF Readable

(* A disk whose scan is complete: its partitions are those of its tables,  *)
(* unless the base was that of another disk.                               *)
LEMMA FoundAre ==
  ASSUME BootTypes, NEW c \in DOMAIN disk, Scanned(c)
  PROVE  /\ ~Misled(c) => ToSet(prim_parts[c]) \cup ToSet(logic_parts[c]) = Readable(c)
         /\ Numbered(c)
<1>1. PICK t : t = Tables(c)
  OBVIOUS
<1>2. WellChained(t) /\ Wanted(t) \in Nat
  BY <1>1, WantedIs DEF BootTypes, Partitioned
<1>3. PrimIs(prim_parts[c], c, t, Entries) /\ LogicIs(logic_parts[c], c, t, Count(c))
  BY <1>1, Zenon DEF Scanned
<1>4. Numbered(c)
  BY <1>3, PrimNumbers, LogicNumbers, Zenon DEF Numbered
<1>5. ASSUME ~Misled(c) PROVE ToSet(prim_parts[c]) \cup ToSet(logic_parts[c]) = Readable(c)
  <2>1. Count(c) = Wanted(t)
    BY <1>1, <1>5, Zenon DEF Count
  <2>2. ToSet(prim_parts[c]) = {PrimaryAt(c, t, i) : i \in Simple(t, 0)}
    BY <1>3, PrimFound
  <2>3. ToSet(logic_parts[c]) = {LogicalAt(c, t, i) : i \in 1 .. Wanted(t)}
    BY <1>2, <1>3, <2>1, LogicFound
  <2>4. Readable(c) = {PrimaryAt(c, t, i) : i \in Simple(t, 0)} \cup {LogicalAt(c, t, i) : i \in 1 .. Wanted(t)}
    BY <1>1, <1>2, ReadableIs
  <2> QED
    BY <2>2, <2>3, <2>4, Zenon
<1> QED
  BY <1>4, <1>5

LEMMA NumberedSet ==
  ASSUME BootTypes, NEW d \in DOMAIN disk, Numbered(d), NEW p \in ToSet(prim_parts[d]) \cup ToSet(logic_parts[d])
  PROVE  p.disk = d
<1>1. /\ \A n \in 1 .. Len(prim_parts[d]) : prim_parts[d][n].disk = d
      /\ \A n \in 1 .. Len(logic_parts[d]) : logic_parts[d][n].disk = d
  BY Zenon DEF Numbered
<1>2. d \in Channels /\ prim_parts[d] \in Seq(Parts) /\ logic_parts[d] \in Seq(Parts)
  BY DEF BootTypes
<1>3. DOMAIN prim_parts[d] = 1 .. Len(prim_parts[d]) /\ DOMAIN logic_parts[d] = 1 .. Len(logic_parts[d])
  BY <1>2
<1> QED
  BY <1>1, <1>3, Zenon DEF ToSet

(* The invariant implies what the scan promises. *)
LEMMA TablesMatch == BootTypes /\ ScanInv => ScanMatchesTables
<1> SUFFICES ASSUME BootTypes, ScanInv PROVE ScanMatchesTables
  OBVIOUS
<1>1. phase = "panic" => Cardinality(Primary(channel_no)) >= PrimMax
  BY Zenon DEF ScanInv
<1>2. ASSUME phase \notin {"probe", "scan", "panic"}
      PROVE  /\ IsInjective(partition_list)
             /\ \A c \in Disks : ~Misled(c) => {p \in ToSet(partition_list) : p.disk = c} = Readable(c)
             /\ buffers = Cardinality({c \in Disks : ~Misled(c) /\ Full(c)})
  <2>1. phase \in {"search", "format", "up", "fspanic", "adrift"}
    BY <1>2 DEF BootTypes
  <2>2. (\A c \in DOMAIN disk : Scanned(c)) /\ buffers = Cardinality(Kept(channel_cnt)) /\ Listed
    BY <2>1 DEF ScanInv
  <2>3. Disks = DOMAIN disk /\ \A c \in DOMAIN disk : c < channel_cnt
    BY DisksAre DEF BootTypes
  <2>4. Kept(channel_cnt) = {c \in Disks : ~Misled(c) /\ Full(c)}
    BY <2>3, Zenon DEF Kept
  <2>5. IsInjective(partition_list)
    BY <2>2, Zenon DEF IsInjective, Listed
  <2>6. ASSUME NEW c \in Disks, ~Misled(c)
        PROVE  {p \in ToSet(partition_list) : p.disk = c} = Readable(c)
    <3>1. c \in DOMAIN disk
      BY <2>3
    <3>2. ToSet(prim_parts[c]) \cup ToSet(logic_parts[c]) = Readable(c)
      BY <2>2, <2>6, <3>1, FoundAre, Zenon
    <3>3. \A d \in DOMAIN disk : \A p \in ToSet(prim_parts[d]) \cup ToSet(logic_parts[d]) : p.disk = d
      BY <2>2, FoundAre, NumberedSet, Zenon
    <3>4. ToSet(partition_list) = UNION {ToSet(prim_parts[d]) \cup ToSet(logic_parts[d]) : d \in DOMAIN disk}
      BY <2>2, Zenon DEF Listed
    <3> QED
      BY <3>1, <3>2, <3>3, <3>4
  <2> QED
    BY <2>2, <2>4, <2>5, <2>6
<1> QED
  BY <1>1, <1>2, Zenon DEF ScanMatchesTables
-----------------------------------------------------------------------------

(* Numbers of sectors, rounded up. *)
LEMMA UpIs ==
  ASSUME NEW x \in Nat, NEW d \in Nat \ {0}, NEW q, q = DIV_ROUND_UP(x, d)
  PROVE  q \in Nat /\ x <= d * q /\ d * q <= x + d - 1 /\ q <= x /\ (x > 0 => q > 0)
<1>1. PICK y \in Nat : y = x + d - 1
  OBVIOUS
<1>2. q = y \div d
  BY <1>1 DEF DIV_ROUND_UP
<1>3. q \in Nat /\ d * q <= y /\ y < d * q + d
  BY <1>2
<1>4. x <= d * q /\ d * q <= x + d - 1
  BY <1>1, <1>3
<1>5. ASSUME q > x PROVE FALSE
  <2>1. d * q >= d * (x + 1) /\ d * (x + 1) = d * x + d /\ d * x >= x
    BY <1>3, <1>5
  <2> QED
    BY <1>4, <2>1, <1>3
<1>6. x > 0 => q > 0
  BY <1>3, <1>4
<1> QED
  BY <1>3, <1>4, <1>5, <1>6

(* More bits take at least as many sectors. *)
LEMMA UpGrows ==
  ASSUME NEW d \in Nat \ {0}, NEW x \in Nat, NEW y \in Nat, x <= y
  PROVE  DIV_ROUND_UP(x, d) <= DIV_ROUND_UP(y, d)
<1>1. PICK p : p = DIV_ROUND_UP(x, d)
  OBVIOUS
<1>2. PICK q : q = DIV_ROUND_UP(y, d)
  OBVIOUS
<1>3. p \in Nat /\ d * p <= x + d - 1
  BY <1>1, UpIs
<1>4. q \in Nat /\ y <= d * q
  BY <1>2, UpIs
<1>5. ASSUME p >= q + 1 PROVE FALSE
  <2>1. d * p >= d * (q + 1) /\ d * (q + 1) = d * q + d
    BY <1>3, <1>4, <1>5
  <2> QED
    BY <1>3, <1>4, <2>1
<1> QED
  BY <1>1, <1>2, <1>3, <1>4, <1>5

(* The file system's own sectors leave room for the root directory, and    *)
(* what follows the inode table has a sector for each block but the last.  *)
LEMMA LayoutIs ==
  ASSUME NEW part \in Parts, Roomy(part),
         NEW n, n = part.sec_cnt, NEW len, len = block_bitmap_bit_len(part),
         NEW bb, bb = block_bitmap_sects(part),
         NEW ib, ib = inode_bitmap_sects, NEW it, it = inode_table_sects
  PROVE  /\ n \in Nat /\ len \in Nat /\ len >= ByteBits
         /\ bb \in Nat \ {0} /\ ib \in Nat \ {0} /\ it \in Nat \ {0}
         /\ 3 + bb + ib + it <= n /\ 2 + bb + ib + it + len <= n
<1>1. PICK B \in Nat \ {0} : B = BitsPerSector
  <2>1. ByteBits \in Nat \ {0} /\ SectorBytes \in Nat \ {0}
    BY BootAssumption
  <2>2. ByteBits * SectorBytes \in Nat \ {0}
    BY <2>1
  <2> QED
    BY <2>2 DEF BitsPerSector
<1>2. /\ MaxFiles \in Nat \ {0} /\ InodeBytes \in Nat \ {0} /\ ByteBits \in Nat \ {0}
      /\ SectorBytes \in Nat \ {0}
  BY BootAssumption
<1>3. ib \in Nat \ {0}
  BY <1>1, <1>2, UpIs DEF inode_bitmap_sects
<1>4. it \in Nat \ {0}
  <2>1. PICK x \in Nat \ {0} : x = InodeBytes * MaxFiles
    BY <1>2
  <2>2. it = DIV_ROUND_UP(x, SectorBytes)
    BY <2>1 DEF inode_table_sects
  <2> QED
    BY <1>2, <2>1, <2>2, UpIs
<1>5. n \in Nat
  BY DEF Parts
<1>6. PICK f : f = free_sects(part)
  OBVIOUS
<1>7. f = n - (2 + ib + it) /\ f \in Nat \ {0}
  BY <1>3, <1>4, <1>5, <1>6 DEF free_sects, used_sects, Roomy
<1>8. PICK q : q = DIV_ROUND_UP(f, B)
  OBVIOUS
<1>9. q \in Nat \ {0} /\ q <= f
  BY <1>1, <1>7, <1>8, UpIs
<1>10. len = f - q /\ len \in Nat /\ len >= ByteBits /\ len <= f
  BY <1>1, <1>6, <1>7, <1>8, <1>9 DEF block_bitmap_bit_len, Roomy
<1>11. bb = DIV_ROUND_UP(len, B)
  BY <1>1 DEF block_bitmap_sects
<1>12. bb \in Nat \ {0} /\ bb <= len
  BY <1>1, <1>2, <1>10, <1>11, UpIs
<1>13. bb <= q
  BY <1>1, <1>7, <1>8, <1>10, <1>11, UpGrows
<1> QED
  BY <1>3, <1>4, <1>5, <1>7, <1>9, <1>10, <1>12, <1>13

LEMMA RangeInside ==
  ASSUME NEW s \in Nat, NEW n \in Nat, NEW a \in Nat, NEW b \in Nat \ {0}, s <= a, a + b <= s + n
  PROVE  a .. a + b - 1 \subseteq s .. s + n - 1 /\ a .. a + b - 1 # {}
<1>1. a \in a .. a + b - 1
  OBVIOUS
<1>2. \A x \in a .. a + b - 1 : x \in s .. s + n - 1
  OBVIOUS
<1> QED
  BY <1>1, <1>2

(* The number of sectors that ide_write makes of n, a uint8_t. *)
LEMMA SecCntIs ==
  /\ \A n \in Nat : SecCnt(n) \in 0 .. n /\ (n < UInt8 => SecCnt(n) = n)
  /\ SecCnt(1) = 1
<1>1. UInt8 \in Nat \ {0, 1}
  BY BootAssumption
<1>2. ASSUME NEW n \in Nat PROVE SecCnt(n) \in 0 .. n /\ (n < UInt8 => SecCnt(n) = n)
  BY <1>1, <1>2 DEF SecCnt
<1> QED
  BY <1>1, <1>2 DEF SecCnt

(* The areas the five writes are meant for and the sectors they reach:     *)
(* those of the partition, each once.                                      *)
Area(part, i)    == Writes(part)[i][1] .. Writes(part)[i][1] + Writes(part)[i][2] - 1
Region(part, i)  == Reached(Writes(part)[i])
Content(part, i) == Writes(part)[i][3]
InTurn(part) ==
  /\ \A i \in 1 .. 5 : Region(part, i) \subseteq Sectors(part)
  /\ \A i, j \in 1 .. 5 : i < j => Region(part, i) \cap Region(part, j) = {}
  /\ Region(part, 1) = {part.start_lba + 1}

(* The five writes stay inside the partition and do not overlap. *)
LEMMA RegionsAre == ASSUME NEW part \in Parts, Roomy(part) PROVE InTurn(part)
<1>1. PICK s : s = part.start_lba
  OBVIOUS
<1>2. PICK n : n = part.sec_cnt
  OBVIOUS
<1>3. PICK bb : bb = block_bitmap_sects(part)
  OBVIOUS
<1>4. PICK ib : ib = inode_bitmap_sects
  OBVIOUS
<1>5. PICK it : it = inode_table_sects
  OBVIOUS
<1>6. /\ n \in Nat /\ bb \in Nat \ {0} /\ ib \in Nat \ {0} /\ it \in Nat \ {0} /\ 3 + bb + ib + it <= n
  BY <1>2, <1>3, <1>4, <1>5, LayoutIs
<1>7. s \in Nat
  BY <1>1 DEF Parts
<1>8. PICK sb : sb = super_block(part)
  OBVIOUS
<1>9. /\ sb.block_bitmap_lba = s + 2 /\ sb.block_bitmap_sects = bb
      /\ sb.inode_bitmap_lba = s + 2 + bb /\ sb.inode_bitmap_sects = ib
      /\ sb.inode_table_lba = s + 2 + bb + ib /\ sb.inode_table_sects = it
      /\ sb.data_start_lba = s + 2 + bb + ib + it
  BY <1>1, <1>3, <1>4, <1>5, <1>8 DEF super_block
<1>10. Sectors(part) = s .. s + n - 1
  BY <1>1, <1>2 DEF Sectors
<1>11. /\ Area(part, 1) = s + 1 .. s + 1 + 1 - 1
       /\ Area(part, 2) = s + 2 .. s + 2 + bb - 1
       /\ Area(part, 3) = s + 2 + bb .. s + 2 + bb + ib - 1
       /\ Area(part, 4) = s + 2 + bb + ib .. s + 2 + bb + ib + it - 1
       /\ Area(part, 5) = s + 2 + bb + ib + it .. s + 2 + bb + ib + it + 1 - 1
  BY <1>1, <1>8, <1>9 DEF Area, Writes
<1>12. \A i \in 1 .. 5 : Area(part, i) \subseteq Sectors(part) /\ Area(part, i) # {}
  <2>1. Area(part, 1) \subseteq Sectors(part) /\ Area(part, 1) # {}
    <3>1. PICK a \in Nat : a = s + 1
      BY <1>6, <1>7
    <3>2. s <= a /\ a + 1 <= s + n
      BY <1>6, <1>7, <3>1
    <3>3. Area(part, 1) = a .. a + 1 - 1
      BY <1>11, <3>1
    <3>4. 1 \in Nat \ {0}
      OBVIOUS
    <3> QED
      BY <1>6, <1>7, <1>10, <3>2, <3>3, <3>4, RangeInside
  <2>2. Area(part, 2) \subseteq Sectors(part) /\ Area(part, 2) # {}
    <3>1. PICK a \in Nat : a = s + 2
      BY <1>6, <1>7
    <3>2. s <= a /\ a + bb <= s + n
      BY <1>6, <1>7, <3>1
    <3>3. Area(part, 2) = a .. a + bb - 1
      BY <1>11, <3>1
    <3> QED
      BY <1>6, <1>7, <1>10, <3>2, <3>3, RangeInside
  <2>3. Area(part, 3) \subseteq Sectors(part) /\ Area(part, 3) # {}
    <3>1. PICK a \in Nat : a = s + 2 + bb
      BY <1>6, <1>7
    <3>2. s <= a /\ a + ib <= s + n
      BY <1>6, <1>7, <3>1
    <3>3. Area(part, 3) = a .. a + ib - 1
      BY <1>11, <3>1
    <3> QED
      BY <1>6, <1>7, <1>10, <3>2, <3>3, RangeInside
  <2>4. Area(part, 4) \subseteq Sectors(part) /\ Area(part, 4) # {}
    <3>1. PICK a \in Nat : a = s + 2 + bb + ib
      BY <1>6, <1>7
    <3>2. s <= a /\ a + it <= s + n
      BY <1>6, <1>7, <3>1
    <3>3. Area(part, 4) = a .. a + it - 1
      BY <1>11, <3>1
    <3> QED
      BY <1>6, <1>7, <1>10, <3>2, <3>3, RangeInside
  <2>5. Area(part, 5) \subseteq Sectors(part) /\ Area(part, 5) # {}
    <3>1. PICK a \in Nat : a = s + 2 + bb + ib + it
      BY <1>6, <1>7
    <3>2. s <= a /\ a + 1 <= s + n
      BY <1>6, <1>7, <3>1
    <3>3. Area(part, 5) = a .. a + 1 - 1
      BY <1>11, <3>1
    <3>4. 1 \in Nat \ {0}
      OBVIOUS
    <3> QED
      BY <1>6, <1>7, <1>10, <3>2, <3>3, <3>4, RangeInside
  <2> QED
    BY <2>1, <2>2, <2>3, <2>4, <2>5
<1>13. \A i, j \in 1 .. 5 : i < j => \A lba \in Area(part, i) : lba \notin Area(part, j)
  <2>1. \A j \in 2 .. 5 : \A lba \in Area(part, 1) : lba \notin Area(part, j)
    BY <1>6, <1>7, <1>11
  <2>2. \A j \in 3 .. 5 : \A lba \in Area(part, 2) : lba \notin Area(part, j)
    BY <1>6, <1>7, <1>11
  <2>3. \A j \in 4 .. 5 : \A lba \in Area(part, 3) : lba \notin Area(part, j)
    BY <1>6, <1>7, <1>11
  <2>4. \A lba \in Area(part, 4) : lba \notin Area(part, 5)
    BY <1>6, <1>7, <1>11
  <2> QED
    BY <2>1, <2>2, <2>3, <2>4
<1>14. ASSUME NEW i \in 1 .. 5 PROVE Region(part, i) \subseteq Area(part, i)
  <2>1. PICK a \in Nat : a = Writes(part)[i][1]
    BY <1>1, <1>6, <1>7, <1>8, <1>9 DEF Writes
  <2>2. PICK k \in Nat : k = Writes(part)[i][2]
    BY <1>6, <1>8, <1>9 DEF Writes
  <2>3. PICK m \in 0 .. k : m = SecCnt(k)
    BY SecCntIs
  <2>4. Region(part, i) = a .. a + m - 1 /\ Area(part, i) = a .. a + k - 1
    BY <2>1, <2>2, <2>3 DEF Region, Reached, Area
  <2> QED
    BY <2>3, <2>4
<1>15. Region(part, 1) = {s + 1}
  <2>1. Writes(part)[1][1] = s + 1 /\ Writes(part)[1][2] = 1
    BY <1>1 DEF Writes
  <2> QED
    BY <1>7, <2>1, SecCntIs DEF Region, Reached
<1>16. \A i, j \in 1 .. 5 : i < j => Region(part, i) \cap Region(part, j) = {}
  BY <1>13, <1>14
<1> QED
  BY <1>1, <1>12, <1>14, <1>15, <1>16 DEF InTurn

(* Only the first write makes a super block, and none makes a table. *)
LEMMA ContentIs ==
  ASSUME NEW part, NEW i \in 1 .. 5
  PROVE  Content(part, i).kind # "table" /\ (Content(part, i).kind = "super" <=> i = 1)
<1>1. PICK sb : sb = super_block(part)
  OBVIOUS
<1>2. /\ Content(part, 1) = Super(part) /\ Content(part, 2) = Bits(block_bitmap(part))
      /\ Content(part, 3) = Bits({0}) /\ Content(part, 4) = Inodes(sb.data_start_lba)
      /\ Content(part, 5) = RootDir
  BY <1>1 DEF Content, Writes
<1>3. /\ Content(part, 1).kind = "super" /\ Content(part, 2).kind = "bits" /\ Content(part, 3).kind = "bits"
      /\ Content(part, 4).kind = "inodes" /\ Content(part, 5).kind = "root"
  BY <1>2 DEF Super, Bits, Inodes, RootDir
<1> QED
  BY <1>3
LEMMA DivIs ==
  ASSUME NEW x \in Nat, NEW d \in Nat \ {0}, NEW k \in Nat, k = x \div d, NEW r \in Nat, r = x % d
  PROVE  /\ r < d /\ d * k + r = x
         /\ d * k <= x /\ x < d * k + d
OBVIOUS

(* Which bits of the block bitmap are clear. *)
LEMMA ClearBits ==
  ASSUME NEW part \in Parts, Roomy(part),
         NEW bit \in (0 .. block_bitmap_sects(part) * BitsPerSector - 1) \ block_bitmap(part)
  PROVE  bit # 0 /\ bit \in Nat /\ bit <= block_bitmap_bit_len(part)
<1>1. PICK b \in Nat \ {0} : b = ByteBits
  BY BootAssumption
<1>2. PICK s \in Nat \ {0} : s = SectorBytes
  BY BootAssumption
<1>3. PICK len : len = block_bitmap_bit_len(part)
  OBVIOUS
<1>4. len \in Nat /\ len >= b
  BY <1>1, <1>3, LayoutIs
<1>5. PICK q \in Nat : q = len \div b
  BY <1>4
<1>5a. PICK r \in Nat : r = len % b
  BY <1>4
<1>5b. PICK x \in Nat : x = q % s
  OBVIOUS
<1>6. PICK z : z = s - x
  OBVIOUS
<1>7. PICK bb : bb = block_bitmap_sects(part)
  OBVIOUS
<1>8. bb = DIV_ROUND_UP(len, b * s)
  BY <1>1, <1>2, <1>3, <1>7 DEF block_bitmap_sects, BitsPerSector
<1>9. len = q * b + r /\ z \in Nat /\ bb \in Nat /\ bb * (b * s) <= (q + z) * b
  <2>1. b * q <= len /\ len < b * q + b /\ b * q + r = len
    BY <1>4, <1>5, <1>5a, DivIs
  <2>2. q * b = b * q
    BY <2>1
  <2>3. PICK k \in Nat : k = q \div s
    OBVIOUS
  <2>4. s * k + x = q /\ q < s * k + s /\ x < s
    BY <2>3, <1>5b, DivIs
  <2>5. z \in Nat /\ q + z = s * k + s
    <3>1. PICK y \in Nat : y = s * k
      BY <2>3
    <3> QED
      BY <2>4, <1>6, <3>1
  <2>6. PICK e \in Nat \ {0} : e = b * s
    OBVIOUS
  <2>7. bb \in Nat /\ e * bb <= len + e - 1
    BY <2>6, <1>4, <1>8, UpIs
  <2>8. len < e * k + e
    <3>1. PICK m \in Nat : m = s * k + s
      BY <2>4
    <3>2. q + 1 <= m
      BY <2>1, <2>4, <3>1
    <3>3. b * (q + 1) <= b * m /\ b * (q + 1) = b * q + b
      BY <2>1, <3>2
    <3>4. b * m = e * k + e
      BY <2>4, <2>6, <3>1
    <3> QED
      BY <2>1, <3>3, <3>4, <2>4, <2>6
  <2>9. bb <= k + 1
    <3>1. ASSUME bb >= k + 2 PROVE FALSE
      <4>1. e * bb >= e * (k + 2) /\ e * (k + 2) = e * k + e + e
        BY <2>4, <2>6, <2>7, <3>1
      <4>2. e * k \in Nat /\ e * bb \in Nat
        BY <2>4, <2>6, <2>7
      <4> QED
        BY <1>4, <2>6, <2>7, <2>8, <4>1, <4>2
    <3> QED
      BY <2>4, <2>7, <3>1
  <2>10. bb * e <= (k + 1) * e
    BY <2>4, <2>6, <2>7, <2>9
  <2>11. (k + 1) * e = (q + z) * b
    BY <2>1, <2>4, <2>5, <2>6
  <2> QED
    BY <2>1, <2>2, <2>5, <2>6, <2>7, <2>10, <2>11
<1>10. PICK u \in Nat : u = q * b
  BY <1>1, <1>9
<1>11. PICK v \in Nat : v = (q + z) * b
  BY <1>1, <1>9
<1>12. PICK w \in Nat : w = bb * (b * s)
  BY <1>1, <1>2, <1>9
<1>13. block_bitmap(part) = (({0} \cup (u .. v - 1)) \ (u .. u + r)) \cap (0 .. w - 1)
  BY <1>1, <1>2, <1>3, <1>5, <1>5a, <1>5b, <1>6, <1>7, <1>10, <1>11, <1>12 DEF block_bitmap, BitsPerSector
<1>14. bit \in 0 .. w - 1 /\ bit \in Nat
  BY <1>1, <1>2, <1>7, <1>12 DEF BitsPerSector
<1>15. u >= 1
  <2>1. q >= 1
    <3>1. len < b * q + b
      BY <1>4, <1>5, <1>5a, DivIs
    <3>2. ASSUME q = 0 PROVE FALSE
      <4>1. b * q = 0
        BY <3>2
      <4> QED
        BY <1>4, <3>1, <4>1
    <3> QED
      BY <1>9, <3>2
  <2>2. q * b >= b
    BY <1>9, <2>1
  <2> QED
    BY <1>10, <2>2
<1>16. w <= v /\ len = u + r
  BY <1>9, <1>10, <1>11, <1>12
<1>17. bit \notin (({0} \cup (u .. v - 1)) \ (u .. u + r))
  BY <1>13, <1>14
<1>18. bit # 0 /\ bit <= len
  BY <1>4, <1>9, <1>14, <1>15, <1>16, <1>17
<1> QED
  BY <1>3, <1>14, <1>18

(* The partitions of a disk. *)
LEMMA ReadableAre ==
  ASSUME BootTypes, NEW c \in DOMAIN disk, NEW part \in Readable(c)
  PROVE  /\ part \in Parts /\ part.disk = c /\ Roomy(part) /\ Sectors(part) \subseteq LBAs
         /\ \A lba \in Sectors(part) : disk[c][lba].kind # "table"
         /\ \A other \in Readable(c) : other # part => Sectors(part) \cap Sectors(other) = {}
<1>1. PICK t : t = Tables(c)
  OBVIOUS
<1>2. WellChained(t) /\ Partitioned(c)
  BY <1>1 DEF BootTypes, Partitioned
<1>3. Readable(c) = {PrimaryAt(c, t, i) : i \in Simple(t, 0)} \cup {LogicalAt(c, t, i) : i \in 1 .. Wanted(t)}
  BY <1>1, <1>2, ReadableIs
<1>4. part \in Parts
  <2>1. \A i \in 1 .. Wanted(t) : i \in 1 .. Len(Chain(t))
    BY <1>2, WantedIs
  <2>2. /\ \A i \in Simple(t, 0) : PrimaryAt(c, t, i) \in Parts
        /\ \A i \in 1 .. Len(Chain(t)) : LogicalAt(c, t, i) \in Parts
    BY <1>1, PartsAre, Zenon
  <2> QED
    BY <1>3, <2>1, <2>2
<1>5. part.disk = c
  <2>1. \A i : PrimaryAt(c, t, i).disk = c /\ LogicalAt(c, t, i).disk = c
    BY DEF PrimaryAt, LogicalAt, Partition
  <2> QED
    BY <1>3, <2>1
<1>6. /\ Roomy(part) /\ Sectors(part) \subseteq LBAs
      /\ \A lba \in Sectors(part) : disk[c][lba].kind # "table"
      /\ \A other \in Readable(c) : other # part => Sectors(part) \cap Sectors(other) = {}
  BY <1>2, Zenon DEF Partitioned
<1> QED
  BY <1>4, <1>5, <1>6

(* The invariant implies what the block bitmaps promise. *)
LEMMA AreBlocksInside == BootTypes /\ FormatInv => BlocksInside
<1> SUFFICES ASSUME BootTypes, FormatInv, NEW part \in finished,
                    NEW bit \in (0 .. block_bitmap_sects(part) * BitsPerSector - 1) \ block_bitmap(part)
             PROVE  /\ bit # 0
                    /\ super_block(part).data_start_lba + bit \in Sectors(part) \cup {part.start_lba + part.sec_cnt}
  BY DEF BlocksInside
<1>1. part \in Parts /\ Roomy(part)
  <2>1. part.disk \in DOMAIN disk /\ part \in Readable(part.disk)
    BY DEF FormatInv, FormattedAre, Formatted
  <2> QED
    BY <2>1, ReadableAre
<1>2. PICK s : s = part.start_lba
  OBVIOUS
<1>3. PICK n : n = part.sec_cnt
  OBVIOUS
<1>4. PICK bb : bb = block_bitmap_sects(part)
  OBVIOUS
<1>5. PICK ib : ib = inode_bitmap_sects
  OBVIOUS
<1>6. PICK it : it = inode_table_sects
  OBVIOUS
<1>7. PICK len : len = block_bitmap_bit_len(part)
  OBVIOUS
<1>8. /\ n \in Nat /\ len \in Nat /\ bb \in Nat \ {0} /\ ib \in Nat \ {0} /\ it \in Nat \ {0}
      /\ 2 + bb + ib + it + len <= n
  BY <1>1, <1>3, <1>4, <1>5, <1>6, <1>7, LayoutIs
<1>9. bit # 0 /\ bit \in Nat /\ bit <= len
  BY <1>1, <1>7, ClearBits
<1>10. s \in Nat
  BY <1>1, <1>2 DEF Parts
<1>11. super_block(part).data_start_lba = s + 2 + bb + ib + it
  BY <1>2, <1>4, <1>5, <1>6 DEF super_block
<1>12. PICK x \in Nat : x = s + 2 + bb + ib + it + bit
  BY <1>8, <1>9, <1>10
<1>13. x \in s .. s + n - 1 \/ x = s + n
  BY <1>8, <1>9, <1>10, <1>12
<1> QED
  BY <1>2, <1>3, <1>9, <1>11, <1>12, <1>13 DEF Sectors
-----------------------------------------------------------------------------

(* What a write of partition_format does. *)
Written(c, part, i) ==
  /\ DOMAIN disk' = DOMAIN disk
  /\ \A d \in DOMAIN disk : disk'[d] = [lba \in LBAs |-> disk'[d][lba]]
  /\ \A d \in DOMAIN disk : d # c => disk'[d] = disk[d]
  /\ \A lba \in Region(part, i) : disk'[c][lba] = Content(part, i)
  /\ \A lba \in LBAs : lba \notin Region(part, i) => disk'[c][lba] = disk[c][lba]

LEMMA HoldsIs ==
  ASSUME NEW c, NEW part, NEW j
  PROVE  Holds(c, Writes(part)[j]) <=> \A lba \in Region(part, j) : disk[c][lba] = Content(part, j)
BY Zenon DEF Holds, Region, Content

(* A write goes to the partition that is being formatted, which was not    *)
(* formatted before, and the writes before it are still on the disk.       *)
LEMMA WriteIs ==
  ASSUME BootTypes, FormatInv, format_write, NEW part, part = Here, NEW i, i = write + 1
  PROVE  /\ 0 \in DOMAIN disk /\ part \in Readable(0) /\ part \notin Formatted /\ i \in 1 .. 5
         /\ part \in Parts /\ part.disk = 0 /\ InTurn(part) /\ Sectors(part) \subseteq LBAs
         /\ Written(0, part, i)
         /\ \A j \in 1 .. i - 1 : Holds(0, Writes(part)[j])
<1>1. phase = "format"
  BY DEF format_write
<1>2. /\ channel_no = 0 /\ channel_cnt > 0 /\ part \in Readable(0) \ Formatted
      /\ \A j \in 1 .. write : Holds(0, Writes(part)[j])
  BY <1>1, Zenon DEF FormatInv, Formatting
<1>3. /\ channel_cnt \in Nat /\ DOMAIN disk = 0 .. channel_cnt - 1 /\ write \in 0 .. 4
      /\ \A d \in DOMAIN disk : disk[d] = [lba \in LBAs |-> disk[d][lba]]
  BY DEF BootTypes
<1>4. 0 \in DOMAIN disk /\ i \in 1 .. 5 /\ i - 1 = write
  BY <1>2, <1>3
<1>5. part \in Parts /\ part.disk = 0 /\ Roomy(part) /\ Sectors(part) \subseteq LBAs
  BY <1>2, <1>4, ReadableAre
<1>6. InTurn(part) /\ Region(part, i) \subseteq LBAs
  BY <1>4, <1>5, RegionsAre DEF InTurn
<1>7. disk' = [disk EXCEPT ![0] = [lba \in LBAs |->
                 IF lba \in Region(part, i) THEN Content(part, i) ELSE disk[0][lba]]]
  BY <1>2, Zenon DEF format_write, ide_write, Region, Content
<1>8. PICK h : h = [lba \in LBAs |-> IF lba \in Region(part, i) THEN Content(part, i) ELSE disk[0][lba]]
  OBVIOUS
<1>9. DOMAIN disk' = DOMAIN disk /\ disk'[0] = h /\ \A d \in DOMAIN disk : d # 0 => disk'[d] = disk[d]
  <2>1. disk' = [disk EXCEPT ![0] = h]
    BY <1>7, <1>8
  <2> QED
    BY <1>4, <2>1
<1>10. /\ \A lba \in Region(part, i) : h[lba] = Content(part, i)
       /\ \A lba \in LBAs : lba \notin Region(part, i) => h[lba] = disk[0][lba]
       /\ h = [lba \in LBAs |-> h[lba]]
  BY <1>6, <1>8
<1>11. \A d \in DOMAIN disk : disk'[d] = [lba \in LBAs |-> disk'[d][lba]]
  BY <1>3, <1>9, <1>10
<1>12. Written(0, part, i)
  BY <1>9, <1>10, <1>11 DEF Written
<1> QED
  BY <1>2, <1>4, <1>5, <1>6, <1>12

(* No table is written, nor is a sector that held one. *)
LEMMA WriteKeepsTables ==
  ASSUME BootTypes, FormatInv, format_write PROVE SameLayout
<1>1. PICK part : part = Here
  OBVIOUS
<1>2. PICK i : i = write + 1
  OBVIOUS
<1>3. /\ 0 \in DOMAIN disk /\ part \in Readable(0) /\ i \in 1 .. 5 /\ InTurn(part)
      /\ Sectors(part) \subseteq LBAs /\ Written(0, part, i)
  BY <1>1, <1>2, WriteIs
<1>4. Region(part, i) \subseteq Sectors(part)
  BY <1>3 DEF InTurn
<1>5. \A lba \in Sectors(part) : disk[0][lba].kind # "table"
  BY <1>3, ReadableAre
<1>6. /\ DOMAIN disk' = DOMAIN disk
      /\ \A d \in DOMAIN disk : d # 0 => disk'[d] = disk[d]
      /\ \A lba \in Region(part, i) : disk'[0][lba] = Content(part, i)
      /\ \A lba \in LBAs : lba \notin Region(part, i) => disk'[0][lba] = disk[0][lba]
  BY <1>3, Zenon DEF Written
<1>7. Content(part, i).kind # "table"
  BY <1>3, ContentIs
<1>8. ASSUME NEW lba \in LBAs PROVE Table(0, lba)' = Table(0, lba)
  <2>1. CASE lba \in Region(part, i)
    <3>1. disk[0][lba].kind # "table" /\ disk'[0][lba].kind # "table"
      BY <1>4, <1>5, <1>6, <1>7, <2>1
    <3> QED
      BY <3>1, Zenon DEF Table
  <2>2. CASE lba \notin Region(part, i)
    BY <1>6, <2>2, Zenon DEF Table
  <2> QED
    BY <2>1, <2>2
<1>9. ASSUME NEW d \in DOMAIN disk PROVE Tables(d)' = Tables(d)
  <2>1. ASSUME NEW lba \in LBAs PROVE Table(d, lba)' = Table(d, lba)
    <3>1. CASE d = 0
      BY <1>8, <3>1
    <3>2. CASE d # 0
      BY <1>6, <3>2, Zenon DEF Table
    <3> QED
      BY <3>1, <3>2
  <2> QED
    BY <2>1, Zenon DEF Tables
<1>10. channel_cnt' = channel_cnt
  BY DEF format_write
<1>11. SameTables
  BY <1>6, <1>9, <1>10 DEF SameTables
<1>12. ASSUME NEW d \in DOMAIN disk, NEW lba \in LBAs, disk[d][lba].kind # "table"
       PROVE  disk'[d][lba].kind # "table"
  <2>1. CASE d = 0 /\ lba \in Region(part, i)
    BY <1>6, <1>7, <2>1
  <2>2. CASE d # 0 \/ lba \notin Region(part, i)
    BY <1>6, <1>12, <2>2
  <2> QED
    BY <2>1, <2>2
<1>13. \A d \in DOMAIN disk : disk'[d] = [lba \in LBAs |-> disk'[d][lba]]
  BY <1>3, Zenon DEF Written
<1> QED
  BY <1>11, <1>12, <1>13, Zenon DEF SameLayout
(* filesys_init looks at each partition of the first disk. *)
LEMMA AtIs ==
  ASSUME BootTypes, ScanInv, Up, 0 \in DOMAIN disk
  PROVE  /\ \A idx \in 0 .. Slots - 1 : At(idx).sec_cnt # 0 => At(idx) \in Readable(0)
         /\ \A part \in Readable(0) : part.sec_cnt # 0 /\ \E idx \in 0 .. Slots - 1 : At(idx) = part
<1>1. PICK p : p = prim_parts[0]
  OBVIOUS
<1>2. PICK l : l = logic_parts[0]
  OBVIOUS
<1>3. PICK t : t = Tables(0)
  OBVIOUS
<1>4. Scanned(0)
  BY DEF ScanInv, Up
<1>5. ~Misled(0)
  <2>1. Disks \subseteq Nat
    BY DisksAre
  <2>2. \A e \in Disks : ~(e < 0)
    BY <2>1
  <2> QED
    BY <2>2, Zenon DEF Misled
<1>6. ToSet(p) \cup ToSet(l) = Readable(0)
  BY <1>1, <1>2, <1>4, <1>5, FoundAre
<1>7. Len(p) < PrimMax /\ Len(p) \in Nat /\ DOMAIN p = 1 .. Len(p)
  <2>1. PrimIs(p, 0, t, Entries) /\ Len(p) < PrimMax
    BY <1>1, <1>3, <1>4, Zenon DEF Scanned
  <2> QED
    BY <2>1, PrimFound
<1>8. PICK n \in Nat : n <= LogicMax /\ DOMAIN l = 1 .. n
  <2>1. WellChained(t)
    BY <1>3 DEF BootTypes, Partitioned
  <2>2. Wanted(t) \in Nat /\ Wanted(t) <= LogicMax
    BY <2>1, WantedIs
  <2>3. Count(0) = Wanted(t)
    BY <1>3, <1>5, Zenon DEF Count
  <2>4. LogicIs(l, 0, t, Wanted(t))
    BY <1>2, <1>3, <1>4, <2>3, Zenon DEF Scanned
  <2>5. DOMAIN l = 1 .. Wanted(t)
    BY <2>2, <2>4, LogicFound
  <2> QED
    BY <2>2, <2>5
<1>9. /\ PrimMax \in Nat /\ LogicMax \in Nat /\ Slots = PrimMax + LogicMax
  BY PartitionsAssumption DEF Slots
<1>10. ASSUME NEW idx \in 0 .. Slots - 1, At(idx).sec_cnt # 0 PROVE At(idx) \in Readable(0)
  <2>1. NoPart.sec_cnt = 0
    BY DEF NoPart
  <2>2. At(idx) # NoPart
    BY <1>10, <2>1
  <2>3. \/ idx + 1 \in DOMAIN p /\ At(idx) = p[idx + 1]
        \/ idx - PrimMax + 1 \in DOMAIN l /\ At(idx) = l[idx - PrimMax + 1]
    BY <1>1, <1>2, <2>2, Zenon DEF At
  <2>4. At(idx) \in ToSet(p) \cup ToSet(l)
    BY <2>3, Zenon DEF ToSet
  <2> QED
    BY <1>6, <2>4
<1>11. ASSUME NEW part \in Readable(0) PROVE \E idx \in 0 .. Slots - 1 : At(idx) = part
  <2>1. CASE part \in ToSet(p)
    <3>1. PICK i \in DOMAIN p : part = p[i]
      BY <2>1, Zenon DEF ToSet
    <3>2. PICK idx \in Nat : idx = i - 1
      BY <1>7
    <3>3. idx \in 0 .. Slots - 1 /\ idx < PrimMax /\ idx + 1 = i
      BY <1>7, <1>9, <3>2
    <3>4. At(idx) = part
      BY <1>1, <3>1, <3>3 DEF At
    <3> QED
      BY <3>3, <3>4
  <2>2. CASE part \in ToSet(l)
    <3>1. PICK i \in DOMAIN l : part = l[i]
      BY <2>2, Zenon DEF ToSet
    <3>2. PICK idx \in Nat : idx = i + PrimMax - 1
      BY <1>8, <1>9
    <3>3. idx \in 0 .. Slots - 1 /\ ~(idx < PrimMax) /\ idx - PrimMax + 1 = i
      BY <1>8, <1>9, <3>2
    <3>4. At(idx) = part
      BY <1>2, <3>1, <3>3 DEF At
    <3> QED
      BY <3>3, <3>4
  <2> QED
    BY <1>6, <2>1, <2>2
<1>12. ASSUME NEW part \in Readable(0) PROVE part.sec_cnt # 0
  <2>1. part \in Parts /\ Roomy(part)
    BY ReadableAre
  <2>2. PICK k : k = part.sec_cnt
    OBVIOUS
  <2>3. k \in Nat /\ inode_bitmap_sects \in Nat \ {0} /\ inode_table_sects \in Nat \ {0}
    BY <2>1, <2>2, LayoutIs
  <2> QED
    BY <2>1, <2>2, <2>3 DEF Roomy, used_sects
<1> QED
  BY <1>10, <1>11, <1>12

(* A partition that has been formatted has a super block. *)
LEMMA FormattedIs ==
  ASSUME BootTypes, FormattedAre, NEW part \in Formatted
  PROVE  HasSuper(part) /\ part.disk \in DOMAIN disk /\ part \in Readable(part.disk) /\ part \in Parts
<1>1. part.disk \in DOMAIN disk /\ part \in Readable(part.disk)
  BY DEF FormattedAre
<1>2. part \in Parts /\ Roomy(part)
  BY <1>1, ReadableAre
<1>3. Holds(part.disk, Writes(part)[1])
  BY DEF FormattedAre, Formatted, Complete
<1>4. part.start_lba + 1 \in Region(part, 1)
  BY <1>2, RegionsAre DEF InTurn
<1>5. disk[part.disk][part.start_lba + 1] = Content(part, 1)
  BY <1>3, <1>4, Zenon DEF Holds, Region, Content
<1>6. Content(part, 1).kind = "super"
  BY ContentIs
<1> QED
  BY <1>1, <1>2, <1>5, <1>6 DEF HasSuper

(* Steps that write nothing. *)
LEMMA FormattedStays ==
  ASSUME BootTypes, FormattedAre, UNCHANGED <<disk, channel_cnt, finished, cut>>
  PROVE  FormattedAre'
<1>1. \A c \in DOMAIN disk : Readable(c)' = Readable(c)
  BY DiskSays, TablesSay
<1> QED
  BY <1>1 DEF FormattedAre, Formatted, Complete, Holds

LEMMA SupersStay ==
  ASSUME BootTypes, SupersAre, phase # "format", UNCHANGED <<disk, channel_cnt, finished, cut>>
  PROVE  SupersAre'
<1>1. \A c \in DOMAIN disk : Readable(c)' = Readable(c)
  BY DiskSays, TablesSay
<1>2. \A c \in DOMAIN disk : \A part \in Readable(c) : HasSuper(part) => part \in Formatted
  BY DEF SupersAre
<1>3. \A part : HasSuper(part)' = HasSuper(part)
  BY DEF HasSuper
<1>4. Formatted' = Formatted
  BY DEF Formatted
<1> QED
  BY <1>1, <1>2, <1>3, <1>4, Zenon DEF SupersAre

(* The partition filesys_init looks at is one of the first disk; for the   *)
(* others part_idx is at its end already.                                  *)
LEMMA HereIs ==
  ASSUME BootTypes, ScanInv, FormatInv, phase = "search", part_idx < Slots, channel_no < channel_cnt
  PROVE  /\ channel_no = 0 /\ channel_cnt > 0 /\ 0 \in DOMAIN disk /\ Here = At(part_idx)
         /\ part_idx \in 0 .. Slots - 1
         /\ Here.sec_cnt # 0 => Here \in Readable(0) /\ (HasMagic <=> HasSuper(Here))
<1>1. /\ channel_cnt \in Nat /\ DOMAIN disk = 0 .. channel_cnt - 1
      /\ channel_no \in 0 .. channel_cnt /\ part_idx \in 0 .. Slots /\ Slots \in Nat
  BY SlotsIs DEF BootTypes
<1>2. channel_no > 0 => part_idx = Slots
  BY DEF FormatInv, Searched, Up
<1>3. channel_no = 0 /\ channel_cnt > 0 /\ 0 \in DOMAIN disk /\ part_idx \in 0 .. Slots - 1
  BY <1>1, <1>2
<1>4. Here = At(part_idx)
  BY <1>3, Zenon DEF Here, Part, At
<1>5. ASSUME Here.sec_cnt # 0 PROVE Here \in Readable(0) /\ (HasMagic <=> HasSuper(Here))
  <2>1. Here \in Readable(0)
    BY <1>3, <1>4, <1>5, AtIs DEF Up
  <2>2. Here.disk = 0
    BY <1>3, <2>1, ReadableAre
  <2> QED
    BY <1>3, <2>1, <2>2 DEF HasMagic, HasSuper
<1> QED
  BY <1>3, <1>4, <1>5

(* The steps of filesys_init but the writes. *)
LEMMA QuietKeeps ==
  ASSUME BootTypes, ScanInv, FormatInv,
         \/ filesys_init \/ search_next \/ search_channel \/ partition_format
         \/ mount_partition \/ mount_refused \/ open_root_dir_NULL
  PROVE  BootTypes' /\ ScanInv' /\ FormattedAre' /\ SupersAre'
<1>1. UNCHANGED <<disk, channel_cnt, finished, cut, scan>> /\ phase # "format"
  BY DEF filesys_init, search_next, search_channel, partition_format, mount_partition, mount_refused,
         open_root_dir_NULL, past, Search
<1>2. FormattedAre' /\ SupersAre'
  BY <1>1, FormattedStays, SupersStay DEF FormatInv
<1>3. /\ channel_cnt \in Nat /\ channel_no \in 0 .. channel_cnt /\ part_idx \in 0 .. Slots /\ Slots \in Nat
      /\ write \in 0 .. 4 /\ prim_parts \in [Channels -> Seq(Parts)] /\ logic_parts \in [Channels -> Seq(Parts)]
      /\ partition_list \in Seq(Parts)
  BY SlotsIs DEF BootTypes
<1>4. /\ channel_no' \in 0 .. channel_cnt /\ part_idx' \in 0 .. Slots /\ write' \in 0 .. 4
      /\ phase' \in {"search", "format", "up", "fspanic", "adrift"}
  <2>1. CASE filesys_init
    BY <1>3, <2>1 DEF filesys_init, fsvars
  <2>2. CASE search_next
    BY <1>3, <2>2 DEF search_next, Search
  <2>3. CASE search_channel
    BY <1>3, <2>3 DEF search_channel, Search, fsvars
  <2>4. CASE partition_format
    BY <1>3, <2>4 DEF partition_format, Search
  <2>5. CASE mount_partition
    BY <1>3, <2>5 DEF mount_partition
  <2>6. CASE mount_refused
    BY <1>3, <2>6 DEF mount_refused
  <2>7. CASE open_root_dir_NULL
    BY <1>3, <2>7 DEF open_root_dir_NULL, fsvars
  <2> QED
    BY <2>1, <2>2, <2>3, <2>4, <2>5, <2>6, <2>7
<1>5. UNCHANGED <<prim_parts, logic_parts, partition_list>>
  BY <1>1 DEF scan
<1>6. BootTypes'
  BY <1>1, <1>3, <1>4, <1>5, TypesKeep
<1>7. Up \/ (phase = "probe" /\ channel_no = channel_cnt)
  BY DEF filesys_init, search_next, search_channel, partition_format, mount_partition, mount_refused,
         open_root_dir_NULL, Search, Up
<1>8. ScanInv'
  BY <1>1, <1>4, <1>7, DiskSays, UpKeeps DEF Up
<1> QED
  BY <1>2, <1>6, <1>8

LEMMA InitKeeps ==
  ASSUME BootTypes, ScanInv, FormatInv, filesys_init PROVE Formatting' /\ Searched'
<1>1. phase' = "search" /\ channel_no' = 0 /\ part_idx' = part_idx /\ phase = "probe"
  BY DEF filesys_init, fsvars
<1>2. part_idx' = 0
  BY <1>1 DEF FormatInv, Searched
<1>3. \A idx : idx \notin 0 .. 0 - 1
  OBVIOUS
<1> QED
  BY <1>1, <1>2, <1>3 DEF Formatting, Searched, Up

LEMMA NextKeeps ==
  ASSUME BootTypes, ScanInv, FormatInv, search_next PROVE Formatting' /\ Searched'
<1>1. /\ phase = "search" /\ phase' = "search" /\ channel_no < channel_cnt /\ part_idx < Slots
      /\ Here.sec_cnt # 0 => HasMagic
      /\ part_idx' = part_idx + 1
      /\ UNCHANGED <<disk, channel_cnt, channel_no, scan>>
  BY DEF search_next, Search
<1>2. /\ channel_no = 0 /\ channel_cnt > 0 /\ Here = At(part_idx) /\ part_idx \in 0 .. Slots - 1
      /\ Here.sec_cnt # 0 => Here \in Readable(0) /\ (HasMagic <=> HasSuper(Here))
  BY <1>1, HereIs
<1>3. \A idx \in 0 .. part_idx - 1 : At(idx).sec_cnt # 0 => HasSuper(At(idx))
  BY <1>1, <1>2 DEF FormatInv, Searched, Up
<1>4. \A idx \in 0 .. part_idx : At(idx).sec_cnt # 0 => HasSuper(At(idx))
  <2>1. \A idx \in 0 .. part_idx : idx \in 0 .. part_idx - 1 \/ idx = part_idx
    BY <1>2, SlotsIs
  <2> QED
    BY <1>1, <1>2, <1>3, <2>1, Zenon
<1>5. \A idx : At(idx)' = At(idx) /\ HasSuper(At(idx))' = HasSuper(At(idx))
  BY <1>1 DEF scan, At, HasSuper
<1>6. 0 .. part_idx' - 1 = 0 .. part_idx
  BY <1>1, <1>2, SlotsIs
<1>7. \A idx \in 0 .. part_idx' - 1 : At(idx)'.sec_cnt # 0 => HasSuper(At(idx))'
  BY <1>4, <1>5, <1>6
<1> QED
  BY <1>1, <1>2, <1>7 DEF Formatting, Searched, Up

LEMMA ChannelKeeps ==
  ASSUME BootTypes, ScanInv, FormatInv, search_channel PROVE Formatting' /\ Searched'
<1>1. /\ phase = "search" /\ phase' = "search" /\ part_idx = Slots
      /\ UNCHANGED <<disk, channel_cnt, scan, part_idx>>
  BY DEF search_channel, Search, fsvars
<1>2. channel_cnt > 0 => \A idx \in 0 .. part_idx - 1 : At(idx).sec_cnt # 0 => HasSuper(At(idx))
  BY <1>1 DEF FormatInv, Searched, Up
<1>3. \A idx : At(idx)' = At(idx) /\ HasSuper(At(idx))' = HasSuper(At(idx))
  BY <1>1 DEF scan, At, HasSuper
<1>4. channel_cnt' > 0 => \A idx \in 0 .. part_idx' - 1 : At(idx)'.sec_cnt # 0 => HasSuper(At(idx))'
  BY <1>1, <1>2, <1>3
<1> QED
  BY <1>1, <1>4 DEF Formatting, Searched, Up, Slots

LEMMA FormatKeeps ==
  ASSUME BootTypes, ScanInv, FormatInv, partition_format PROVE Formatting' /\ Searched'
<1>1. /\ phase = "search" /\ phase' = "format" /\ channel_no < channel_cnt /\ part_idx < Slots
      /\ Here.sec_cnt # 0 /\ ~HasMagic /\ write' = 0
      /\ UNCHANGED <<disk, channel_cnt, channel_no, scan, part_idx, finished, cut>>
  BY DEF partition_format, Search, past
<1>2. channel_no = 0 /\ channel_cnt > 0 /\ Here \in Readable(0) /\ ~HasSuper(Here) /\ 0 \in DOMAIN disk
  BY <1>1, HereIs
<1>3. Here \notin Formatted
  BY <1>2, FormattedIs DEF FormatInv
<1>4. Here' = Here /\ Formatted' = Formatted
  BY <1>1 DEF Here, Part, scan, Formatted
<1>5. Readable(0)' = Readable(0)
  BY <1>1, <1>2, DiskSays, TablesSay
<1>6. \A i : i \notin 1 .. 0
  OBVIOUS
<1>7. Formatting'
  BY <1>1, <1>2, <1>3, <1>4, <1>5, <1>6 DEF Formatting, Slots
<1>8. channel_cnt > 0 => \A idx \in 0 .. part_idx - 1 : At(idx).sec_cnt # 0 => HasSuper(At(idx))
  BY <1>1 DEF FormatInv, Searched, Up
<1>9. \A idx : At(idx)' = At(idx) /\ HasSuper(At(idx))' = HasSuper(At(idx))
  BY <1>1 DEF scan, At, HasSuper
<1>10. channel_cnt' > 0 => \A idx \in 0 .. part_idx' - 1 : At(idx)'.sec_cnt # 0 => HasSuper(At(idx))'
  BY <1>1, <1>8, <1>9
<1> QED
  BY <1>1, <1>2, <1>7, <1>10 DEF Searched, Up

LEMMA MountKeeps ==
  ASSUME BootTypes, ScanInv, FormatInv, mount_partition \/ mount_refused \/ open_root_dir_NULL
  PROVE  Formatting' /\ Searched'
<1>1. /\ phase = "search" /\ phase' \in {"up", "fspanic", "adrift"} /\ channel_no = channel_cnt
      /\ UNCHANGED <<disk, channel_cnt, channel_no, scan, part_idx>>
  BY DEF mount_partition, mount_refused, open_root_dir_NULL, fsvars
<1>2. /\ channel_no > 0 => part_idx = Slots
      /\ channel_cnt > 0 => \A idx \in 0 .. part_idx - 1 : At(idx).sec_cnt # 0 => HasSuper(At(idx))
  BY <1>1 DEF FormatInv, Searched, Up
<1>3. \A idx : At(idx)' = At(idx) /\ HasSuper(At(idx))' = HasSuper(At(idx))
  BY <1>1 DEF scan, At, HasSuper
<1>4. channel_cnt' > 0 => \A idx \in 0 .. part_idx' - 1 : At(idx)'.sec_cnt # 0 => HasSuper(At(idx))'
  BY <1>1, <1>2, <1>3
<1> QED
  BY <1>1, <1>2, <1>4 DEF Formatting, Searched, Up, Slots
(* A format that is not gone on with has made its first write. *)
LEMMA CutKeeps ==
  ASSUME BootTypes, ScanInv, FormatInv, UNCHANGED <<disk, channel_cnt, finished>>,
         cut' = IF phase = "format" /\ write > 0 THEN cut \cup {Here} ELSE cut
  PROVE  FormattedAre' /\ SupersAre'
<1>1. /\ UNCHANGED <<disk, channel_cnt, finished>>
      /\ cut' = IF phase = "format" /\ write > 0 THEN cut \cup {Here} ELSE cut
  OBVIOUS
<1>2. \A c \in DOMAIN disk : Readable(c)' = Readable(c)
  BY <1>1, DiskSays, TablesSay
<1>3. ASSUME phase = "format", write > 0
      PROVE  Here.disk \in DOMAIN disk /\ Here \in Readable(Here.disk) /\ Holds(Here.disk, Writes(Here)[1])
  <2>1. /\ channel_cnt > 0 /\ Here \in Readable(0)
        /\ \A i \in 1 .. write : Holds(0, Writes(Here)[i])
    BY <1>3, Zenon DEF FormatInv, Formatting
  <2>2. 0 \in DOMAIN disk /\ 1 \in 1 .. write
    BY <1>3, <2>1 DEF BootTypes
  <2>3. Here.disk = 0
    BY <2>1, <2>2, ReadableAre
  <2> QED
    BY <2>1, <2>2, <2>3
<1>4. FormattedAre
  BY DEF FormatInv
<1>5. FormattedAre'
  <2>1. \A part \in Formatted' : part \in Formatted \/ (phase = "format" /\ write > 0 /\ part = Here)
    BY <1>1 DEF Formatted
  <2>2. \A part \in Formatted' : part.disk \in DOMAIN disk /\ part \in Readable(part.disk)
    BY <1>3, <1>4, <2>1 DEF FormattedAre
  <2>3. \A part \in cut' : Holds(part.disk, Writes(part)[1])
    BY <1>1, <1>3, <1>4 DEF FormattedAre
  <2>4. \A c, w : Holds(c, w)' = Holds(c, w)
    BY <1>1 DEF Holds
  <2>5. \A part : Complete(part)' = Complete(part)
    BY <2>4 DEF Complete
  <2>6. \A part \in Formatted' : part.disk \in DOMAIN disk' /\ part \in Readable(part.disk)'
    BY <1>1, <1>2, <2>2
  <2>7. \A part \in finished' : Complete(part)'
    BY <1>1, <1>4, <2>5 DEF FormattedAre
  <2>8. \A part \in cut' : Holds(part.disk, Writes(part)[1])'
    BY <2>3, <2>4
  <2> QED
    BY <2>6, <2>7, <2>8 DEF FormattedAre
<1>6. SupersAre'
  <2>1. \A part : HasSuper(part)' = HasSuper(part)
    BY <1>1 DEF HasSuper
  <2>2. \A c \in DOMAIN disk : \A part \in Readable(c) : HasSuper(part) => part \in Formatted'
    BY <1>1 DEF FormatInv, SupersAre, Formatted
  <2> QED
    BY <1>1, <1>2, <2>1, <2>2 DEF SupersAre
<1> QED
  BY <1>5, <1>6

(* The power fails in the middle of a format, or at another time. *)
LEMMA FailureCuts ==
  ASSUME BootTypes, ScanInv, FormatInv, power_failure PROVE FormatInv'
<1>1. /\ UNCHANGED <<disk, channel_cnt, finished>> /\ phase' = "probe" /\ part_idx' = 0
      /\ cut' = IF phase = "format" /\ write > 0 THEN cut \cup {Here} ELSE cut
  BY DEF power_failure
<1>2. Formatting' /\ Searched'
  BY <1>1 DEF Formatting, Searched, Up
<1> QED
  BY <1>1, <1>2, CutKeeps DEF FormatInv

(* ASSERT(sec_cnt > 0) stops a format, but not its first write. *)
LEMMA RefusedKeeps ==
  ASSUME BootTypes, ScanInv, FormatInv, format_refused PROVE BootTypes' /\ ScanInv' /\ FormatInv'
<1>1. /\ phase = "format" /\ SecCnt(Writes(Here)[write + 1][2]) = 0
      /\ phase' = "fspanic" /\ cut' = cut \cup {Here}
      /\ UNCHANGED <<disk, channel_cnt, channel_no, scan, part_idx, write, finished>>
  BY DEF format_refused, fsvars
<1>2. write \in 0 .. 4
  BY DEF BootTypes
<1>3. write > 0
  <2>1. SUFFICES ASSUME write = 0 PROVE FALSE
    BY <1>2
  <2>2. Writes(Here)[1][2] = 1
    BY DEF Writes
  <2> QED
    BY <1>1, <2>1, <2>2, SecCntIs
<1>4. FormattedAre' /\ SupersAre'
  BY <1>1, <1>3, CutKeeps
<1>5. /\ channel_no \in 0 .. channel_cnt /\ part_idx \in 0 .. Slots /\ Slots \in Nat
      /\ prim_parts \in [Channels -> Seq(Parts)] /\ logic_parts \in [Channels -> Seq(Parts)]
      /\ partition_list \in Seq(Parts)
  BY SlotsIs DEF BootTypes
<1>6. UNCHANGED <<prim_parts, logic_parts, partition_list>>
  BY <1>1 DEF scan
<1>7. BootTypes'
  BY <1>1, <1>2, <1>5, <1>6, TypesKeep
<1>8. ScanInv'
  <2>1. Up /\ Up'
    BY <1>1 DEF Up
  <2> QED
    BY <1>1, <2>1, DiskSays, UpKeeps
<1>9. Formatting'
  BY <1>1 DEF Formatting
<1>10. Searched'
  <2>1. /\ channel_no > 0 => part_idx = Slots
        /\ channel_cnt > 0 => \A idx \in 0 .. part_idx - 1 : At(idx).sec_cnt # 0 => HasSuper(At(idx))
    BY <1>1 DEF FormatInv, Searched, Up
  <2>2. \A idx : At(idx)' = At(idx) /\ HasSuper(At(idx))' = HasSuper(At(idx))
    BY <1>1 DEF scan, At, HasSuper
  <2>3. channel_cnt' > 0 => \A idx \in 0 .. part_idx' - 1 : At(idx)'.sec_cnt # 0 => HasSuper(At(idx))'
    BY <1>1, <2>1, <2>2
  <2> QED
    BY <1>1, <2>1, <2>3 DEF Searched, Up, Slots
<1> QED
  BY <1>4, <1>7, <1>8, <1>9, <1>10 DEF FormatInv

(* The other partitions keep what they hold, and this one what it has been *)
(* given before.                                                           *)
LEMMA WriteKeepsOthers ==
  ASSUME BootTypes, FormatInv, format_write, NEW d \in DOMAIN disk, NEW other \in Readable(d), other # Here
  PROVE  /\ HasSuper(other)' = HasSuper(other)
         /\ \A j \in 1 .. 5 : Holds(other.disk, Writes(other)[j])' = Holds(other.disk, Writes(other)[j])
<1>1. PICK part : part = Here
  OBVIOUS
<1>2. PICK i : i = write + 1
  OBVIOUS
<1>3. /\ 0 \in DOMAIN disk /\ part \in Readable(0) /\ i \in 1 .. 5 /\ InTurn(part) /\ Written(0, part, i)
  BY <1>1, <1>2, WriteIs
<1>4. other \in Parts /\ other.disk = d /\ Roomy(other) /\ Sectors(other) \subseteq LBAs
  BY ReadableAre
<1>5. Region(part, i) \subseteq Sectors(part)
  BY <1>3 DEF InTurn
<1>6. ASSUME NEW lba \in Sectors(other) PROVE disk'[d][lba] = disk[d][lba]
  <2>1. CASE d # 0
    BY <1>3, <2>1 DEF Written
  <2>2. CASE d = 0
    <3>1. Sectors(part) \cap Sectors(other) = {}
      BY <1>1, <1>3, <2>2, ReadableAre
    <3>2. lba \in LBAs /\ lba \notin Region(part, i)
      BY <1>4, <1>5, <3>1
    <3> QED
      BY <1>3, <2>2, <3>2 DEF Written
  <2> QED
    BY <2>1, <2>2
<1>7. /\ \A j \in 1 .. 5 : Region(other, j) \subseteq Sectors(other)
      /\ Region(other, 1) = {other.start_lba + 1}
  BY <1>4, RegionsAre DEF InTurn
<1>8. other.start_lba + 1 \in Sectors(other)
  BY <1>7
<1>9. HasSuper(other)' = HasSuper(other)
  <2>1. disk'[d][other.start_lba + 1] = disk[d][other.start_lba + 1]
    BY <1>6, <1>8
  <2>2. HasSuper(other) <=> disk[d][other.start_lba + 1].kind = "super"
    BY <1>4 DEF HasSuper
  <2>3. HasSuper(other)' <=> disk'[d][other.start_lba + 1].kind = "super"
    BY <1>4 DEF HasSuper
  <2>4. HasSuper(other) \in BOOLEAN /\ HasSuper(other)' \in BOOLEAN
    BY DEF HasSuper
  <2> QED
    BY <2>1, <2>2, <2>3, <2>4
<1>10. ASSUME NEW j \in 1 .. 5
       PROVE  Holds(other.disk, Writes(other)[j])' = Holds(other.disk, Writes(other)[j])
  <2>1. \A lba \in Region(other, j) : disk'[d][lba] = disk[d][lba]
    BY <1>6, <1>7
  <2>2. Holds(d, Writes(other)[j]) <=> \A lba \in Region(other, j) : disk[d][lba] = Content(other, j)
    BY Zenon DEF Holds, Region, Content
  <2>3. Holds(d, Writes(other)[j])' <=> \A lba \in Region(other, j) : disk'[d][lba] = Content(other, j)
    BY Zenon DEF Holds, Region, Content
  <2>4. Holds(d, Writes(other)[j]) \in BOOLEAN /\ Holds(d, Writes(other)[j])' \in BOOLEAN
    BY DEF Holds
  <2>5. Holds(d, Writes(other)[j])' <=> Holds(d, Writes(other)[j])
    BY <2>1, <2>2, <2>3, Zenon
  <2> QED
    BY <1>4, <2>4, <2>5
<1> QED
  BY <1>9, <1>10

(* After a write all writes so far are on the disk. *)
LEMMA WriteMakes ==
  ASSUME BootTypes, FormatInv, format_write, NEW part, part = Here, NEW i, i = write + 1
  PROVE  (\A j \in 1 .. i : Holds(0, Writes(part)[j])') /\ HasSuper(part)'
<1>1. /\ 0 \in DOMAIN disk /\ part \in Readable(0) /\ i \in 1 .. 5 /\ InTurn(part) /\ Written(0, part, i)
      /\ Sectors(part) \subseteq LBAs /\ part.disk = 0
      /\ \A j \in 1 .. i - 1 : Holds(0, Writes(part)[j])
  BY WriteIs
<1>2. ASSUME NEW j \in 1 .. i PROVE \A lba \in Region(part, j) : disk'[0][lba] = Content(part, j)
  <2>1. CASE j = i
    BY <1>1, <2>1 DEF Written
  <2>2. CASE j # i
    <3>1. j \in 1 .. i - 1 /\ j < i /\ j \in 1 .. 5
      BY <1>1, <2>2
    <3>2. Region(part, j) \cap Region(part, i) = {} /\ Region(part, j) \subseteq LBAs
      BY <1>1, <3>1 DEF InTurn
    <3>3. \A lba \in Region(part, j) : disk[0][lba] = Content(part, j)
      BY <1>1, <3>1, Zenon DEF Holds, Region, Content
    <3>4. \A lba \in Region(part, j) : disk'[0][lba] = disk[0][lba]
      BY <1>1, <3>2 DEF Written
    <3> QED
      BY <3>3, <3>4
  <2> QED
    BY <2>1, <2>2
<1>3. ASSUME NEW j \in 1 .. i PROVE Holds(0, Writes(part)[j])'
  BY <1>2, Zenon DEF Holds, Region, Content
<1>4. HasSuper(part)'
  <2>1. 1 \in 1 .. i /\ part.start_lba + 1 \in Region(part, 1)
    BY <1>1 DEF InTurn
  <2>2. disk'[0][part.start_lba + 1] = Content(part, 1)
    BY <1>2, <2>1
  <2>3. Content(part, 1).kind = "super"
    BY ContentIs
  <2> QED
    BY <1>1, <2>2, <2>3 DEF HasSuper
<1> QED
  BY <1>3, <1>4

(* A write keeps the invariant, the last one of a format included. *)
LEMMA WriteKeeps ==
  ASSUME BootTypes, ScanInv, FormatInv, format_write PROVE BootTypes' /\ ScanInv' /\ FormatInv'
<1>1. PICK part : part = Here
  OBVIOUS
<1>2. PICK i : i = write + 1
  OBVIOUS
<1>3. /\ phase = "format" /\ UNCHANGED <<channel_cnt, channel_no, scan, cut>>
      /\ \/ i < 5 /\ write' = i /\ UNCHANGED <<phase, part_idx, finished>>
         \/ /\ ~(i < 5) /\ phase' = "search" /\ part_idx' = part_idx + 1 /\ write' = 0
            /\ finished' = finished \cup {part}
  BY <1>1, <1>2 DEF format_write
<1>4. /\ channel_no = 0 /\ channel_cnt > 0 /\ part_idx < Slots
      /\ part \in Readable(0) /\ part \notin Formatted
  BY <1>1, <1>3, Zenon DEF FormatInv, Formatting
<1>5. /\ 0 \in DOMAIN disk /\ i \in 1 .. 5 /\ part.disk = 0 /\ InTurn(part)
  BY <1>1, <1>2, WriteIs
<1>6. SameLayout /\ SameTables /\ DOMAIN disk' = DOMAIN disk
  BY WriteKeepsTables DEF SameLayout, SameTables
<1>7. \A c \in DOMAIN disk : Readable(c)' = Readable(c)
  BY <1>6, TablesSay
<1>8. /\ channel_cnt \in Nat /\ channel_no \in 0 .. channel_cnt /\ part_idx \in 0 .. Slots /\ Slots \in Nat
      /\ write \in 0 .. 4 /\ prim_parts \in [Channels -> Seq(Parts)] /\ logic_parts \in [Channels -> Seq(Parts)]
      /\ partition_list \in Seq(Parts)
  BY SlotsIs DEF BootTypes
<1>9. UNCHANGED <<prim_parts, logic_parts, partition_list>>
  BY <1>3 DEF scan
<1>10. BootTypes'
  <2>1. part_idx' \in 0 .. Slots /\ write' \in 0 .. 4
    BY <1>2, <1>3, <1>4, <1>5, <1>8
  <2> QED
    BY <1>3, <1>6, <1>8, <1>9, <2>1, TypesStay
<1>11. ScanInv'
  <2>1. Up /\ Up'
    BY <1>3 DEF Up
  <2> QED
    BY <1>3, <1>6, <2>1, UpKeeps
<1>12. FormattedAre /\ SupersAre
  BY DEF FormatInv
<1>13. (\A j \in 1 .. i : Holds(0, Writes(part)[j])') /\ HasSuper(part)'
  BY <1>1, <1>2, WriteMakes
<1>14. finished' = finished \/ (finished' = finished \cup {part} /\ i = 5 /\ phase' = "search")
  BY <1>3, <1>5
<1>15. ASSUME NEW other \in Formatted
       PROVE  /\ other # part /\ other.disk \in DOMAIN disk /\ other \in Readable(other.disk)
              /\ \A j \in 1 .. 5 : Holds(other.disk, Writes(other)[j])' = Holds(other.disk, Writes(other)[j])
  <2>1. other # part /\ other.disk \in DOMAIN disk /\ other \in Readable(other.disk)
    BY <1>4, <1>12, FormattedIs
  <2> QED
    BY <1>1, <2>1, WriteKeepsOthers
<1>16. FormattedAre'
  <2>1. ASSUME NEW other \in finished'
        PROVE  Complete(other)' /\ other.disk \in DOMAIN disk /\ other \in Readable(other.disk)
    <3>1. CASE other \in finished
      <4>1. other \in Formatted
        BY <3>1 DEF Formatted
      <4>2. \A j \in 1 .. 5 : Holds(other.disk, Writes(other)[j])
        BY <1>12, <3>1 DEF FormattedAre, Complete
      <4>3. \A j \in 1 .. 5 : Holds(other.disk, Writes(other)[j])'
        BY <1>15, <4>1, <4>2
      <4> QED
        BY <1>15, <4>1, <4>3 DEF Complete
    <3>2. CASE other \notin finished
      <4>1. other = part /\ i = 5
        BY <1>14, <2>1, <3>2
      <4>2. \A j \in 1 .. 5 : Holds(other.disk, Writes(other)[j])'
        BY <1>5, <1>13, <4>1
      <4> QED
        BY <1>4, <1>5, <4>1, <4>2 DEF Complete
    <3> QED
      BY <3>1, <3>2
  <2>2. ASSUME NEW other \in cut
        PROVE  Holds(other.disk, Writes(other)[1])' /\ other.disk \in DOMAIN disk /\ other \in Readable(other.disk)
    <3>1. other \in Formatted /\ Holds(other.disk, Writes(other)[1]) /\ 1 \in 1 .. 5
      BY <1>12 DEF Formatted, FormattedAre
    <3> QED
      BY <1>15, <3>1
  <2>3. cut' = cut
    BY <1>3
  <2>4. \A other \in Formatted' : other \in finished' \/ other \in cut
    BY <2>3 DEF Formatted
  <2>5. \A other \in Formatted' : other.disk \in DOMAIN disk' /\ other \in Readable(other.disk)'
    BY <1>6, <1>7, <2>1, <2>2, <2>4
  <2>6. \A other \in finished' : Complete(other)'
    BY <2>1
  <2>7. \A other \in cut' : Holds(other.disk, Writes(other)[1])'
    BY <2>2, <2>3
  <2> QED
    BY <2>5, <2>6, <2>7 DEF FormattedAre
<1>17. Formatted \subseteq Formatted'
  BY <1>3, <1>14 DEF Formatted
<1>18. i < 5 => Here' = part /\ phase' = "format" /\ write' = i
  BY <1>1, <1>3, <1>5 DEF Here, Part, scan
<1>19. ~(i < 5) => part \in Formatted'
  BY <1>3, <1>5 DEF Formatted
<1>20. SupersAre'
  <2>1. ASSUME NEW c \in DOMAIN disk, NEW other \in Readable(c), HasSuper(other)'
        PROVE  other \in Formatted' \/ (phase' = "format" /\ other = Here' /\ write' > 0)
    <3>1. CASE other = part
      BY <1>5, <1>18, <1>19, <3>1
    <3>2. CASE other # part
      <4>1. HasSuper(other)
        BY <1>1, <2>1, <3>2, WriteKeepsOthers
      <4>2. other \in Formatted
        BY <1>1, <1>12, <3>2, <4>1 DEF SupersAre
      <4> QED
        BY <1>17, <4>2
    <3> QED
      BY <3>1, <3>2
  <2> QED
    BY <1>6, <1>7, <2>1, Zenon DEF SupersAre
<1>21. Formatting'
  <2>1. CASE i < 5
    <3>1. Formatted' = Formatted /\ part_idx' = part_idx /\ channel_no' = 0 /\ channel_cnt' > 0
      BY <1>3, <1>4, <1>14, <2>1 DEF Formatted
    <3>2. Slots' = Slots
      BY DEF Slots
    <3> QED
      BY <1>4, <1>5, <1>7, <1>13, <1>18, <2>1, <3>1, <3>2 DEF Formatting
  <2>2. CASE ~(i < 5)
    BY <1>3, <2>2 DEF Formatting
  <2> QED
    BY <2>1, <2>2
<1>22. Searched'
  <2>1. /\ \A idx \in 0 .. part_idx - 1 : At(idx).sec_cnt # 0 => HasSuper(At(idx))
        /\ Here = At(part_idx)
    BY <1>3, <1>4 DEF FormatInv, Searched, Up, Here, Part, At
  <2>2. \A idx : At(idx)' = At(idx)
    BY <1>3 DEF scan, At
  <2>3. ASSUME NEW idx \in 0 .. part_idx' - 1, At(idx).sec_cnt # 0 PROVE HasSuper(At(idx))'
    <3>1. CASE At(idx) = part
      BY <1>13, <2>2, <3>1 DEF HasSuper
    <3>2. CASE At(idx) # part
      <4>1. idx \in 0 .. part_idx - 1 /\ idx \in 0 .. Slots - 1
        <5>1. idx # part_idx
          BY <1>1, <2>1, <3>2
        <5> QED
          BY <1>3, <1>8, <5>1
      <4>2. HasSuper(At(idx))
        BY <2>1, <2>3, <4>1
      <4>3. At(idx) \in Readable(0)
        BY <1>3, <1>5, <2>3, <4>1, AtIs DEF Up
      <4>4. HasSuper(At(idx))' = HasSuper(At(idx))
        <5>1. PICK other : other = At(idx)
          OBVIOUS
        <5>2. HasSuper(other)' = HasSuper(other)
          BY <1>1, <1>5, <3>2, <4>3, <5>1, WriteKeepsOthers
        <5>3. HasSuper(At(idx))' = HasSuper(other)'
          BY <2>2, <5>1 DEF HasSuper
        <5> QED
          BY <5>1, <5>2, <5>3
      <4> QED
        BY <4>2, <4>4
    <3> QED
      BY <3>1, <3>2
  <2>4. \A idx \in 0 .. part_idx' - 1 : At(idx)'.sec_cnt # 0 => HasSuper(At(idx))'
    BY <2>2, <2>3
  <2>5. channel_no' = 0 /\ phase' # "up" /\ phase' \notin {"probe", "scan"}
    BY <1>3, <1>4
  <2> QED
    BY <2>4, <2>5 DEF Searched
<1> QED
  BY <1>10, <1>11, <1>16, <1>20, <1>21, <1>22 DEF FormatInv
(* mount_partition comes when every partition of the first disk has a super *)
(* block, and takes the lengths and places of the bitmaps from it.          *)
LEMMA MountTakes ==
  ASSUME BootTypes, ScanInv, FormatInv, mount_partition PROVE MountedAsFormatted'
<1>1. /\ phase = "search" /\ channel_no = channel_cnt
      /\ UNCHANGED <<disk, channel_cnt, channel_no, scan, part_idx, cut, finished>>
  BY DEF mount_partition, past
<1>2. PICK x \in Sdb1 :
        LET part == partition_list[x]
            sb   == SuperOf(part)
        IN  /\ ~Refused(sb)
            /\ cur_part' = part
            /\ maps' = [block_bitmap |-> BitsAt(part.disk, sb.block_bitmap_lba, sb.block_bitmap_sects),
                        block_len    |-> sb.block_bitmap_sects,
                        inode_bitmap |-> BitsAt(part.disk, sb.inode_bitmap_lba, sb.inode_bitmap_sects),
                        inode_len    |-> sb.block_bitmap_sects]
  BY Zenon DEF mount_partition
<1>3. PICK part : part = partition_list[x]
  OBVIOUS
<1>4. PICK sb : sb = disk[0][part.start_lba + 1].sb
  OBVIOUS
<1>5. /\ x \in DOMAIN partition_list /\ part.disk = 0 /\ part.no = 1 /\ cur_part' = part /\ ~Refused(sb)
      /\ maps' = [block_bitmap |-> BitsAt(0, sb.block_bitmap_lba, sb.block_bitmap_sects),
                  block_len    |-> sb.block_bitmap_sects,
                  inode_bitmap |-> BitsAt(0, sb.inode_bitmap_lba, sb.inode_bitmap_sects),
                  inode_len    |-> sb.block_bitmap_sects]
  <2>1. x \in DOMAIN partition_list /\ part.disk = 0 /\ part.no = 1
    BY <1>3, Zenon DEF Sdb1
  <2>2. SuperOf(part) = sb
    BY <1>4, <2>1 DEF SuperOf
  <2> QED
    BY <1>2, <1>3, <2>1, <2>2, Zenon
<1>6. (\A d \in DOMAIN disk : Scanned(d)) /\ Listed
  BY <1>1 DEF ScanInv
<1>7. PICK d \in DOMAIN disk : part \in ToSet(prim_parts[d]) \cup ToSet(logic_parts[d])
  <2>1. part \in ToSet(partition_list)
    BY <1>3, <1>5, Zenon DEF ToSet
  <2>2. ToSet(partition_list) = UNION {ToSet(prim_parts[d]) \cup ToSet(logic_parts[d]) : d \in DOMAIN disk}
    BY <1>6, Zenon DEF Listed
  <2> QED
    BY <2>1, <2>2
<1>8. d = 0 /\ 0 \in DOMAIN disk /\ channel_cnt > 0
  <2>1. Numbered(d)
    BY <1>6, FoundAre
  <2>2. part.disk = d
    BY <1>7, <2>1, NumberedSet
  <2> QED
    BY <1>5, <2>2 DEF BootTypes
<1>9. ~Misled(0)
  <2>1. \A e \in Disks : ~(e < 0)
    BY DisksAre
  <2> QED
    BY <2>1, Zenon DEF Misled
<1>10. part \in Primary(0) /\ part \in Readable(0)
  <2>1. Numbered(0) /\ Scanned(0)
    BY <1>6, <1>8, FoundAre
  <2>2. PrimIs(prim_parts[0], 0, Tables(0), Entries)
    BY <2>1, Zenon DEF Scanned
  <2>3. ToSet(prim_parts[0]) = {PrimaryAt(0, Tables(0), i) : i \in Simple(Tables(0), 0)}
    BY <2>2, PrimFound
  <2>4. ToSet(prim_parts[0]) = Primary(0)
    BY <2>3 DEF Primary
  <2>5. part \notin ToSet(logic_parts[0])
    <3>1. logic_parts[0] \in Seq(Parts)
      BY <1>8 DEF BootTypes
    <3>2. DOMAIN logic_parts[0] = 1 .. Len(logic_parts[0]) /\ Len(logic_parts[0]) \in Nat
      BY <3>1
    <3>3. ASSUME NEW n \in 1 .. Len(logic_parts[0]) PROVE logic_parts[0][n].no # 1
      <4>1. logic_parts[0][n].no = n + 4
        BY <2>1 DEF Numbered
      <4> QED
        BY <3>2, <4>1
    <3> QED
      BY <1>5, <3>2, <3>3 DEF ToSet
  <2> QED
    BY <1>7, <1>8, <2>4, <2>5 DEF Readable
<1>11. ASSUME NEW p \in Readable(0) PROVE HasSuper(p) /\ p \in Formatted /\ (p \in cut \/ Complete(p))
  <2>1. PICK idx \in 0 .. Slots - 1 : At(idx) = p
    BY <1>1, <1>8, AtIs DEF Up
  <2>2. p.sec_cnt # 0
    BY <1>1, <1>8, AtIs DEF Up
  <2>3. part_idx = Slots
    BY <1>1, <1>8 DEF FormatInv, Searched, Up
  <2>4. HasSuper(p)
    BY <1>1, <1>8, <2>1, <2>2, <2>3 DEF FormatInv, Searched, Up
  <2>5. p \in Formatted
    BY <1>1, <1>8, <2>4 DEF FormatInv, SupersAre
  <2> QED
    BY <2>4, <2>5 DEF FormatInv, FormattedAre, Formatted
<1>12. part \in Parts /\ Roomy(part) /\ InTurn(part)
  BY <1>8, <1>10, ReadableAre, RegionsAre
<1>13. sb = super_block(part)
  <2>1. Holds(0, Writes(part)[1])
    BY <1>5, <1>10, <1>11 DEF FormatInv, FormattedAre, Complete
  <2>2. part.start_lba + 1 \in Region(part, 1)
    BY <1>12 DEF InTurn
  <2>3. disk[0][part.start_lba + 1] = Content(part, 1)
    BY <2>1, <2>2, Zenon DEF Holds, Region, Content
  <2>4. Content(part, 1) = [kind |-> "super", sb |-> super_block(part)]
    BY DEF Content, Writes, Super
  <2> QED
    BY <1>4, <2>3, <2>4
<1>14. ASSUME part \notin cut
       PROVE  /\ sb.block_bitmap_sects < UInt8 =>
                   BitsAt(0, sb.block_bitmap_lba, sb.block_bitmap_sects) = block_bitmap(part)
              /\ BitsAt(0, sb.inode_bitmap_lba, sb.inode_bitmap_sects) = {0}
  <2>1. \A i \in 1 .. 5 : Holds(0, Writes(part)[i])
    BY <1>5, <1>10, <1>11, <1>14 DEF Complete
  <2>2. PICK bb : bb = block_bitmap_sects(part)
    OBVIOUS
  <2>3. PICK ib : ib = inode_bitmap_sects
    OBVIOUS
  <2>4. bb \in Nat \ {0} /\ ib \in Nat \ {0} /\ part.start_lba \in Nat
    BY <1>12, <2>2, <2>3, LayoutIs DEF Parts
  <2>5. PICK a \in Nat : a = sb.block_bitmap_lba
    BY <1>13, <2>4 DEF super_block
  <2>6. PICK b \in Nat : b = sb.inode_bitmap_lba
    <3>1. sb.inode_bitmap_lba = part.start_lba + 2 + bb
      BY <1>13, <2>2 DEF super_block
    <3> QED
      BY <2>4, <3>1
  <2>7. sb.block_bitmap_sects = bb /\ sb.inode_bitmap_sects = ib
    BY <1>13, <2>2, <2>3 DEF super_block
  <2>8. SecCnt(bb) \in Nat \ {0} /\ SecCnt(ib) \in Nat \ {0}
    BY <1>5, <2>4, <2>7, SecCntIs DEF Refused
  <2>9. PICK m \in Nat \ {0} : m = SecCnt(bb)
    BY <2>8
  <2>10. PICK k \in Nat \ {0} : k = SecCnt(ib)
    BY <2>8
  <2>11. a \in Region(part, 2) /\ b \in Region(part, 3)
    <3>1. /\ Writes(part)[2][1] = a /\ Writes(part)[2][2] = bb
          /\ Writes(part)[3][1] = b /\ Writes(part)[3][2] = ib
      BY <1>13, <2>2, <2>3, <2>5, <2>6 DEF Writes, super_block
    <3>2. Region(part, 2) = a .. a + m - 1 /\ Region(part, 3) = b .. b + k - 1
      BY <2>9, <2>10, <3>1 DEF Region, Reached
    <3> QED
      BY <2>9, <2>10, <3>2
  <2>12. disk[0][a] = Content(part, 2) /\ disk[0][b] = Content(part, 3)
    <3>1. 2 \in 1 .. 5 /\ 3 \in 1 .. 5
      OBVIOUS
    <3> QED
      BY <2>1, <2>11, <3>1, Zenon DEF Holds, Region, Content
  <2>13. /\ Content(part, 2) = [kind |-> "bits", set |-> block_bitmap(part)]
         /\ Content(part, 3) = [kind |-> "bits", set |-> {0}]
    BY DEF Content, Writes, Bits
  <2>14. PICK B \in Nat \ {0} : B = BitsPerSector
    <3>1. ByteBits \in Nat \ {0} /\ SectorBytes \in Nat \ {0}
      BY BootAssumption
    <3>2. ByteBits * SectorBytes \in Nat \ {0}
      BY <3>1
    <3> QED
      BY <3>2 DEF BitsPerSector
  <2>15. /\ BitsAt(0, a, bb) = block_bitmap(part) \cap (0 .. m * B - 1)
         /\ BitsAt(0, b, ib) = {0} \cap (0 .. k * B - 1)
    BY <2>9, <2>10, <2>12, <2>13, <2>14 DEF BitsAt
  <2>16. 0 \in 0 .. k * B - 1
    <3>1. k * B \in Nat \ {0}
      BY <2>10, <2>14
    <3> QED
      BY <3>1
  <2>17. ASSUME bb < UInt8 PROVE BitsAt(0, a, bb) = block_bitmap(part)
    <3>1. m = bb
      BY <2>4, <2>9, <2>17, SecCntIs
    <3>2. block_bitmap(part) \subseteq 0 .. bb * B - 1
      BY <2>2, <2>14 DEF block_bitmap
    <3> QED
      BY <2>15, <3>1, <3>2
  <2> QED
    BY <2>5, <2>6, <2>7, <2>15, <2>16, <2>17
<1>15. Primary(0)' = Primary(0) /\ Readable(0)' = Readable(0)
  BY <1>1, <1>8, DiskSays, TablesSay
<1>16. \A p : Complete(p)' = Complete(p)
  BY <1>1 DEF Complete, Holds
<1>17. \A p \in Readable(0)' : p \in cut' \/ Complete(p)'
  BY <1>1, <1>11, <1>15, <1>16
<1>18. cur_part' \in Primary(0)' /\ cur_part'.no = 1
  BY <1>5, <1>10, <1>15
<1>19. /\ maps'.block_len = sb.block_bitmap_sects
       /\ sb.block_bitmap_sects = sb.inode_bitmap_sects => maps'.inode_len = sb.inode_bitmap_sects
       /\ part \notin cut =>
            /\ sb.block_bitmap_sects < UInt8 => maps'.block_bitmap = block_bitmap(part)
            /\ maps'.inode_bitmap = {0}
  BY <1>5, <1>14
<1>20. /\ maps'.block_len = super_block(cur_part').block_bitmap_sects
       /\ super_block(cur_part').block_bitmap_sects = super_block(cur_part').inode_bitmap_sects =>
            maps'.inode_len = super_block(cur_part').inode_bitmap_sects
       /\ cur_part' \notin cut' =>
            /\ super_block(cur_part').block_bitmap_sects < UInt8 => maps'.block_bitmap = block_bitmap(cur_part')
            /\ maps'.inode_bitmap = {0}
  BY <1>1, <1>5, <1>13, <1>19
<1> QED
  BY <1>17, <1>18, <1>20, Zenon DEF MountedAsFormatted

(* The disks as the first start finds them. *)
LEMMA FirstStart == Init => BootTypes /\ ScanInv /\ FormatInv /\ MountedAsFormatted
<1> SUFFICES ASSUME Init PROVE BootTypes /\ ScanInv /\ FormatInv /\ MountedAsFormatted
  OBVIOUS
<1>1. /\ disk \in Fresh /\ channel_cnt = Cardinality(DOMAIN disk)
      /\ \A c \in Disks : Partitioned(c) /\ \A part \in Readable(c) : ~HasSuper(part)
      /\ MemoryCleared /\ FileSystemCleared /\ cut = {} /\ finished = {}
  BY DEF Init
<1>2. /\ DOMAIN disk \subseteq Channels /\ IsFiniteSet(DOMAIN disk)
      /\ DOMAIN disk = 0 .. Cardinality(DOMAIN disk) - 1
      /\ \A c \in DOMAIN disk : disk[c] = [lba \in LBAs |-> disk[c][lba]]
  BY <1>1, BootAssumption
<1>3. channel_cnt \in Nat /\ DOMAIN disk = 0 .. channel_cnt - 1
  BY <1>1, <1>2, FS_CardinalityType
<1>4. \A c \in DOMAIN disk : c \in Disks
  BY <1>2, <1>3 DEF Disks
<1>5. /\ phase = "probe" /\ channel_no = 0 /\ partition_list = <<>>
      /\ prim_parts = [c \in Channels |-> <<>>] /\ logic_parts = [c \in Channels |-> <<>>]
      /\ part_idx = 0 /\ write = 0
  BY <1>1 DEF MemoryCleared, FileSystemCleared
<1>6. /\ prim_parts \in [Channels -> Seq(Parts)] /\ logic_parts \in [Channels -> Seq(Parts)]
      /\ partition_list \in Seq(Parts)
  <2>1. <<>> \in Seq(Parts)
    OBVIOUS
  <2> QED
    BY <1>5, <2>1
<1>7. BootTypes
  <2>1. channel_no \in 0 .. channel_cnt /\ part_idx \in 0 .. Slots /\ write \in 0 .. 4
    BY <1>3, <1>5, SlotsIs
  <2> QED
    BY <1>1, <1>2, <1>3, <1>4, <1>5, <1>6, <2>1 DEF BootTypes
<1>8. ScanInv
  BY <1>1, <1>7, ClearedIs
<1>9. FormattedAre
  BY <1>1 DEF FormattedAre, Formatted
<1>10. SupersAre
  BY <1>1, <1>4, Zenon DEF SupersAre
<1>11. Formatting /\ Searched /\ MountedAsFormatted
  BY <1>5 DEF Formatting, Searched, Up, MountedAsFormatted
<1> QED
  BY <1>7, <1>8, <1>9, <1>10, <1>11 DEF FormatInv

(* ide_init and partition_scan write to no disk. *)
LEMMA IdeQuiet ==
  ASSUME BootTypes, FormatInv, ide PROVE FormatInv'
<1>1. /\ UNCHANGED <<disk, channel_cnt, finished, cut, part_idx>>
      /\ phase \in {"probe", "scan"} /\ phase' \in {"probe", "scan", "panic"}
  <2>1. UNCHANGED <<finished, cut, part_idx>>
    BY DEF ide, fsvars, past
  <2>2. CASE ide_init
    BY <2>1, <2>2 DEF ide_init
  <2>3. CASE scan_empty
    BY <2>1, <2>3 DEF scan_empty, AtEntry
  <2>4. CASE scan_extended
    BY <2>1, <2>4 DEF scan_extended, AtEntry
  <2>5. CASE scan_primary
    BY <2>1, <2>5 DEF scan_primary, AtEntry
  <2>6. CASE scan_logical
    BY <2>1, <2>6 DEF scan_logical, AtEntry
  <2>7. CASE scan_end
    BY <2>1, <2>7 DEF scan_end, Return
  <2> QED
    BY <2>2, <2>3, <2>4, <2>5, <2>6, <2>7 DEF ide, partition_scan
<1>2. FormattedAre' /\ SupersAre'
  BY <1>1, FormattedStays, SupersStay DEF FormatInv
<1>3. part_idx = 0
  BY <1>1 DEF FormatInv, Searched
<1>4. Formatting' /\ Searched'
  BY <1>1, <1>3 DEF Formatting, Searched, Up
<1> QED
  BY <1>2, <1>4 DEF FormatInv

(* A step that changes nothing. *)
LEMMA NothingChanges ==
  ASSUME BootTypes, ScanInv, FormatInv, MountedAsFormatted,
         UNCHANGED <<disk, channel_cnt, phase, channel_no, scan, part_idx, write, cur_part, maps, cut, finished>>,
         UNCHANGED <<prim_parts, logic_parts, partition_list, frames, ext_lba_base, p_no, l_no, buffers>>
  PROVE  ScanInv' /\ FormatInv' /\ MountedAsFormatted'
<1>1. /\ SameTables /\ DOMAIN disk' = DOMAIN disk
      /\ \A c \in DOMAIN disk :
           /\ Tables(c)' = Tables(c) /\ HasExtended(c)' = HasExtended(c) /\ Base(c)' = Base(c)
           /\ Primary(c)' = Primary(c) /\ Readable(c)' = Readable(c)
           /\ Full(c)' = Full(c) /\ Misled(c)' = Misled(c) /\ Count(c)' = Count(c)
  BY DiskSays, TablesSay DEF SameTables
<1>2. \A c \in DOMAIN disk : Scanned(c)' = Scanned(c) /\ Untouched(c)' = Untouched(c)
  BY <1>1 DEF Scanned, Untouched
<1>3. \A n : Kept(n)' = Kept(n)
  BY <1>1 DEF Kept
<1>4. ASSUME phase \in {"probe", "scan"} PROVE BaseIs'
  <2>1. BaseIs
    BY <1>4 DEF ScanInv
  <2>2. channel_no \in DOMAIN disk \/ phase = "probe"
    BY <1>4 DEF ScanInv, Scanning, BootTypes
  <2>3. Seen1' = Seen1
    BY <1>1, <2>2 DEF Seen1
  <2> QED
    BY <1>1, <2>1, <2>3, BaseStays
<1>5. ASSUME phase = "scan" PROVE Scanning'
  <2>1. PICK c : c = channel_no
    OBVIOUS
  <2>2. Scanning /\ c \in DOMAIN disk
    BY <1>5, <2>1, ScanIs
  <2>3. Tables(c)' = Tables(c) /\ Misled(c)' = Misled(c)
    BY <1>1, <2>2
  <2> QED
    BY <2>1, <2>2, <2>3 DEF Scanning
<1>6. Listed' = Listed
  BY DEF Listed
<1>7. phase = "panic" => (Cardinality(Primary(channel_no)) >= PrimMax)'
  <2>1. Tables(channel_no)' = Tables(channel_no)
    BY DEF Tables, Table
  <2>2. Primary(channel_no)' = Primary(channel_no)
    BY <2>1 DEF Primary
  <2> QED
    BY <2>2 DEF ScanInv
<1>8. ScanInv'
  BY <1>1, <1>2, <1>3, <1>4, <1>5, <1>6, <1>7 DEF ScanInv
<1>9. FormattedAre'
  BY FormattedStays DEF FormatInv
<1>10. /\ \A c, w : Holds(c, w)' = Holds(c, w)
       /\ \A part : HasSuper(part)' = HasSuper(part)
       /\ Here' = Here /\ Formatted' = Formatted /\ \A idx : At(idx)' = At(idx)
  BY DEF Holds, HasSuper, Here, Part, Formatted, At
<1>11. SupersAre'
  <2>1. SupersAre
    BY DEF FormatInv
  <2> QED
    BY <1>1, <1>10, <2>1, Zenon DEF SupersAre
<1>12. Formatting'
  <2>1. ASSUME phase = "format"
        PROVE  /\ channel_no = 0 /\ channel_cnt > 0 /\ part_idx < Slots /\ 0 \in DOMAIN disk
               /\ Here \in Readable(0) \ Formatted
               /\ \A i \in 1 .. write : Holds(0, Writes(Here)[i])
    BY <2>1 DEF FormatInv, Formatting, BootTypes
  <2>2. Slots' = Slots
    BY DEF Slots
  <2> QED
    BY <1>1, <1>10, <2>1, <2>2 DEF Formatting
<1>13. Searched'
  <2>1. \A idx : HasSuper(At(idx))' = HasSuper(At(idx))
    BY <1>10 DEF HasSuper
  <2>2. Up' = Up /\ Slots' = Slots
    BY DEF Up, Slots
  <2>3. Searched
    BY DEF FormatInv
  <2> QED
    BY <1>10, <2>1, <2>2, <2>3 DEF Searched
<1>14. MountedAsFormatted'
  <2>1. Tables(0)' = Tables(0)
    BY DEF Tables, Table
  <2>2. Primary(0)' = Primary(0) /\ Readable(0)' = Readable(0)
    BY <2>1 DEF Primary, Readable, Logical
  <2>3. \A part : Complete(part)' = Complete(part)
    BY <1>10 DEF Complete
  <2> QED
    BY <2>2, <2>3 DEF MountedAsFormatted
<1> QED
  BY <1>8, <1>9, <1>11, <1>12, <1>13, <1>14 DEF FormatInv

(* Every step keeps the invariant. *)
LEMMA BootStep ==
  ASSUME BootTypes, ScanInv, FormatInv, MountedAsFormatted, [Next]_vars
  PROVE  BootTypes' /\ ScanInv' /\ FormatInv' /\ MountedAsFormatted'
<1>1. CASE ide
  <2>1. phase' # "up"
    <3>1. phase' \in {"probe", "scan", "panic"}
      BY <1>1 DEF ide, partition_scan, ide_init, scan_empty, scan_extended, scan_primary, scan_logical,
                  scan_end, AtEntry, Return
    <3> QED
      BY <3>1
  <2> QED
    BY <1>1, <2>1, IdeKeeps, IdeQuiet DEF MountedAsFormatted
<1>2. CASE filesys_init
  <2>1. phase' # "up"
    BY <1>2 DEF filesys_init
  <2> QED
    BY <1>2, <2>1, QuietKeeps, InitKeeps DEF MountedAsFormatted, FormatInv
<1>3. CASE search_next
  <2>1. phase' # "up"
    BY <1>3 DEF search_next, Search
  <2> QED
    BY <1>3, <2>1, QuietKeeps, NextKeeps DEF MountedAsFormatted, FormatInv
<1>4. CASE search_channel
  <2>1. phase' # "up"
    BY <1>4 DEF search_channel, Search
  <2> QED
    BY <1>4, <2>1, QuietKeeps, ChannelKeeps DEF MountedAsFormatted, FormatInv
<1>5. CASE partition_format
  <2>1. phase' # "up"
    BY <1>5 DEF partition_format
  <2> QED
    BY <1>5, <2>1, QuietKeeps, FormatKeeps DEF MountedAsFormatted, FormatInv
<1>6. CASE format_write
  <2>1. phase' # "up"
    BY <1>6 DEF format_write
  <2> QED
    BY <1>6, <2>1, WriteKeeps DEF MountedAsFormatted
<1>7. CASE mount_partition
  BY <1>7, QuietKeeps, MountKeeps, MountTakes DEF FormatInv
<1>8. CASE power_failure
  <2>1. phase' # "up"
    BY <1>8 DEF power_failure
  <2> QED
    BY <1>8, <2>1, FailureKeeps, FailureCuts DEF MountedAsFormatted
<1>9. CASE format_refused
  <2>1. phase' # "up"
    BY <1>9 DEF format_refused
  <2> QED
    BY <1>9, <2>1, RefusedKeeps DEF MountedAsFormatted
<1>10. CASE mount_refused \/ open_root_dir_NULL
  <2>1. phase' # "up"
    BY <1>10 DEF mount_refused, open_root_dir_NULL
  <2> QED
    BY <1>10, <2>1, QuietKeeps, MountKeeps DEF MountedAsFormatted, FormatInv
<1>11. CASE UNCHANGED vars
  <2>1. UNCHANGED <<disk, channel_cnt, phase, channel_no, scan, part_idx, write, cur_part, maps, cut, finished>>
    BY <1>11 DEF vars, fsvars, past
  <2>2. UNCHANGED <<prim_parts, logic_parts, partition_list, frames, ext_lba_base, p_no, l_no, buffers>>
    BY <2>1 DEF scan
  <2>3. /\ channel_no' \in 0 .. channel_cnt /\ part_idx' \in 0 .. Slots /\ write' \in 0 .. 4
        /\ phase' \in {"probe", "scan", "search", "format", "up", "fspanic", "adrift", "panic"}
        /\ prim_parts' \in [Channels -> Seq(Parts)] /\ logic_parts' \in [Channels -> Seq(Parts)]
        /\ partition_list' \in Seq(Parts)
    BY <2>1, <2>2 DEF BootTypes
  <2>4. BootTypes'
    BY <2>1, <2>3, TypesKeep
  <2>5. ScanInv' /\ FormatInv' /\ MountedAsFormatted'
    BY <2>1, <2>2, NothingChanges
  <2> QED
    BY <2>4, <2>5
<1> QED
  BY <1>1, <1>2, <1>3, <1>4, <1>5, <1>6, <1>7, <1>8, <1>9, <1>10, <1>11 DEF Next, Boots

(* What FormatStaysInside says of a step. *)
WritesInside ==
  \A c \in DOMAIN disk :
    LET changed == {lba \in LBAs : disk'[c][lba] # disk[c][lba]} IN
    changed # {} =>
      \E part \in Readable(c) : part \notin finished \cup cut /\ changed \subseteq Sectors(part)
LEMMA WriteInside ==
  ASSUME BootTypes, ScanInv, FormatInv, [Next]_vars PROVE WritesInside
<1>1. CASE disk' = disk
  BY <1>1 DEF WritesInside
<1>2. CASE format_write
  <2>1. PICK part : part = Here
    OBVIOUS
  <2>2. PICK i : i = write + 1
    OBVIOUS
  <2>3. /\ 0 \in DOMAIN disk /\ part \in Readable(0) /\ part \notin Formatted /\ i \in 1 .. 5
        /\ InTurn(part) /\ Written(0, part, i)
    BY <1>2, <2>1, <2>2, WriteIs
  <2>4. ASSUME NEW c \in DOMAIN disk, NEW lba \in LBAs, disk'[c][lba] # disk[c][lba]
        PROVE  c = 0 /\ lba \in Sectors(part)
    BY <2>3, <2>4 DEF Written, InTurn
  <2>5. part \notin finished \cup cut
    BY <2>3 DEF Formatted
  <2> QED
    BY <2>3, <2>4, <2>5 DEF WritesInside
<1>3. disk' = disk \/ format_write
  BY DEF Next, Boots, ide, partition_scan, ide_init, scan_empty, scan_extended, scan_primary, scan_logical,
         scan_end, filesys_init, search_next, search_channel, partition_format, format_refused,
         mount_partition, mount_refused, open_root_dir_NULL, power_failure, vars
<1> QED
  BY <1>1, <1>2, <1>3

-----------------------------------------------------------------------------

(* The start of the kernel keeps the invariant of these proofs, wherever   *)
(* the power fails: the disks stay as a partitioning program and a format  *)
(* leave them, the scan is where the tables have led it, and what has been *)
(* formatted holds its file system.                                        *)
THEOREM BootInvariant == Spec => []BootInv
<1>1. Init => BootInv
  BY FirstStart DEF BootInv
<1>2. BootInv /\ [Next]_vars => BootInv'
  BY BootStep DEF BootInv
<1> QED
  BY <1>1, <1>2, PTL DEF Spec

(* ide_init, partition_scan: on every machine, the scan finds each         *)
(* partition of the tables once, with its number, start and length, and    *)
(* keeps a buffer only for a table with the last logical partition.        *)
THEOREM ScanFindsPartitions == Spec => []ScanMatchesTables
<1>1. BootInv => ScanMatchesTables
  BY TablesMatch DEF BootInv
<1> QED
  BY <1>1, BootInvariant, PTL

(* filesys_init, mount_partition: a kernel that is up has on every         *)
(* partition of the first disk what partition_format writes, as far as the *)
(* uint8_t of ide_write lets it, those excepted whose format was cut short *)
(* by the power or an ASSERT, and has mounted sdb1, with the inode bitmap  *)
(* and, if its sectors fit into the uint8_t, the block bitmap it was given.*)
THEOREM MountFindsFileSystem == Spec => []MountedAsFormatted
<1>1. BootInv => MountedAsFormatted
  BY DEF BootInv
<1> QED
  BY <1>1, BootInvariant, PTL

(* partition_format: the clear bits of a block bitmap are numbers of       *)
(* sectors of the partition behind the inode table, or of the sector after *)
(* the partition.                                                          *)
THEOREM BitmapNamesBlocks == Spec => []BlocksInside
<1>1. BootInv => BlocksInside
  BY AreBlocksInside DEF BootInv
<1> QED
  BY <1>1, BootInvariant, PTL

(* partition_format, filesys_init: a start writes to one partition at a    *)
(* time, one that was not formatted before, and to no other sector.        *)
THEOREM FormatWritesInside == Spec => FormatStaysInside
<1>1. BootInv /\ [Next]_vars => [WritesInside]_vars
  BY WriteInside DEF BootInv
<1>2. Spec => [][WritesInside]_vars
  BY <1>1, BootInvariant, PTL DEF Spec
<1> QED
  BY <1>2, PTL DEF FormatStaysInside, WritesInside
=============================================================================
