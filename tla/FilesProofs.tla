----------------------------- MODULE FilesProofs -----------------------------
(***************************************************************************)
(* Creating files, for any names, any size of the partition and any number *)
(* of power failures: what is on the disk between any two writes, that the *)
(* bitmaps in memory are those on disk, and whose the open files are.      *)
(***************************************************************************)
EXTENDS Files, WellFoundedInduction, TLAPS

-----------------------------------------------------------------------------

(* A set of natural numbers that is not empty has a least element.         *)
LEMMA Least ==
  ASSUME NEW S, S \subseteq Nat, S # {} PROVE \E n \in S : \A m \in S : n <= m
<1> DEFINE R == OpToRel(<, Nat)
<1>1. IsWellFoundedOn(R, Nat)
  BY NatLessThanWellFounded, Zenon
<1>2. \A y, z \in Nat : y < z => <<y, z>> \in R
  <2>1. R = {ss \in Nat \X Nat : ss[1] < ss[2]}
    BY Zenon DEF OpToRel
  <2> SUFFICES ASSUME NEW y \in Nat, NEW z \in Nat, y < z PROVE <<y, z>> \in R
    OBVIOUS
  <2>2. <<y, z>> \in Nat \X Nat /\ <<y, z>>[1] < <<y, z>>[2]
    OBVIOUS
  <2> HIDE DEF R
  <2> QED
    BY <2>1, <2>2, Zenon
<1> HIDE DEF R
<1>3. PICK x \in S : \A y \in S : ~(<<y, x>> \in R)
  BY <1>1, WFMin, Zenon
<1>4. ASSUME NEW y \in S PROVE x <= y
  <2>1. x \in Nat /\ y \in Nat
    OBVIOUS
  <2>2. ~(y < x)
    BY <1>2, <1>3, <2>1, Zenon
  <2> QED
    BY <2>1, <2>2
<1> QED
  BY <1>4

(* Min is an element of a set of natural numbers that has one.             *)
LEMMA MinIn ==
  ASSUME NEW S, S \subseteq Nat, S # {} PROVE Min(S) \in S
BY Least, Zenon DEF Min

(* The bit bitmap_scan returns for one bit is in the bitmap, and clear.    *)
LEMMA ScanIsClear ==
  ASSUME ByteBits \in Nat \ {0}, NEW len \in Nat, len % ByteBits = 0, NEW used
  PROVE  bitmap_scan(used, len, 1) \in {NoBits} \cup ((0 .. len - 1) \ used)
<1> DEFINE q     == len \div ByteBits
           bytes == {i \in 0 .. q - 1 : ~(Byte(i) \subseteq used)}
           start == Min(Byte(Min(bytes)) \ used)
<1>1. bitmap_scan(used, len, 1) = IF bytes = {} THEN NoBits ELSE start
  BY Zenon DEF bitmap_scan
<1>2. q \in Nat /\ len = q * ByteBits
  <2>1. len \div ByteBits \in Nat /\ len = ByteBits * (len \div ByteBits) + (len % ByteBits)
    OBVIOUS
  <2> QED
    BY <2>1
<1>3. ASSUME bytes # {} PROVE start \in (0 .. len - 1) \ used
  <2>1. bytes \subseteq Nat
    BY <1>2
  <2>2. PICK m : m = Min(bytes) /\ m \in bytes
    BY <1>3, <2>1, MinIn
  <2>3. m \in 0 .. q - 1 /\ Byte(m) \ used # {}
    BY <2>2
  <2>4. Byte(m) \subseteq 0 .. len - 1
    <3> HIDE DEF q
    <3>1. (m + 1) * ByteBits <= q * ByteBits
      BY <1>2, <2>3
    <3>2. m * ByteBits \in Nat /\ (m + 1) * ByteBits \in Nat /\ q * ByteBits \in Nat
      BY <1>2, <2>3
    <3> QED
      BY <1>2, <3>1, <3>2 DEF Byte
  <2>5. Byte(m) \ used \subseteq Nat
    BY <2>4
  <2>6. Min(Byte(m) \ used) \in Byte(m) \ used
    BY <2>3, <2>5, MinIn
  <2> QED
    BY <2>2, <2>4, <2>6, Zenon
<1> QED
  BY <1>1, <1>3, Zenon

(* inode_bitmap_alloc and block_bitmap_alloc return a free number.         *)
LEMMA AllocIsFree ==
  /\ inode_bitmap_alloc \in {NoBits} \cup (Inodes \ ibits)
  /\ block_bitmap_alloc \in {NoBits} \cup (Blocks \ bbits)
BY ScanIsClear, FilesAssumption DEF inode_bitmap_alloc, block_bitmap_alloc, Inodes, Blocks

(* get_free_slot_in_global and pcb_fd_install find a place that is free.   *)
LEMMA FirstFreeIsFree ==
  ASSUME NEW S, S \subseteq Nat, NEW T, NEW table \in [S -> T], FirstFree(table) # None
  PROVE  FirstFree(table) \in S /\ table[FirstFree(table)] = None
<1> DEFINE free == {k \in DOMAIN table : table[k] = None}
<1>1. FirstFree(table) = IF free = {} THEN None ELSE Min(free)
  BY Zenon DEF FirstFree
<1>2. free # {} /\ free \subseteq S
  BY <1>1
<1>3. Min(free) \in free
  BY <1>2, MinIn
<1> QED
  BY <1>1, <1>2, <1>3

-----------------------------------------------------------------------------

Sectors == [first : Blocks \cup {None}, index : Blocks \cup {None}]
Data    == [index : Blocks \cup {None}, name : Names \cup {None}, i_no : Inodes]
Created == {"block", "write_index", "write_entry", "sync_parent", "sync_inode", "sync_bitmap"}
Opening == {"index"} \cup Created

Types ==
  /\ d_ibits \subseteq Inodes /\ ibits \subseteq Inodes
  /\ d_bbits \subseteq Blocks /\ bbits \subseteq Blocks
  /\ d_inode \in [Inodes -> Sectors] /\ root \in Sectors
  /\ d_data \in [Blocks -> Data]
  /\ opens \in [Inodes -> Nat]
  /\ file_table \in [Slots -> Inodes \cup {None}]
  /\ fd_table \in [Fds -> Slots \cup {None}]
  /\ call \in [step : {"idle", "create", "panic"} \cup Opening, name : Names \cup {None},
               dir : BOOLEAN, i_no : Inodes, slot : Slots \cup {None}, block : Blocks]

(* What the call has done so far. *)
Calls ==
  /\ At("idle") => call = Idle
  /\ At("create") => call.slot = None
  /\ ~At("idle") => call.name # None
  /\ call.step \in Opening => call.slot # None

(* The bitmaps: an inode is taken in memory first, a block on both sides.  *)
Bitmaps ==
  /\ bbits = d_bbits /\ RootBlock \in bbits
  /\ ibits = d_ibits \cup (IF call.slot = None THEN {} ELSE {call.i_no})
  /\ 0 \in d_ibits

(* A slot is free, or the call's, or a file that is open. *)
Handles ==
  /\ \A s, t \in Slots : file_table[s] # None /\ file_table[s] = file_table[t] => s = t
  /\ \A s \in Slots : file_table[s] # None =>
       /\ file_table[s] \in ibits \ {0}
       /\ opens[file_table[s]] = (IF call.slot = s THEN 0 ELSE 1)
  /\ \A f, g \in Fds : fd_table[f] # None =>
       /\ file_table[fd_table[f]] # None /\ fd_table[f] # call.slot
       /\ fd_table[f] = fd_table[g] => f = g
  /\ call.slot # None => file_table[call.slot] = call.i_no
  /\ \A i \in Inodes \ ibits : opens[i] = 0
  /\ opens[0] >= (IF call.dir THEN 2 ELSE 1)

(* The sectors of block b are no part of the directory on disk. *)
Off(b) ==
  SmallNumbers /\ d_inode[0].index # None =>
    b # d_inode[0].index /\ b # d_data[d_inode[0].index].index

(* The blocks the call has taken, and what it has written to them. *)
Written ==
  /\ \A b \in Blocks \ bbits : d_data[b].i_no = 0
  /\ call.step \in {"block", "write_index", "write_entry", "sync_parent"} =>
       root.index \in bbits \ {RootBlock}
  /\ call.step \in {"block", "write_index", "write_entry"} =>
       d_data[root.index].i_no = 0 /\ Off(root.index)
  /\ call.step \in {"write_index", "write_entry", "sync_parent"} =>
       call.block \in bbits \ {RootBlock, root.index}
  /\ call.step \in {"write_index", "write_entry"} =>
       d_data[call.block].i_no = 0 /\ Off(call.block)
  /\ call.step \in {"write_entry", "sync_parent"} =>
       d_data[root.index].index = call.block
  /\ call.step \in {"sync_parent", "sync_inode", "sync_bitmap"} =>
       d_data[call.block].i_no = call.i_no /\ d_data[call.block].name # None

(* The inode of the entry on disk is taken, or is yet to be. *)
Taken(i) == i \in d_ibits \/ cut \/ (call.step \in {"sync_inode", "sync_bitmap"} /\ i = call.i_no)

Tree ==
  SmallNumbers =>
    LET r == d_inode[0]
        b == d_data[r.index].index
    IN  /\ r.first = RootBlock /\ root.first = RootBlock
        /\ r.index # None =>
             /\ b # None /\ b # r.index /\ {RootBlock} \cap {b, r.index} = {}
             /\ {b, r.index} \subseteq d_bbits
             /\ d_data[b].name # None /\ d_data[b].i_no # 0 /\ Taken(d_data[b].i_no)

IInv == Types /\ Calls /\ Bitmaps /\ Handles /\ Written /\ Tree

-----------------------------------------------------------------------------

LEMMA InitSound == Init => IInv
<1> SUFFICES ASSUME Init PROVE IInv
  OBVIOUS
<1> USE FilesAssumption
<1>1. 0 \in Inodes /\ RootBlock \in Blocks /\ None \notin Nat
  BY DEF Inodes, Blocks, RootBlock
<1>2. Types
  <2>1. d_inode \in [Inodes -> Sectors] /\ root \in Sectors
    BY <1>1 DEF Init, Sectors, inode_init
  <2>2. d_data \in [Blocks -> Data]
    BY <1>1 DEF Init, Data, Unused
  <2>3. opens \in [Inodes -> Nat]
    BY DEF Init
  <2>4. file_table \in [Slots -> Inodes \cup {None}] /\ fd_table \in [Fds -> Slots \cup {None}]
    BY DEF Init
  <2>5. call \in [step : {"idle"}, name : {None}, dir : BOOLEAN, i_no : Inodes, slot : {None}, block : Blocks]
    BY <1>1 DEF Init, Idle, RootBlock
  <2>6. d_ibits \subseteq Inodes /\ ibits \subseteq Inodes /\ d_bbits \subseteq Blocks /\ bbits \subseteq Blocks
    BY <1>1 DEF Init
  <2> QED
    BY <2>1, <2>2, <2>3, <2>4, <2>5, <2>6 DEF Types
<1>3. Calls /\ Bitmaps /\ Handles
  BY <1>1 DEF Init, Calls, Bitmaps, Handles, Idle, At, Opening, Created
<1>4. Written /\ Tree
  BY <1>1 DEF Init, Written, Tree, Idle, At, Unused
<1> QED
  BY <1>2, <1>3, <1>4 DEF IInv

(* Nothing happens. *)
LEMMA StutterSound == IInv /\ UNCHANGED vars => IInv'
BY DEF IInv, vars, disk, maps, tabs, Types, Calls, Bitmaps, Handles, Written, Tree, Off, Taken, SmallNumbers,
       At

(* A name that is there. *)
LEMMA FoundSound == IInv /\ sys_open_found => IInv'
<1> SUFFICES ASSUME IInv, sys_open_found PROVE IInv'
  OBVIOUS
<1> USE FilesAssumption DEF IInv, sys_open_found, disk, maps, tabs
<1>1. opens' \in [Inodes -> Nat] /\ opens'[0] >= opens[0] /\ \A i \in Inodes \ {0} : opens'[i] = opens[i]
  BY DEF inode_open, Types, Inodes
<1>2. Types' /\ Calls' /\ Bitmaps'
  BY <1>1 DEF Types, Calls, Bitmaps, At
<1>3. Handles'
  BY <1>1 DEF Handles, Bitmaps, Types, Inodes
<1>4. Written' /\ Tree'
  BY DEF Written, Tree, Off, Taken, SmallNumbers
<1> QED
  BY <1>2, <1>3, <1>4

(* A file is to be created. *)
LEMMA CreateSound == IInv /\ sys_open_create => IInv'
<1> SUFFICES ASSUME IInv, sys_open_create PROVE IInv'
  OBVIOUS
<1> USE FilesAssumption DEF IInv
<1>1. PICK n \in Names, dir \in BOOLEAN :
        /\ opens' = IF dir THEN inode_open(opens) ELSE opens
        /\ call' = [Idle EXCEPT !.step = "create", !.name = n, !.dir = dir]
  BY DEF sys_open_create
<1>2. call = Idle /\ UNCHANGED <<disk, maps, root, file_table, fd_table, cut, created>>
  BY DEF sys_open_create, Calls
<1>3. opens' \in [Inodes -> Nat] /\ opens'[0] = opens[0] + (IF dir THEN 1 ELSE 0)
      /\ \A i \in Inodes \ {0} : opens'[i] = opens[i]
  <2>1. 0 \in Inodes /\ opens \in [Inodes -> Nat]
    BY DEF Inodes, Types
  <2>2. CASE dir
    BY <1>1, <2>1, <2>2 DEF inode_open
  <2>3. CASE ~dir
    BY <1>1, <2>1, <2>3
  <2> QED
    BY <2>2, <2>3
<1>4. call' = [step |-> "create", name |-> n, dir |-> dir, i_no |-> 0, slot |-> None, block |-> 0]
  BY <1>1 DEF Idle
<1>5. Types' /\ Calls'
  <2>1. 0 \in Inodes /\ 0 \in Blocks /\ None \notin Names
    BY DEF Inodes, Blocks
  <2>2. Calls'
    BY <1>4, <2>1 DEF Calls, At, Opening, Created
  <2>3. call' \in [step : {"idle", "create", "panic"} \cup Opening, name : Names \cup {None},
                   dir : BOOLEAN, i_no : Inodes, slot : Slots \cup {None}, block : Blocks]
    BY <1>4, <2>1
  <2> QED
    BY <1>2, <1>3, <2>2, <2>3 DEF Types, disk, maps
<1>6. Bitmaps' /\ Handles'
  BY <1>2, <1>3, <1>4 DEF Bitmaps, Handles, Types, Inodes, Idle, disk, maps
<1>7. Written' /\ Tree'
  BY <1>2, <1>4 DEF Written, Tree, Off, Taken, SmallNumbers, Idle, disk, maps
<1> QED
  BY <1>5, <1>6, <1>7

(* A panic stops the call where it is. *)
LEMMA PanicSound == IInv /\ call.step \in {"create", "index", "block"} /\ Panic => IInv'
<1> SUFFICES ASSUME IInv, call.step \in {"create", "index", "block"}, Panic PROVE IInv'
  OBVIOUS
<1> USE FilesAssumption DEF IInv
<1>1. UNCHANGED <<disk, maps, root, tabs, cut, created>> /\ call' = [call EXCEPT !.step = "panic"]
  BY DEF Panic, Goto
<1>2. Types' /\ Calls' /\ Bitmaps' /\ Handles'
  BY <1>1 DEF Types, Calls, Bitmaps, Handles, At, Opening, Created, disk, maps, tabs
<1>3. Written'
  BY <1>1 DEF Written, Types, disk, maps
<1>4. Tree'
  BY <1>1 DEF Tree, Taken, SmallNumbers, Types, disk, maps
<1> QED
  BY <1>2, <1>3, <1>4

(* The root's inode is closed again at the end of the call. *)
LEMMA ClosedSound ==
  ASSUME IInv, NEW o \in [Inodes -> Nat], o[0] = opens[0]
  PROVE  /\ Closed(o) \in [Inodes -> Nat] /\ Closed(o)[0] >= 1
         /\ \A i \in Inodes \ {0} : Closed(o)[i] = o[i]
<1> USE FilesAssumption
<1>1. 0 \in Inodes /\ call.dir \in BOOLEAN /\ opens[0] \in Nat /\ opens[0] >= (IF call.dir THEN 2 ELSE 1)
  BY DEF Inodes, IInv, Types, Handles
<1>2. CASE call.dir
  BY <1>1, <1>2 DEF Closed, inode_close
<1>3. CASE ~call.dir
  BY <1>1, <1>3 DEF Closed
<1> QED
  BY <1>1, <1>2, <1>3

(* An inode and a slot are taken, or there is no slot. *)
LEMMA FileCreateSound == IInv /\ file_create => IInv'
<1> SUFFICES ASSUME IInv, file_create PROVE IInv'
  OBVIOUS
<1> USE FilesAssumption DEF IInv
<1>1. At("create") /\ call.slot = None /\ call.name # None
  BY DEF file_create, Calls, At
<1>2. PICK i : i = inode_bitmap_alloc /\ i \in {NoBits} \cup (Inodes \ ibits)
  BY AllocIsFree
<1>3. PICK s : s = get_free_slot_in_global
  OBVIOUS
<1>4. CASE i = NoBits /\ Panic
  BY <1>1, <1>4, PanicSound DEF At
<1>5. CASE /\ i # NoBits /\ s = None
           /\ call' = Idle
           /\ opens' = Closed(opens)
           /\ UNCHANGED <<disk, maps, root, file_table, fd_table, cut, created>>
  <2>1. opens' \in [Inodes -> Nat] /\ opens'[0] >= 1 /\ \A j \in Inodes \ {0} : opens'[j] = opens[j]
    BY <1>5, ClosedSound DEF Types
  <2>2. 0 \in Inodes /\ 0 \in Blocks
    BY DEF Inodes, Blocks
  <2>3. call' = [step |-> "idle", name |-> None, dir |-> FALSE, i_no |-> 0, slot |-> None, block |-> 0]
    BY <1>5 DEF Idle
  <2>4. Types'
    <3>1. call' \in [step : {"idle"}, name : {None}, dir : BOOLEAN, i_no : Inodes, slot : {None}, block : Blocks]
      BY <2>2, <2>3
    <3> QED
      BY <1>5, <2>1, <3>1 DEF Types, disk, maps
  <2>5. Calls' /\ Bitmaps'
    BY <1>1, <1>5, <2>3 DEF Calls, Bitmaps, At, Opening, Created, disk, maps
  <2>6. Handles'
    BY <1>1, <1>5, <2>1, <2>3 DEF Handles, Types, Bitmaps, disk, maps
  <2>7. Written' /\ Tree'
    BY <1>1, <1>5, <2>3 DEF Written, Tree, Off, Taken, SmallNumbers, At, disk, maps
  <2> QED
    BY <2>4, <2>5, <2>6, <2>7
<1>6. CASE /\ i # NoBits /\ s # None
           /\ ibits' = ibits \cup {i}
           /\ file_table' = [file_table EXCEPT ![s] = i]
           /\ call' = [call EXCEPT !.step = "index", !.i_no = i, !.slot = s]
           /\ UNCHANGED <<disk, bbits, root, opens, fd_table, cut, created>>
  <2>1. i \in Inodes \ ibits /\ i # 0 /\ i # None
    BY <1>2, <1>6 DEF Bitmaps, Inodes
  <2>2. s \in Slots /\ file_table[s] = None
    BY <1>3, <1>6, FirstFreeIsFree DEF get_free_slot_in_global, Types
  <2>3. Types' /\ Calls'
    BY <1>1, <1>6, <2>1, <2>2 DEF Types, Calls, At, Opening, Created, disk
  <2>4. Bitmaps'
    BY <1>1, <1>6, <2>1, <2>2 DEF Bitmaps, Types, disk
  <2>5. Handles'
    BY <1>1, <1>6, <2>1, <2>2 DEF Handles, Types, disk
  <2>6. Written' /\ Tree'
    BY <1>1, <1>6 DEF Written, Tree, Off, Taken, SmallNumbers, At, Types, disk
  <2> QED
    BY <2>3, <2>4, <2>5, <2>6
<1> QED
  BY <1>2, <1>3, <1>4, <1>5, <1>6 DEF file_create

-----------------------------------------------------------------------------

(* A block for the index, which is on disk in no directory. *)
LEMMA IndexSound == IInv /\ sync_dir_entry_index => IInv'
<1> SUFFICES ASSUME IInv, sync_dir_entry_index PROVE IInv'
  OBVIOUS
<1> USE FilesAssumption DEF IInv
<1>1. PICK b : b = block_bitmap_alloc /\ b \in {NoBits} \cup (Blocks \ bbits)
  BY AllocIsFree
<1>2. At("index") /\ call.slot # None
  BY DEF sync_dir_entry_index, Calls, At, Opening
<1>3. CASE b = NoBits /\ Panic
  BY <1>2, <1>3, PanicSound DEF At
<1>4. CASE /\ b # NoBits
           /\ Take(b)
           /\ root' = [root EXCEPT !.index = b]
           /\ Goto("block")
           /\ UNCHANGED <<d_ibits, d_inode, d_data, ibits, tabs, cut, created>>
  <2>1. b \in Blocks \ bbits /\ b # RootBlock /\ b # None
    BY <1>1, <1>4 DEF Bitmaps, Blocks
  <2>2. /\ bbits' = bbits \cup {b} /\ d_bbits' = bbits \cup {b}
        /\ call' = [call EXCEPT !.step = "block"]
    BY <1>4 DEF Take, Goto
  <2>3. /\ root' \in Sectors /\ root'.index = b /\ root'.first = root.first
        /\ root \in Sectors
    BY <1>4, <2>1 DEF Types, Sectors
  <2>4. Types'
    BY <1>4, <2>1, <2>2, <2>3 DEF Types, Created, Opening, tabs
  <2>5. Calls' /\ Bitmaps' /\ Handles'
    BY <1>2, <1>4, <2>1, <2>2 DEF Calls, Bitmaps, Handles, Types, At, Opening, Created, tabs
  <2>6. Off(b)
    BY <2>1 DEF Off, Tree, Bitmaps
  <2>7. Written'
    BY <1>2, <1>4, <2>1, <2>2, <2>3, <2>6 DEF Written, Off, SmallNumbers, Types, At
  <2>8. Tree'
    BY <1>2, <1>4, <2>1, <2>2, <2>3 DEF Tree, Taken, SmallNumbers, Types, At, Bitmaps
  <2> QED
    BY <2>4, <2>5, <2>7, <2>8
<1> QED
  BY <1>1, <1>3, <1>4 DEF sync_dir_entry_index

(* Another one for the entry. *)
LEMMA BlockSound == IInv /\ sync_dir_entry_block => IInv'
<1> SUFFICES ASSUME IInv, sync_dir_entry_block PROVE IInv'
  OBVIOUS
<1> USE FilesAssumption DEF IInv
<1>1. PICK b : b = block_bitmap_alloc /\ b \in {NoBits} \cup (Blocks \ bbits)
  BY AllocIsFree
<1>2. At("block") /\ call.slot # None
  BY DEF sync_dir_entry_block, Calls, At, Opening, Created
<1>3. CASE b = NoBits /\ Panic
  BY <1>2, <1>3, PanicSound DEF At
<1>4. CASE /\ b # NoBits
           /\ Take(b)
           /\ call' = [call EXCEPT !.step = "write_index", !.block = b]
           /\ UNCHANGED <<d_ibits, d_inode, d_data, ibits, root, tabs, cut, created>>
  <2>1. b \in Blocks \ bbits /\ b # RootBlock /\ b # None
    BY <1>1, <1>4 DEF Bitmaps, Blocks
  <2>2. bbits' = bbits \cup {b} /\ d_bbits' = bbits \cup {b}
    BY <1>4 DEF Take
  <2>3. Types'
    BY <1>4, <2>1, <2>2 DEF Types, Created, Opening, tabs
  <2>4. Calls' /\ Bitmaps' /\ Handles'
    BY <1>2, <1>4, <2>1, <2>2 DEF Calls, Bitmaps, Handles, Types, At, Opening, Created, tabs
  <2>5. Off(b)
    BY <2>1 DEF Off, Tree, Bitmaps
  <2>6. Written'
    BY <1>2, <1>4, <2>1, <2>2, <2>5 DEF Written, Off, SmallNumbers, Types, At
  <2>7. Tree'
    BY <1>2, <1>4, <2>1, <2>2 DEF Tree, Taken, SmallNumbers, Types, At, Bitmaps
  <2> QED
    BY <2>3, <2>4, <2>6, <2>7
<1> QED
  BY <1>1, <1>3, <1>4 DEF sync_dir_entry_block

(* The index block points to the entry's; the disk's directory has neither. *)
LEMMA WriteIndexSound == IInv /\ sync_dir_entry_write_index => IInv'
<1> SUFFICES ASSUME IInv, sync_dir_entry_write_index PROVE IInv'
  OBVIOUS
<1> USE FilesAssumption DEF IInv
<1>1. At("write_index") /\ call.slot # None
  BY DEF sync_dir_entry_write_index, Calls, At, Opening, Created
<1>2. /\ d_data' = [d_data EXCEPT ![root.index] = [Unused EXCEPT !.index = call.block]]
      /\ call' = [call EXCEPT !.step = "write_entry"]
      /\ UNCHANGED <<d_ibits, d_bbits, d_inode, maps, root, tabs, cut, created>>
  BY DEF sync_dir_entry_write_index, Goto
<1>3. PICK x : x = root.index /\ x \in Blocks /\ x \in bbits \ {RootBlock}
               /\ d_data[x].i_no = 0 /\ Off(x)
  BY <1>1 DEF Written, Types, At
<1>4. PICK d : d = [index |-> call.block, name |-> None, i_no |-> 0]
  OBVIOUS
<1>5. d \in Data /\ d_data' = [d_data EXCEPT ![x] = d] /\ d.i_no = 0 /\ d.index = call.block
  <2>1. 0 \in Inodes
    BY DEF Inodes
  <2>2. d \in Data
    BY <1>4, <2>1 DEF Data, Types
  <2>3. [Unused EXCEPT !.index = call.block] = d
    BY <1>4 DEF Unused
  <2>4. d.i_no = 0 /\ d.index = call.block
    BY <1>4
  <2> QED
    BY <1>2, <1>3, <2>2, <2>3, <2>4, Zenon
<1>6. d_data' \in [Blocks -> Data] /\ d_data'[x] = d /\ \A b \in Blocks \ {x} : d_data'[b] = d_data[b]
  BY <1>3, <1>5 DEF Types
<1>7. SmallNumbers' <=> SmallNumbers
  BY <1>3, <1>5, <1>6 DEF SmallNumbers
<1>8. Types'
  BY <1>2, <1>6 DEF Types, Created, Opening, tabs, maps
<1>9. Calls' /\ Bitmaps' /\ Handles'
  BY <1>1, <1>2 DEF Calls, Bitmaps, Handles, Types, At, Opening, Created, tabs, maps
<1>10. Tree'
  BY <1>1, <1>2, <1>3, <1>6, <1>7 DEF Tree, Taken, Off, Types, At, Bitmaps, maps
<1>11. Off(x)' /\ Off(call.block)'
  <2>1. SmallNumbers /\ d_inode[0].index # None =>
          d_inode[0].index \in Blocks \ {x}
    BY <1>3 DEF Tree, Off, Types
  <2>2. SmallNumbers' /\ d_inode[0].index # None =>
          d_data'[d_inode[0].index] = d_data[d_inode[0].index]
    BY <1>6, <1>7, <2>1
  <2>3. Off(call.block) /\ call'.block = call.block
    BY <1>1, <1>2 DEF Written, At, Types
  <2> QED
    BY <1>2, <1>3, <1>7, <2>2, <2>3 DEF Off
<1>12. Written'
  <2>1. call'.step = "write_entry" /\ call'.block = call.block /\ UNCHANGED <<bbits, root>>
    BY <1>2 DEF Types, maps
  <2>2. \A b \in Blocks \ bbits : d_data'[b].i_no = 0
    BY <1>3, <1>6 DEF Written
  <2>3. PICK y : y = call.block /\ y \in Blocks /\ y \in bbits \ {RootBlock, x} /\ d_data'[y].i_no = 0
    BY <1>1, <1>3, <1>6 DEF Written, Types, At
  <2>4. d_data'[x].i_no = 0 /\ d_data'[x].index = call.block
    BY <1>5, <1>6
  <2>5. Off(root.index)' /\ Off(call.block)'
    BY <1>3, <1>11, <2>1 DEF Off
  <2> QED
    BY <1>3, <2>1, <2>2, <2>3, <2>4, <2>5 DEF Written
<1> QED
  BY <1>8, <1>9, <1>10, <1>12

(* The entry. *)
LEMMA WriteSound == IInv /\ sync_dir_entry_write => IInv'
<1> SUFFICES ASSUME IInv, sync_dir_entry_write PROVE IInv'
  OBVIOUS
<1> USE FilesAssumption DEF IInv
<1>1. At("write_entry") /\ call.slot # None /\ call.name # None
  BY DEF sync_dir_entry_write, Calls, At, Opening, Created
<1>2. /\ d_data' = [d_data EXCEPT ![call.block] = [Unused EXCEPT !.name = call.name, !.i_no = call.i_no]]
      /\ call' = [call EXCEPT !.step = "sync_parent"]
      /\ UNCHANGED <<d_ibits, d_bbits, d_inode, maps, root, tabs, cut, created>>
  BY DEF sync_dir_entry_write, Goto
<1>3. PICK x : x = call.block /\ x \in Blocks /\ x \in bbits \ {RootBlock, root.index}
               /\ d_data[x].i_no = 0 /\ Off(x)
  BY <1>1 DEF Written, Types, At
<1>4. PICK d : d = [index |-> None, name |-> call.name, i_no |-> call.i_no]
  OBVIOUS
<1>5. d \in Data /\ d_data' = [d_data EXCEPT ![x] = d] /\ d.i_no = call.i_no /\ d.name = call.name
  <2>1. 0 \in Inodes
    BY DEF Inodes
  <2>2. d \in Data
    BY <1>4, <2>1 DEF Data, Types
  <2>3. [Unused EXCEPT !.name = call.name, !.i_no = call.i_no] = d
    <3>1. PICK u : u = [Unused EXCEPT !.name = call.name]
      OBVIOUS
    <3>2. u = [index |-> None, name |-> call.name, i_no |-> 0]
      BY <3>1 DEF Unused
    <3>3. [u EXCEPT !.i_no = call.i_no] = d
      BY <1>4, <3>2
    <3> QED
      BY <3>1, <3>3, Zenon
  <2>4. d.i_no = call.i_no /\ d.name = call.name
    BY <1>4
  <2> QED
    BY <1>2, <1>3, <2>2, <2>3, <2>4, Zenon
<1>6. d_data' \in [Blocks -> Data] /\ d_data'[x] = d /\ \A b \in Blocks \ {x} : d_data'[b] = d_data[b]
  BY <1>3, <1>5 DEF Types
<1>7. SmallNumbers' => SmallNumbers
  BY <1>3, <1>5, <1>6 DEF SmallNumbers
<1>8. Types'
  BY <1>2, <1>6 DEF Types, Created, Opening, tabs, maps
<1>9. Calls' /\ Bitmaps' /\ Handles'
  BY <1>1, <1>2 DEF Calls, Bitmaps, Handles, Types, At, Opening, Created, tabs, maps
<1>10. Tree'
  BY <1>1, <1>2, <1>3, <1>6, <1>7 DEF Tree, Taken, Off, Types, At, Bitmaps, maps
<1>11. Written'
  BY <1>1, <1>2, <1>3, <1>5, <1>6, <1>7 DEF Written, Off, Types, At, Bitmaps, maps
<1> QED
  BY <1>8, <1>9, <1>10, <1>11

-----------------------------------------------------------------------------

LEMMA InitInode == inode_init \in Sectors /\ inode_init = [first |-> None, index |-> None]
BY DEF inode_init, Sectors

(* The inode of the call is a new one. *)
LEMMA CallInode == ASSUME IInv, call.slot # None PROVE call.i_no \in (Inodes \cap ibits) \ {0}
<1>1. PICK s \in Slots : s = call.slot
  BY DEF IInv, Types
<1>2. file_table[s] = call.i_no /\ call.i_no \in Inodes /\ call.i_no # None
  BY <1>1, FilesAssumption DEF IInv, Handles, Types, Inodes
<1> QED
  BY <1>1, <1>2 DEF IInv, Handles

(* The directory on disk is now the one in memory. *)
LEMMA ParentSound == IInv /\ inode_sync_parent => IInv'
<1> SUFFICES ASSUME IInv, inode_sync_parent PROVE IInv'
  OBVIOUS
<1> USE FilesAssumption DEF IInv
<1>1. At("sync_parent") /\ call.slot # None
  BY DEF inode_sync_parent, Calls, At, Opening, Created
<1>2. 0 % InodeByte = 0 /\ 0 \in Inodes
  BY DEF Inodes
<1>3. /\ d_inode' = [d_inode EXCEPT ![0] = root]
      /\ call' = [call EXCEPT !.step = "sync_inode"] /\ ~cut'
      /\ UNCHANGED <<d_ibits, d_bbits, d_data, maps, root, tabs, created>>
  BY <1>2 DEF inode_sync_parent, inode_sync, Goto
<1>4. d_inode' \in [Inodes -> Sectors] /\ d_inode'[0] = root
  BY <1>2, <1>3 DEF Types
<1>5. Types'
  BY <1>3, <1>4 DEF Types, Opening, Created, tabs, maps
<1>6. Calls' /\ Bitmaps' /\ Handles'
  BY <1>1, <1>3 DEF Calls, Bitmaps, Handles, Types, At, Opening, Created, tabs, maps
<1>7. Written'
  BY <1>1, <1>3 DEF Written, Types, At, maps
<1>8. call.i_no # 0
  BY <1>1, CallInode
<1>9. Tree'
  <2>1. PICK x : x = root.index /\ x \in bbits \ {RootBlock} /\ d_data[x].index = call.block
    BY <1>1 DEF Written, At
  <2>2. PICK y : y = call.block /\ y \in bbits \ {RootBlock, x} /\ y # None
                 /\ d_data[y].i_no = call.i_no /\ d_data[y].name # None
    BY <1>1, <2>1 DEF Written, At, Types, Blocks
  <2>3. d_data' = d_data /\ root' = root /\ (SmallNumbers' <=> SmallNumbers) /\ d_bbits' = bbits
    BY <1>3 DEF SmallNumbers, Bitmaps
  <2>4. SmallNumbers => root.first = RootBlock
    BY DEF Tree
  <2>5. d_inode'[0].index = x /\ d_data'[x].index = y /\ d_inode'[0].first = root.first
    BY <1>4, <2>1, <2>2, <2>3
  <2>6. y # x /\ {RootBlock} \cap {y, x} = {} /\ {y, x} \subseteq d_bbits'
        /\ d_data'[y].name # None /\ d_data'[y].i_no # 0 /\ d_data'[y].i_no = call'.i_no
    BY <1>3, <1>8, <2>1, <2>2, <2>3 DEF Types
  <2>7. ASSUME SmallNumbers'
        PROVE  d_inode'[0].first = RootBlock /\ root'.first = RootBlock
    BY <2>3, <2>4, <2>5, <2>7
  <2>8. call'.step \in {"sync_inode", "sync_bitmap"}
    BY <1>3 DEF Types
  <2> QED
    BY <2>2, <2>5, <2>6, <2>7, <2>8 DEF Tree, Taken
<1> QED
  BY <1>5, <1>6, <1>7, <1>9

(* A number that does not fit into 8 bits is that of an entry by now. *)
LEMMA InodeSound == IInv /\ inode_sync_self => IInv'
<1> SUFFICES ASSUME IInv, inode_sync_self PROVE IInv'
  OBVIOUS
<1> USE FilesAssumption DEF IInv
<1>1. At("sync_inode") /\ call.slot # None
  BY DEF inode_sync_self, Calls, At, Opening, Created
<1>2. PICK i : i = call.i_no % InodeByte
  OBVIOUS
<1>3. /\ d_inode' = [d_inode EXCEPT ![i] = inode_init]
      /\ call' = [call EXCEPT !.step = "sync_bitmap"]
      /\ UNCHANGED <<d_ibits, d_bbits, d_data, maps, root, tabs, cut, created>>
  BY <1>2 DEF inode_sync_self, inode_sync, Goto
<1>4. d_inode' \in [Inodes -> Sectors] /\ (i # 0 => d_inode'[0] = d_inode[0])
  <2>1. 0 \in Inodes
    BY DEF Inodes
  <2> QED
    BY <1>3, <2>1, InitInode DEF Types
<1>5. SmallNumbers => i # 0
  <2>1. call.i_no \in Nat \ {0}
    BY <1>1, CallInode DEF Inodes
  <2>2. SmallNumbers => call.i_no < InodeByte
    BY <1>1 DEF SmallNumbers, Written, Types, At
  <2>3. call.i_no < InodeByte => i = call.i_no
    BY <1>2, <2>1
  <2> QED
    BY <2>1, <2>2, <2>3
<1>6. Types'
  BY <1>3, <1>4 DEF Types, Opening, Created, tabs, maps
<1>7. Calls' /\ Bitmaps' /\ Handles'
  BY <1>1, <1>3 DEF Calls, Bitmaps, Handles, Types, At, Opening, Created, tabs, maps
<1>8. Written'
  BY <1>1, <1>3 DEF Written, Types, At, maps
<1>9. Tree'
  <2>1. d_data' = d_data /\ root' = root /\ d_bbits' = d_bbits /\ (SmallNumbers' <=> SmallNumbers)
    BY <1>3 DEF SmallNumbers
  <2>2. \A j : Taken(j) => Taken(j)'
    BY <1>1, <1>3 DEF Taken, Types
  <2> QED
    BY <1>4, <1>5, <2>1, <2>2 DEF Tree
<1> QED
  BY <1>6, <1>7, <1>8, <1>9

(* The call ends. *)
LEMMA EndSound == IInv /\ file_create_end => IInv'
<1> SUFFICES ASSUME IInv, file_create_end PROVE IInv'
  OBVIOUS
<1> USE FilesAssumption DEF IInv
<1>1. At("sync_bitmap") /\ call.slot \in Slots /\ call.slot # None
  BY DEF file_create_end, Calls, Types, At, Opening, Created
<1>2. PICK s \in Slots : s = call.slot /\ s # None
  BY <1>1
<1>3. PICK i : i = call.i_no /\ i \in ibits \ {0} /\ i \in Inodes /\ file_table[s] = i /\ i # None
  BY <1>2 DEF Handles, Types, Inodes
<1>4. /\ d_ibits' = ibits
      /\ opens' = Closed([opens EXCEPT ![i] = 1])
      /\ pcb_fd_install(s)
      /\ UNCHANGED <<d_bbits, d_inode, d_data, maps, root, file_table, cut>>
  BY <1>2, <1>3 DEF file_create_end
<1>5. call' = [step |-> "idle", name |-> None, dir |-> FALSE, i_no |-> 0, slot |-> None, block |-> 0]
      /\ call' = Idle
  BY DEF file_create_end, Idle
<1>6. /\ opens' \in [Inodes -> Nat] /\ opens'[0] >= 1 /\ opens'[i] = 1
      /\ \A j \in Inodes \ {0, i} : opens'[j] = opens[j]
  <2>1. PICK o : o = [opens EXCEPT ![i] = 1]
    OBVIOUS
  <2>2. o \in [Inodes -> Nat] /\ o[0] = opens[0] /\ o[i] = 1 /\ \A j \in Inodes \ {i} : o[j] = opens[j]
    BY <1>3, <2>1 DEF Types, Inodes
  <2> QED
    BY <1>3, <1>4, <2>1, <2>2, ClosedSound
<1>7. /\ fd_table' \in [Fds -> Slots \cup {None}]
      /\ \A f \in Fds : fd_table'[f] # fd_table[f] => fd_table[f] = None /\ fd_table'[f] = s
      /\ \A f, g \in Fds : fd_table'[f] = s /\ fd_table'[g] = s => f = g
  <2>1. PICK f : f = FirstFree(fd_table)
    OBVIOUS
  <2>2. fd_table' = IF f = None THEN fd_table ELSE [fd_table EXCEPT ![f] = s]
    BY <1>4, <2>1 DEF pcb_fd_install
  <2>3. f # None => f \in Fds /\ fd_table[f] = None
    BY <2>1, FirstFreeIsFree DEF Types
  <2>4. \A g \in Fds : fd_table[g] # s
    BY <1>2 DEF Handles
  <2> QED
    BY <1>2, <2>2, <2>3, <2>4 DEF Types
<1>8. Types'
  <2>1. 0 \in Inodes /\ 0 \in Blocks
    BY DEF Inodes, Blocks
  <2>2. call' \in [step : {"idle"}, name : {None}, dir : BOOLEAN, i_no : Inodes, slot : {None}, block : Blocks]
    BY <1>5, <2>1
  <2> QED
    BY <1>4, <1>6, <1>7, <2>2 DEF Types, maps
<1>9. Calls' /\ Bitmaps'
  BY <1>4, <1>5 DEF Calls, Bitmaps, At, Opening, Created, maps
<1>10. Handles'
  <2>1. \A t \in Slots : file_table[t] # None =>
          file_table[t] \in ibits \ {0} /\ opens'[file_table[t]] = 1
    <3> SUFFICES ASSUME NEW t \in Slots, file_table[t] # None
                 PROVE  file_table[t] \in ibits \ {0} /\ opens'[file_table[t]] = 1
      OBVIOUS
    <3>1. CASE t = s
      BY <1>3, <1>6, <3>1
    <3>2. CASE t # s
      <4>1. file_table[t] # i /\ file_table[t] \in (ibits \ {0}) \cap Inodes /\ opens[file_table[t]] = 1
        BY <1>2, <1>3, <3>2 DEF Handles, Types
      <4> QED
        BY <1>6, <4>1
    <3> QED
      BY <3>1, <3>2
  <2>2. \A f, g \in Fds : fd_table'[f] # None =>
          file_table[fd_table'[f]] # None /\ (fd_table'[f] = fd_table'[g] => f = g)
    BY <1>2, <1>3, <1>7 DEF Handles
  <2>3. \A j \in Inodes \ ibits : opens'[j] = 0
    BY <1>3, <1>6 DEF Handles, Bitmaps
  <2>4. \A s1, t1 \in Slots : file_table[s1] # None /\ file_table[s1] = file_table[t1] => s1 = t1
    BY DEF Handles
  <2>5. call'.slot = None /\ ~call'.dir /\ file_table' = file_table /\ ibits' = ibits
        /\ \A t \in Slots : t # None
    BY <1>4, <1>5 DEF maps
  <2>6. opens'[0] >= 1
    BY <1>6
  <2> QED
    BY <2>1, <2>2, <2>3, <2>4, <2>5, <2>6 DEF Handles
<1>11. Written'
  BY <1>4, <1>5 DEF Written, maps
<1>12. Tree'
  <2>1. d_data' = d_data /\ d_inode' = d_inode /\ root' = root /\ d_bbits' = d_bbits
        /\ (SmallNumbers' <=> SmallNumbers)
    BY <1>4 DEF SmallNumbers
  <2>2. \A j : Taken(j) => Taken(j)'
    BY <1>3, <1>4 DEF Taken, Bitmaps
  <2> QED
    BY <2>1, <2>2 DEF Tree
<1> QED
  BY <1>8, <1>9, <1>10, <1>11, <1>12

(* The power fails, and what is on disk is mounted. *)
LEMMA MountSound == IInv /\ mount_partition => IInv'
<1> SUFFICES ASSUME IInv, mount_partition PROVE IInv'
  OBVIOUS
<1> USE FilesAssumption DEF IInv
<1>1. call' = [step |-> "idle", name |-> None, dir |-> FALSE, i_no |-> 0, slot |-> None, block |-> 0]
      /\ call' = Idle
  BY DEF mount_partition, Idle
<1>2. /\ ibits' = d_ibits /\ bbits' = d_bbits /\ root' = d_inode[0]
      /\ UNCHANGED <<d_ibits, d_bbits, d_inode, d_data>>
  BY DEF mount_partition, disk
<1>3. 0 \in Inodes /\ 0 \in Blocks
  BY DEF Inodes, Blocks
<1>4. /\ opens' \in [Inodes -> Nat] /\ opens'[0] = 1 /\ \A i \in Inodes \ {0} : opens'[i] = 0
  BY <1>3 DEF mount_partition
<1>5. /\ file_table' \in [Slots -> {None}] /\ fd_table' \in [Fds -> {None}]
      /\ \A s \in Slots : file_table'[s] = None
      /\ \A f \in Fds : fd_table'[f] = None
  BY DEF mount_partition
<1>6. Types'
  <2>1. call' \in [step : {"idle"}, name : {None}, dir : BOOLEAN, i_no : Inodes, slot : {None}, block : Blocks]
    BY <1>1, <1>3
  <2>2. file_table' \in [Slots -> Inodes \cup {None}] /\ fd_table' \in [Fds -> Slots \cup {None}]
    BY DEF mount_partition
  <2>3. root' \in Sectors
    BY <1>2, <1>3 DEF Types
  <2> QED
    BY <1>2, <1>4, <2>1, <2>2, <2>3 DEF Types
<1>7. Calls' /\ Bitmaps'
  BY <1>1, <1>2 DEF Calls, Bitmaps, At, Opening, Created
<1>8. Handles'
  BY <1>1, <1>2, <1>4, <1>5 DEF Handles, Bitmaps
<1>9. Written'
  BY <1>1, <1>2 DEF Written, Bitmaps
<1>10. Tree'
  <2>1. SmallNumbers' <=> SmallNumbers
    BY <1>2 DEF SmallNumbers
  <2>2. \A j : Taken(j) => Taken(j)'
    BY <1>2 DEF Taken, mount_partition, At
  <2> QED
    BY <1>2, <2>1, <2>2 DEF Tree
<1> QED
  BY <1>6, <1>7, <1>8, <1>9, <1>10

-----------------------------------------------------------------------------

LEMMA NextSound == IInv /\ [Next]_vars => IInv'
<1> SUFFICES ASSUME IInv, [Next]_vars PROVE IInv'
  OBVIOUS
<1>1. CASE sys_open_refused \/ UNCHANGED vars
  BY <1>1, StutterSound DEF sys_open_refused
<1> QED
  BY <1>1, FoundSound, CreateSound, FileCreateSound, IndexSound, BlockSound, WriteIndexSound,
     WriteSound, ParentSound, InodeSound, EndSound, MountSound DEF Next

LEMMA IInvHolds == Spec => []IInv
BY InitSound, NextSound, PTL DEF Spec

(* file_create, sync_dir_entry, bitmap_sync: whatever is written before the *)
(* power fails, the directory on disk has an index block and an entry      *)
(* that have been written, and both blocks are taken in the bitmap.        *)
THEOREM DirectoryIsWhole == Spec => []TreeOnDisk
<1>1. IInv => TreeOnDisk
  BY DEF IInv, Tree, TreeOnDisk, Bitmaps
<1> QED
  BY <1>1, IInvHolds, PTL

(* inode_bitmap_alloc, block_bitmap_alloc, bitmap_sync, rollback: between  *)
(* two calls the bitmaps in memory are those on disk, and the inode of the *)
(* directory's entry is taken in them unless the power failed before the   *)
(* inode bitmap was written.                                               *)
THEOREM BitmapsAreSynced == Spec => []BitmapsAgree
<1>1. IInv => BitmapsAgree
  <2> SUFFICES ASSUME IInv, At("idle") PROVE BitmapsAgree
    BY DEF BitmapsAgree
  <2>1. call.step = "idle" /\ call.slot = None
    BY DEF IInv, Calls, At, Idle
  <2> QED
    BY <2>1 DEF IInv, Bitmaps, Tree, Taken, BitmapsAgree
<1> QED
  BY <1>1, IInvHolds, PTL

(* get_free_slot_in_global, pcb_fd_install, inode_open, inode_close: no    *)
(* two open files are one inode, no two descriptors one open file, and the *)
(* root's inode is never closed.                                           *)
THEOREM FilesOpenOnce == Spec => []HandlesExclusive
<1>1. IInv => HandlesExclusive
  <2> SUFFICES ASSUME IInv PROVE HandlesExclusive
    OBVIOUS
  <2>1. \A s \in Slots : At("idle") => call.slot # s
    BY FilesAssumption DEF IInv, Calls, Idle
  <2> QED
    BY <2>1 DEF IInv, Handles, HandlesExclusive
<1> QED
  BY <1>1, IInvHolds, PTL
=============================================================================
