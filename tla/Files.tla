------------------------------- MODULE Files --------------------------------
(***************************************************************************)
(* Creating files: sys_open of fs/fs.c with file_create (fs/file.c),       *)
(* sync_dir_entry (fs/dir.c) and the inode functions (fs/inode.c), on the  *)
(* partition main mounts and that partition_format has made.  main is the  *)
(* one caller.  A call is cut at its writes to the disk; the power can     *)
(* fail between any two of them, and mount_partition then starts from what *)
(* the disk holds.                                                         *)
(*                                                                         *)
(* Every directory is the root, as nothing makes another.  A block is      *)
(* named by its number in the bitmap; None is the null pointer.  Of a      *)
(* sector we keep what can be in it: pointer 0 of an index block, or one   *)
(* directory entry.                                                        *)
(***************************************************************************)
EXTENDS Bitmap

CONSTANTS
  Names,
  None,
  InodeCnt, BlockCnt,  \* bits of inode_bitmap and of block_bitmap
  InodeByte,           \* 256: what a uint8_t inode number wraps at
  Slots,               \* file_table without the three reserved
  Fds,                 \* fd_table of a PCB without the three reserved
  MaxOpens             \* bound: i_open_cnts of the root's inode

Inodes == 0 .. InodeCnt - 1
Blocks == 0 .. BlockCnt - 1
RootBlock == 0

ASSUME FilesAssumption ==
  /\ ByteBits \in Nat \ {0} /\ InodeByte \in Nat \ {0}
  /\ InodeCnt \in Nat \ {0} /\ InodeCnt % ByteBits = 0
  /\ BlockCnt \in Nat \ {0} /\ BlockCnt % ByteBits = 0
  /\ Slots \subseteq Nat /\ Fds \subseteq Nat /\ None \notin Names \cup Nat
  /\ MaxOpens \in Nat \ {0}

VARIABLES
  d_ibits, d_bbits, d_inode, d_data,  \* disk: bitmaps, inode table, data blocks
  ibits, bbits,                       \* the bitmaps of cur_part
  root,                               \* i_sectors of the root's inode
  opens,                              \* i_open_cnts, 0: not on open_inodes
  file_table,                         \* the inode of an open file
  fd_table,
  call,                               \* the call main is in, its local variables
  cut,                                \* history: the entry on disk is of a call the power cut short
  created                             \* history: how often a name was created since such a call

disk == <<d_ibits, d_bbits, d_inode, d_data>>
maps == <<ibits, bbits>>
tabs == <<opens, file_table, fd_table>>
vars == <<disk, maps, root, tabs, call, cut, created>>

-----------------------------------------------------------------------------

inode_init == [first |-> None, index |-> None]
Unused     == [index |-> None, name |-> None, i_no |-> 0]
Idle       == [step |-> "idle", name |-> None, dir |-> FALSE, i_no |-> 0, slot |-> None, block |-> 0]

(* partition_format and the first mount. *)
Init ==
  /\ d_ibits = {0} /\ d_bbits = {RootBlock}
  /\ d_inode = [i \in Inodes |-> IF i = 0 THEN [first |-> RootBlock, index |-> None] ELSE inode_init]
  /\ d_data = [b \in Blocks |-> Unused]
  /\ ibits = {0} /\ bbits = {RootBlock}
  /\ root = [first |-> RootBlock, index |-> None]
  /\ opens = [i \in Inodes |-> IF i = 0 THEN 1 ELSE 0]
  /\ file_table = [s \in Slots |-> None]
  /\ fd_table = [f \in Fds |-> None]
  /\ call = Idle
  /\ cut = FALSE
  /\ created = [n \in Names |-> 0]

At(s) == call.step = s
Goto(s) == call' = [call EXCEPT !.step = s]

(* The first free number. *)
FirstFree(table) ==
  LET free == {k \in DOMAIN table : table[k] = None}
  IN  IF free = {} THEN None ELSE Min(free)

get_free_slot_in_global == FirstFree(file_table)

pcb_fd_install(slot) ==
  LET f == FirstFree(fd_table)
  IN  fd_table' = IF f = None THEN fd_table ELSE [fd_table EXCEPT ![f] = slot]

inode_bitmap_alloc == bitmap_scan(ibits, InodeCnt, 1)
block_bitmap_alloc == bitmap_scan(bbits, BlockCnt, 1)

search_dir_entry(n) ==
  root.index # None /\ LET b == d_data[root.index].index IN b # None /\ d_data[b].name = n

(* dir_open of the root by way of "." or "..", while root_dir is open too: *)
(* inode_open finds the inode on the list.                                 *)
inode_open_NotCounted(o) == o  \* mutant: a second opening is not counted
inode_open(o) == [o EXCEPT ![0] = @ + 1]
inode_close(o) == [o EXCEPT ![0] = @ - 1]

Found(n, dir) == (dir => root.first # None) /\ search_dir_entry(n)

(* The path names n in the root; dir says that it has "." or ".." before   *)
(* the name, deeper that it goes on after it, flag that O_CREAT is set.    *)
(* Whatever is refused is closed again.                                    *)
sys_open_refused ==
  /\ At("idle")
  /\ \E n \in Names, dir, deeper, flag \in BOOLEAN :
       \/ dir /\ root.first = None
       \/ deeper
       \/ ~deeper /\ Found(n, dir) /\ flag
       \/ ~deeper /\ ~Found(n, dir) /\ ~flag
  /\ UNCHANGED vars

(* A file that is there is not opened yet: sys_open returns -1 and does    *)
(* not close the directory.                                                *)
sys_open_found ==
  /\ At("idle")
  /\ \E n \in Names, dir \in BOOLEAN :
       /\ Found(n, dir)
       /\ dir => opens[0] < MaxOpens
       /\ opens' = IF dir THEN inode_open(opens) ELSE opens
  /\ UNCHANGED <<disk, maps, root, file_table, fd_table, call, cut, created>>

sys_open_create ==
  /\ At("idle")
  /\ \E n \in Names, dir \in BOOLEAN :
       /\ ~Found(n, dir) /\ (dir => root.first # None)
       /\ opens' = IF dir THEN inode_open(opens) ELSE opens
       /\ call' = [Idle EXCEPT !.step = "create", !.name = n, !.dir = dir]
  /\ UNCHANGED <<disk, maps, root, file_table, fd_table, cut, created>>

-----------------------------------------------------------------------------

(* dir_close at the end of sys_open. *)
Closed(o) == IF call.dir THEN inode_close(o) ELSE o

Panic == Goto("panic") /\ UNCHANGED <<disk, maps, root, tabs, cut, created>>

(* file_create up to its first write; without a slot it is rolled back.    *)
file_create_NoRollback ==  \* mutant: the inode stays allocated
  /\ At("create")
  /\ LET i == inode_bitmap_alloc
         s == get_free_slot_in_global
     IN  IF i = NoBits THEN Panic
         ELSE IF s = None
         THEN /\ call' = Idle
              /\ ibits' = ibits \cup {i}
              /\ opens' = Closed(opens)
              /\ UNCHANGED <<disk, bbits, root, file_table, fd_table, cut, created>>
         ELSE /\ ibits' = ibits \cup {i}
              /\ file_table' = [file_table EXCEPT ![s] = i]
              /\ call' = [call EXCEPT !.step = "index", !.i_no = i, !.slot = s]
              /\ UNCHANGED <<disk, bbits, root, opens, fd_table, cut, created>>
file_create ==
  /\ At("create")
  /\ LET i == inode_bitmap_alloc
         s == get_free_slot_in_global
     IN  \/ i = NoBits /\ Panic
         \/ /\ i # NoBits /\ s = None
            /\ call' = Idle
            /\ opens' = Closed(opens)
            /\ UNCHANGED <<disk, maps, root, file_table, fd_table, cut, created>>
         \/ /\ i # NoBits /\ s # None
            /\ ibits' = ibits \cup {i}
            /\ file_table' = [file_table EXCEPT ![s] = i]
            /\ call' = [call EXCEPT !.step = "index", !.i_no = i, !.slot = s]
            /\ UNCHANGED <<disk, bbits, root, opens, fd_table, cut, created>>

(* The block is set in the bitmap and the bitmap written: bitmap_sync.     *)
Take(b) == bbits' = bbits \cup {b} /\ d_bbits' = bbits'

(* sync_dir_entry.  Its search begins where the loop over the direct       *)
(* blocks ended, at block 12, of which all_block holds no address: in the  *)
(* first turn it takes a block for the index, whatever the directory has,  *)
(* and a second for the entry.                                             *)
sync_dir_entry_index ==
  /\ At("index")
  /\ LET b == block_bitmap_alloc IN
       \/ b = NoBits /\ Panic
       \/ /\ b # NoBits
          /\ Take(b)
          /\ root' = [root EXCEPT !.index = b]
          /\ Goto("block")
          /\ UNCHANGED <<d_ibits, d_inode, d_data, ibits, tabs, cut, created>>

sync_dir_entry_block_NotSynced ==  \* mutant: the bitmap is not written
  /\ At("block")
  /\ LET b == block_bitmap_alloc IN
       \/ b = NoBits /\ Panic
       \/ /\ b # NoBits
          /\ bbits' = bbits \cup {b}
          /\ call' = [call EXCEPT !.step = "write_index", !.block = b]
          /\ UNCHANGED <<disk, ibits, root, tabs, cut, created>>
sync_dir_entry_block ==
  /\ At("block")
  /\ LET b == block_bitmap_alloc IN
       \/ b = NoBits /\ Panic
       \/ /\ b # NoBits
          /\ Take(b)
          /\ call' = [call EXCEPT !.step = "write_index", !.block = b]
          /\ UNCHANGED <<d_ibits, d_inode, d_data, ibits, root, tabs, cut, created>>

sync_dir_entry_write_index ==
  /\ At("write_index")
  /\ d_data' = [d_data EXCEPT ![root.index] = [Unused EXCEPT !.index = call.block]]
  /\ Goto("write_entry")
  /\ UNCHANGED <<d_ibits, d_bbits, d_inode, maps, root, tabs, cut, created>>

sync_dir_entry_write ==
  /\ At("write_entry")
  /\ d_data' = [d_data EXCEPT ![call.block] = [Unused EXCEPT !.name = call.name, !.i_no = call.i_no]]
  /\ Goto("sync_parent")
  /\ UNCHANGED <<d_ibits, d_bbits, d_inode, maps, root, tabs, cut, created>>

-----------------------------------------------------------------------------

inode_sync(i, sectors) == d_inode' = [d_inode EXCEPT ![i % InodeByte] = sectors]

(* The directory that is now on disk has the entry of this call only.      *)
inode_sync_parent ==
  /\ At("sync_parent")
  /\ inode_sync(0, root)
  /\ cut' = FALSE
  /\ Goto("sync_inode")
  /\ UNCHANGED <<d_ibits, d_bbits, d_data, maps, root, tabs, created>>

inode_sync_self ==
  /\ At("sync_inode")
  /\ inode_sync(call.i_no, inode_init)
  /\ Goto("sync_bitmap")
  /\ UNCHANGED <<d_ibits, d_bbits, d_data, maps, root, tabs, cut, created>>

(* bitmap_sync, list_push and pcb_fd_install.  Without a free descriptor   *)
(* sys_open returns -1 for a file that has been created.                   *)
file_create_end ==
  /\ At("sync_bitmap")
  /\ d_ibits' = ibits
  /\ opens' = Closed([opens EXCEPT ![call.i_no] = 1])
  /\ pcb_fd_install(call.slot)
  /\ created' = [created EXCEPT ![call.name] = @ + 1]
  /\ call' = Idle
  /\ UNCHANGED <<d_bbits, d_inode, d_data, maps, root, file_table, cut>>

(* The power fails; mount_partition, open_root_dir and the initialisation  *)
(* of file_table follow.                                                   *)
mount_partition ==
  /\ ibits' = d_ibits /\ bbits' = d_bbits
  /\ root' = d_inode[0]
  /\ opens' = [i \in Inodes |-> IF i = 0 THEN 1 ELSE 0]
  /\ file_table' = [s \in Slots |-> None]
  /\ fd_table' = [f \in Fds |-> None]
  /\ call' = Idle
  /\ cut' = (cut \/ At("sync_inode") \/ At("sync_bitmap"))
  /\ created' = IF At("idle") THEN created ELSE [n \in Names |-> 0]
  /\ UNCHANGED disk

Next ==
  \/ sys_open_refused \/ sys_open_found \/ sys_open_create
  \/ file_create
  \/ sync_dir_entry_index \/ sync_dir_entry_block
  \/ sync_dir_entry_write_index \/ sync_dir_entry_write
  \/ inode_sync_parent \/ inode_sync_self \/ file_create_end
  \/ mount_partition

Spec == Init /\ [][Next]_vars

-----------------------------------------------------------------------------

(* The disk has no entry yet whose inode number inode_sync would cut off.  *)
SmallNumbers == \A b \in Blocks : d_data[b].i_no < InodeByte

(* file_create, sync_dir_entry, bitmap_sync: the writes come in an order   *)
(* such that the directory on disk is whole whenever the power fails: its  *)
(* index block and the block it points to have been written, are two, and  *)
(* are taken in the bitmap on disk.  This holds until inode_sync writes an *)
(* inode whose number has more than 8 bits over the root's.                *)
TreeOnDisk ==
  SmallNumbers =>
    LET r == d_inode[0]
        b == d_data[r.index].index
    IN  /\ r.first = RootBlock /\ RootBlock \in d_bbits
        /\ r.index # None =>
             /\ b # None /\ b # r.index /\ {RootBlock} \cap {b, r.index} = {}
             /\ {b, r.index} \subseteq d_bbits
             /\ d_data[b].name # None /\ d_data[b].i_no # 0

(* inode_bitmap_alloc, block_bitmap_alloc, bitmap_sync, rollback: between  *)
(* two calls the bitmaps in memory are those on disk, and the inode of the *)
(* directory's entry is taken, unless the power was cut in the window      *)
(* between the parent's inode and the bitmap.                              *)
BitmapsAgree ==
  At("idle") =>
    /\ ibits = d_ibits /\ bbits = d_bbits
    /\ LET r == d_inode[0] IN
       SmallNumbers /\ ~cut /\ r.index # None => d_data[d_data[r.index].index].i_no \in d_ibits

(* get_free_slot_in_global, pcb_fd_install, inode_open, inode_close: two   *)
(* open files are two inodes, allocated and, once the call has returned,   *)
(* open; two descriptors are two of them; the root's inode stays open.     *)
HandlesExclusive ==
  /\ \A s, t \in Slots : file_table[s] # None /\ file_table[s] = file_table[t] => s = t
  /\ \A s \in Slots : file_table[s] # None =>
       /\ file_table[s] \in ibits \ {0}
       /\ opens[file_table[s]] = (IF ~At("idle") /\ call.slot = s THEN 0 ELSE 1)
  /\ \A f, g \in Fds : fd_table[f] # None =>
       /\ file_table[fd_table[f]] # None
       /\ fd_table[f] = fd_table[g] => f = g
  /\ opens[0] >= (IF call.dir THEN 2 ELSE 1)

(* fs.c:425 "待创建的文件已经存在": O_CREAT is refused for a file that has   *)
(* been created, as nothing deletes files and no call was cut short.       *)
CreatedOnce == \A n \in Names : created[n] <= 1
=============================================================================
