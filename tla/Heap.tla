-------------------------------- MODULE Heap --------------------------------
(***************************************************************************)
(* The kernel's memory of kernel/memory.c: the pool of page frames, the    *)
(* pool of kernel addresses and the page table that joins them, the arenas *)
(* and free lists that sys_malloc and sys_free keep on top, and            *)
(* kernel_pool.lock.  Threads are preempted between the steps of a call,   *)
(* in particular between the scan of a bitmap and the setting of its bits. *)
(* The lock is the one Mutex describes, which struct lock implements       *)
(* (Locking).  get_kernel_pages takes no lock: main calls it while it is   *)
(* the only thread (init_all), thread_start and process_execute at any     *)
(* time.                                                                   *)
(*                                                                         *)
(* A page's arena header is kept by its address; it goes with the mapping. *)
(* A pointer is <<page, k>>: block k of the arena on that page.  What      *)
(* follows the header of a large arena is at the place of block 0.         *)
(***************************************************************************)
EXTENDS Bitmap, Sequences, SequencesExt

CONSTANTS
  Threads, Main,
  None,
  VLen, PLen,    \* bits of kernel_vaddr.vaddr_bitmap and of kernel_pool.pool_bitmap
  Descs,         \* the mem_block_desc, each with a block size of its own
  PerArena,      \* block_per_arena of a desc
  PageLimit,     \* malloc_page takes requests of less pages: 3840
  PoolPages,     \* kernel_free_pages, of which pool_size is made
  MaxPages,      \* bound: the pages of a request
  MaxKept,       \* bound: the large requests of a thread
  PageCallers    \* who calls get_kernel_pages after init_all

VPages == 0 .. VLen - 1
Frames == 0 .. PLen - 1
Blocks(d) == 0 .. PerArena[d] - 1
Arenas == [desc : Descs \cup {None}, cnt : Nat]  \* struct arena

ASSUME HeapAssumption ==
  /\ Main \in Threads /\ PageCallers \subseteq Threads
  /\ ByteBits \in Nat \ {0} /\ VLen \in Nat /\ PLen \in Nat
  /\ VLen % ByteBits = 0 /\ PLen % ByteBits = 0
  /\ PerArena \in [Descs -> Nat \ {0}] /\ None \notin Descs \cup Threads
  /\ None \notin Nat /\ None \notin Arenas
  /\ PageLimit \in Nat \ {0}
  /\ PoolPages \in Nat \ {0} /\ PoolPages \in PLen .. PLen + ByteBits - 1
  /\ MaxPages \in Nat \ {0} /\ MaxKept \in Nat

VARIABLES
  vbits,     \* the pages taken from kernel_vaddr
  pbits,     \* the frames taken from kernel_pool
  pte,       \* the frame a page is mapped to
  arena,     \* the struct arena at the start of a page
  free,      \* desc->free_list
  live,      \* what sys_malloc returned and sys_free was not given back
  given,     \* the pages get_kernel_pages returned
  owner, depth,  \* kernel_pool.lock
  call,      \* a thread's call: operation, argument, step and local variables
  kept,      \* history: a thread's large requests that were granted
  booting,   \* main is in init_all
  panicked

pool == <<vbits, pbits, pte>>
heap == <<arena, free, live>>
lock == <<owner, depth>>
vars == <<pool, heap, lock, given, call, kept, booting, panicked>>

NoCall   == [op |-> "none", desc |-> None, step |-> "out", n |-> 0, i |-> 0, page |-> 0, idx |-> 0]

(* mem_init, and the locks' initial state. *)
Init ==
  /\ vbits = {} /\ pbits = {} /\ pte = [p \in VPages |-> None]
  /\ arena = [p \in VPages |-> None] /\ free = [d \in Descs |-> <<>>]
  /\ live = {} /\ given = {}
  /\ owner = None /\ depth = 0
  /\ call = [t \in Threads |-> NoCall]
  /\ kept = [t \in Threads |-> 0]
  /\ booting = TRUE /\ panicked = FALSE

(* lock_acquire and lock_release of kernel_pool.lock. *)
Acquire(t) == owner \in {t, None} /\ owner' = t /\ depth' = depth + 1
Release_Outright == depth' = 0 /\ owner' = None  \* mutant: the counter is not looked at
Release == depth' = depth - 1 /\ owner' = IF depth = 1 THEN None ELSE owner

At(t, step)   == ~panicked /\ (booting => t = Main) /\ call[t].step = step
Goto(t, step) == call' = [call EXCEPT ![t].step = step]
Begin(t, op, desc, n, step) ==
  /\ At(t, "out")
  /\ call' = [call EXCEPT ![t] = [NoCall EXCEPT !.op = op, !.desc = desc, !.n = n, !.step = step]]
Return(t) == call' = [call EXCEPT ![t] = NoCall]

(* main: intr_enable, after init_all. *)
intr_enable ==
  /\ booting /\ At(Main, "out") /\ booting' = FALSE
  /\ UNCHANGED <<pool, heap, lock, given, call, kept, panicked>>

get_kernel_pages(t) ==
  /\ booting \/ t \in PageCallers
  /\ \E n \in 1 .. MaxPages : Begin(t, "pages", None, n, "vaddr_get")
  /\ UNCHANGED <<pool, heap, lock, given, kept, booting, panicked>>

(* sys_malloc(size), size > 1024.  A size below pool_size needs at most a  *)
(* page more than the pool has, for the header; any other is answered with *)
(* NULL before the lock is taken, and changes nothing.                     *)
sys_malloc_large(t) ==
  /\ kept[t] < MaxKept
  /\ \E n \in 1 .. MaxPages :
       n <= PoolPages + 1 /\ Begin(t, "large", None, n, "vaddr_get")
  /\ Acquire(t)
  /\ UNCHANGED <<pool, heap, given, kept, booting, panicked>>

(* sys_malloc(size), size <= 1024: a block of the first desc that fits. *)
sys_malloc_small(t) ==
  /\ \E d \in Descs : Begin(t, "small", d, 1, IF free[d] = <<>> THEN "vaddr_get" ELSE "pop")
  /\ Acquire(t)
  /\ UNCHANGED <<pool, heap, given, kept, booting, panicked>>

(* malloc_page: the ASSERT on the number of pages.                         *)
malloc_page_TooMany(t) ==
  /\ At(t, "vaddr_get") /\ call[t].n >= PageLimit
  /\ panicked' = TRUE
  /\ UNCHANGED <<pool, heap, lock, given, call, kept, booting>>

(* Then vaddr_get scans its bitmap and sets the bits; for each page palloc *)
(* scans its own, sets one and page_table_add maps it.                     *)
vaddr_get(t) ==
  LET idx == bitmap_scan(vbits, VLen, call[t].n) IN
  /\ At(t, "vaddr_get") /\ call[t].n < PageLimit
  /\ call' = [call EXCEPT ![t].idx = idx, ![t].step = "vaddr_set"]
  /\ panicked' = (idx = NoBits)
  /\ UNCHANGED <<pool, heap, lock, given, kept, booting>>

vaddr_set(t) ==
  LET c == call[t] IN
  /\ At(t, "vaddr_set")
  /\ vbits' = vbits \cup (c.idx .. c.idx + c.n - 1)
  /\ call' = [call EXCEPT ![t].page = c.idx, ![t].step = "palloc"]
  /\ UNCHANGED <<pbits, pte, heap, lock, given, kept, booting, panicked>>

palloc(t) ==
  LET idx == bitmap_scan(pbits, PLen, 1) IN
  /\ At(t, "palloc")
  /\ call' = [call EXCEPT ![t].idx = idx, ![t].step = "map"]
  /\ panicked' = (idx = NoBits)
  /\ UNCHANGED <<pool, heap, lock, given, kept, booting>>

Span(page, n) == page .. page + n - 1

(* bitmap_set and page_table_add, which asserts the page not to be mapped. *)
map(t) ==
  LET c == call[t]  page == c.page + c.i IN
  /\ At(t, "map")
  /\ pbits' = pbits \cup {c.idx}
  /\ panicked' = (pte[page] # None)
  /\ pte' = [pte EXCEPT ![page] = c.idx]
  /\ IF c.i + 1 < c.n
     THEN call' = [call EXCEPT ![t].i = @ + 1, ![t].step = "palloc"] /\ UNCHANGED given
     ELSE IF c.op = "pages"
     THEN Return(t) /\ given' = given \cup Span(c.page, c.n)
     ELSE call' = [call EXCEPT ![t].i = @ + 1, ![t].step = "header"] /\ UNCHANGED given
  /\ UNCHANGED <<vbits, heap, lock, kept, booting>>

(* A large arena is returned as it is, and the lock is kept.               *)
header_large(t) ==
  LET c == call[t] IN
  /\ At(t, "header") /\ c.op = "large"
  /\ arena' = [arena EXCEPT ![c.page] = [desc |-> None, cnt |-> c.n]]
  /\ live' = live \cup {<<c.page, 0>>}
  /\ kept' = [kept EXCEPT ![t] = @ + 1]
  /\ Return(t)
  /\ UNCHANGED <<pool, free, lock, given, booting, panicked>>

(* A small one is cut into blocks, none of which may be on the list yet,   *)
(* and the first free block is taken.                                      *)
header_small(t) ==
  LET c == call[t] IN
  /\ At(t, "header") /\ c.op = "small"
  /\ arena' = [arena EXCEPT ![c.page] = [desc |-> c.desc, cnt |-> PerArena[c.desc]]]
  /\ free' = [free EXCEPT ![c.desc] = @ \o [k \in 1 .. PerArena[c.desc] |-> <<c.page, k - 1>>]]
  /\ panicked' = (\E k \in Blocks(c.desc) : <<c.page, k>> \in ToSet(free[c.desc]))
  /\ Goto(t, "pop")
  /\ UNCHANGED <<pool, live, lock, given, kept, booting>>

pop(t) ==
  LET d == call[t].desc  b == Head(free[d]) IN
  /\ At(t, "pop")
  /\ free' = [free EXCEPT ![d] = Tail(@)]
  /\ arena' = [arena EXCEPT ![b[1]].cnt = @ - 1]
  /\ live' = live \cup {b}
  /\ Release /\ Return(t)
  /\ UNCHANGED <<pool, given, kept, booting, panicked>>

(* sys_free(ptr): whoever has a pointer may free it. *)
sys_free(t) ==
  /\ At(t, "out")
  /\ \E b \in live :
       /\ live' = live \ {b}
       /\ call' = [call EXCEPT ![t] = [NoCall EXCEPT !.op = "free", !.step = "free",
                                                    !.page = b[1], !.idx = b[2]]]
  /\ Acquire(t)
  /\ UNCHANGED <<pool, arena, free, given, kept, booting, panicked>>

mfree_page_OneFrame(page, n) ==  \* mutant: addr_v2p only before the loop
  LET gone == Span(page, n) IN
  /\ pbits' = pbits \ {pte[page]}
  /\ pte'   = [p \in VPages |-> IF p \in gone THEN None ELSE pte[p]]
  /\ vbits' = vbits \ gone
mfree_page_OneAddress(page, n) ==  \* mutant: vaddr_remove of one page
  LET gone == Span(page, n) IN
  /\ pbits' = pbits \ {pte[p] : p \in gone}
  /\ pte'   = [p \in VPages |-> IF p \in gone THEN None ELSE pte[p]]
  /\ vbits' = vbits \ {page}
mfree_page(page, n) ==
  LET gone == Span(page, n) IN
  /\ pbits' = pbits \ {pte[p] : p \in gone}
  /\ pte'   = [p \in VPages |-> IF p \in gone THEN None ELSE pte[p]]
  /\ vbits' = vbits \ gone

free_large(t) ==
  LET p == call[t].page IN
  /\ At(t, "free") /\ arena[p].desc = None
  /\ mfree_page(p, arena[p].cnt)
  /\ arena' = [arena EXCEPT ![p] = None]
  /\ Release /\ Return(t)
  /\ UNCHANGED <<free, live, given, kept, booting, panicked>>

(* The block goes to the end of the list; with the last of its arena the   *)
(* arena's blocks leave the list and the page goes back.                   *)
free_small_KeepsBlocks(t) ==  \* mutant: the blocks of the arena stay on the list
  LET p == call[t].page  d == arena[p].desc IN
  /\ At(t, "free") /\ d # None
  /\ free' = [free EXCEPT ![d] = Append(@, <<p, call[t].idx>>)]
  /\ IF arena[p].cnt + 1 = PerArena[d]
     THEN mfree_page(p, 1) /\ arena' = [arena EXCEPT ![p] = None]
     ELSE arena' = [arena EXCEPT ![p].cnt = @ + 1] /\ UNCHANGED pool
  /\ Release /\ Return(t)
  /\ UNCHANGED <<live, given, kept, booting, panicked>>
(* The loop takes the blocks of the arena off the list. *)
Without(list, p) ==
  LET rest[i \in 0 .. Len(list)] ==
        IF i = 0 THEN <<>>
        ELSE IF list[i][1] = p THEN rest[i - 1] ELSE Append(rest[i - 1], list[i])
  IN  rest[Len(list)]

free_small(t) ==
  LET p == call[t].page
      d == arena[p].desc
      list == Append(free[d], <<p, call[t].idx>>)
  IN  /\ At(t, "free") /\ d # None
      /\ IF arena[p].cnt + 1 # PerArena[d]
         THEN /\ free' = [free EXCEPT ![d] = list]
              /\ arena' = [arena EXCEPT ![p].cnt = @ + 1]
              /\ UNCHANGED <<pool, panicked>>
         ELSE /\ free' = [free EXCEPT ![d] = Without(list, p)]
              /\ panicked' = ~(\A k \in Blocks(d) : <<p, k>> \in ToSet(list))
              /\ mfree_page(p, 1)
              /\ arena' = [arena EXCEPT ![p] = None]
      /\ Release /\ Return(t)
      /\ UNCHANGED <<live, given, kept, booting>>

Work(t) ==
  \/ malloc_page_TooMany(t) \/ vaddr_get(t) \/ vaddr_set(t) \/ palloc(t) \/ map(t)
  \/ header_large(t) \/ header_small(t) \/ pop(t) \/ free_large(t) \/ free_small(t)

Next ==
  \/ intr_enable
  \/ \E t \in Threads :
       \/ get_kernel_pages(t) \/ sys_malloc_large(t) \/ sys_malloc_small(t) \/ sys_free(t)
       \/ Work(t)

Spec == Init /\ [][Next]_vars

-----------------------------------------------------------------------------

Mapped == {p \in VPages : pte[p] # None}
InUse(t) == call[t].op \in {"small", "large", "free"}

(* palloc is atomic: no two pages of the kernel are the same frame, and a  *)
(* frame is taken when a page is mapped to it.                             *)
FramesExclusive ==
  /\ \A p, q \in Mapped : pte[p] = pte[q] => p = q
  /\ pbits = {pte[p] : p \in Mapped}

(* Arenas and what get_kernel_pages gave out lie on mapped pages of their  *)
(* own, and no page is taken that nobody has.                              *)
Extent(p) == IF arena[p].desc = None THEN Span(p, arena[p].cnt) ELSE {p}
Asked == UNION {Span(call[t].page, call[t].n) : t \in
                {u \in Threads : call[u].step \in {"palloc", "map", "header"}}}
Owned == {<<-1, p>> : p \in given} \cup
         UNION {{<<p, q>> : q \in Extent(p)} : p \in {r \in VPages : arena[r] # None}}
NoPageLost ==
  ~panicked =>
  /\ \A x, y \in Owned : x[2] = y[2] => x = y
  /\ {x[2] : x \in Owned} \subseteq Mapped
  /\ vbits = {x[2] : x \in Owned} \cup Asked

(* Every block of a small arena is free, in use or on its way back, one of *)
(* the three, the free lists hold nothing else, and cnt counts the free.   *)
Freed == {<<call[t].page, call[t].idx>> : t \in {u \in Threads : call[u].step = "free"}}
BlocksAccounted ==
  /\ \A d \in Descs : IsInjective(free[d])
  /\ live \cap Freed = {}
  /\ (UNION {ToSet(free[d]) : d \in Descs}) \cap (live \cup Freed) = {}
  /\ \A p \in VPages :
       IF arena[p] = None THEN \A b \in live \cup Freed \cup UNION {ToSet(free[d]) : d \in Descs} : b[1] # p
       ELSE LET d == arena[p].desc IN
            IF d = None THEN {b \in live \cup Freed : b[1] = p} = {<<p, 0>>}
            ELSE /\ {b \in live \cup Freed \cup ToSet(free[d]) : b[1] = p} = {p} \X Blocks(d)
                 /\ arena[p].cnt = Cardinality({b \in ToSet(free[d]) : b[1] = p})

(* A thread has kernel_pool.lock while it is in sys_malloc or sys_free,    *)
(* once, and once for each large request it was granted: these never give  *)
(* it back, and from the first of them on no other thread gets memory.     *)
LockKeptByLarge ==
  /\ \A t \in Threads : (InUse(t) \/ kept[t] > 0) => owner = t
  /\ depth = IF owner = None THEN 0 ELSE kept[owner] + IF InUse(owner) THEN 1 ELSE 0

(* A request that is too large, for malloc_page or for the room there is   *)
(* in a bitmap, is the only reason for an ASSERT to fail: no page is       *)
(* mapped twice and no block of an empty arena is missing from its list.   *)
OnlyTooLargePanics ==
  panicked => \E t \in Threads :
    \/ call[t].step = "vaddr_get" /\ call[t].n >= PageLimit
    \/ call[t].step = "vaddr_set" /\ FirstFit(vbits, VLen, call[t].n) = NoBits
    \/ call[t].step = "map" /\ pbits = Frames
=============================================================================
