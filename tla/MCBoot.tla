-------------------------------- MODULE MCBoot -------------------------------
(* Disks of up to 59 sectors.  Partitions of 10 and 14 sectors have 2 and 5 *)
(* blocks; one of 19 has 9 and a bitmap of 3 sectors, a count that is 0 in  *)
(* a uint8_t of 3 values.  The inode table has 4 sectors, of which 1 is     *)
(* left.  An extended partition starts with its first table.                *)
EXTENDS Boot

E(type, start, cnt) == [fs_type |-> type, start_lba |-> start, sec_cnt |-> cnt]
Padded(es) == [i \in 1 .. Entries |-> IF i <= Len(es) THEN es[i] ELSE Unused]

(* A disk from its tables: what is in no table is blank. *)
Image(tables) ==
  [lba \in LBAs |-> IF lba \in DOMAIN tables THEN [kind |-> "table", table |-> Padded(tables[lba])]
                    ELSE [kind |-> "blank"]]

(* Two primary partitions. *)
Plain == Image(0 :> <<E(131, 1, 10), E(131, 11, 14)>>)
(* One, and four logical ones, of which LogicMax = 3 fit. *)
Chained == Image(0  :> <<E(131, 1, 10), E(Extended, 11, 48)>>
              @@ 11 :> <<E(131, 1, 14), E(Extended, 15, 11)>>
              @@ 26 :> <<E(131, 1, 10), E(Extended, 26, 11)>>
              @@ 37 :> <<E(131, 1, 10), E(Extended, 37, 11)>>
              @@ 48 :> <<E(131, 1, 10)>>)
(* The second disk of a machine with two channels. *)
Second == Image(0  :> <<E(131, 1, 10), E(Extended, 11, 11)>>
             @@ 11 :> <<E(131, 1, 10)>>)
Four == Image(0 :> <<E(131, 1, 10), E(131, 11, 10), E(131, 21, 10), E(131, 31, 10)>>)
(* The extended partition is listed first. *)
Mixed == Image(0  :> <<E(Extended, 26, 11), E(131, 1, 14), E(131, 15, 11)>>
            @@ 26 :> <<E(131, 1, 10)>>)
(* A partition whose block bitmap is refused, behind sdb1 and as sdb1. *)
LargeLast  == Image(0 :> <<E(131, 1, 10), E(131, 11, 19)>>)
LargeFirst == Image(0 :> <<E(131, 1, 19), E(131, 20, 10)>>)
(* No primary partition, hence no sdb1. *)
LogicalOnly == Image(0 :> <<E(Extended, 1, 11)>>
                  @@ 1 :> <<E(131, 1, 10)>>)

MCLBAs == 0 .. 58
MCFresh == {0 :> Plain, 0 :> Mixed, 0 :> Four, 0 :> LargeLast, 0 :> LargeFirst, 0 :> LogicalOnly,
            (0 :> Chained) @@ (1 :> Second), (0 :> Plain) @@ (1 :> Second)}
==============================================================================
