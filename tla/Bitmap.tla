------------------------------- MODULE Bitmap -------------------------------
(***************************************************************************)
(* bitmap_scan of lib/kernel/bitmap.c.  A bitmap of len bits is the set of *)
(* its bits that are 1; a byte has ByteBits of them (8 in the program).    *)
(***************************************************************************)
EXTENDS Integers, FiniteSetsExt

CONSTANT ByteBits

NoBits == -1  \* an ASSERT of bitmap_scan or bitmap_scan_test fails

Byte(i) == i * ByteBits .. (i + 1) * ByteBits - 1

(* The first clear bit starts a run; the run's length is counted from bit  *)
(* to bit, at most len - start times, and the last of these turns asks for *)
(* bit len, which bitmap_scan_test asserts not to happen.  So the scan     *)
(* never returns -1.                                                       *)
bitmap_scan_FromOne(used, len, cnt) ==  \* mutant: the counter is reset to 1
  LET clear == (0 .. len - 1) \ used
      start == Min(clear)
      count[b \in start .. len - 1] == IF b = start \/ b \in used THEN 1 ELSE count[b - 1] + 1
      ends  == {b \in start .. len - 1 : count[b] = cnt}
  IN  IF clear = {} THEN NoBits
      ELSE IF cnt = 1 THEN start
      ELSE IF ends = {} THEN NoBits ELSE Min(ends) - cnt + 1
bitmap_scan(used, len, cnt) ==
  LET bytes == {i \in 0 .. len \div ByteBits - 1 : ~(Byte(i) \subseteq used)}
      start == Min(Byte(Min(bytes)) \ used)
      count[b \in start .. len - 1] ==
        IF b = start THEN 1 ELSE IF b \in used THEN 0 ELSE count[b - 1] + 1
      ends  == {b \in start .. len - 1 : count[b] = cnt}
  IN  IF bytes = {} THEN NoBits
      ELSE IF cnt = 1 THEN start
      ELSE IF ends = {} THEN NoBits ELSE Min(ends) - cnt + 1

(* What a first-fit search returns.                                        *)
FirstFit(used, len, cnt) ==
  LET fits == {i \in 0 .. len - cnt : (i .. i + cnt - 1) \cap used = {}}
  IN  IF fits = {} THEN NoBits ELSE Min(fits)
=============================================================================
