---------------------------- MODULE TimeshiftFile ----------------------------
(****************************************************************************)
(* The file of the timeshift player, AV_TimeshiftFile_t of am_av/aml/aml.c: *)
(* a ring of size units into which the recorder writes and from which the   *)
(* player reads (or, for playback only, a recorded file).  It is a record   *)
(* that the operators below map to the next one:                            *)
(*                                                                          *)
(*   start, read, write   positions in the ring                             *)
(*   total, avail         units kept, and units not yet played              *)
(*   rpos, wpos, len      offsets of rfd and wfd, length of the file        *)
(*                                                                          *)
(* The code moves positions and file offsets separately: an offset goes     *)
(* back to 0 only when a transfer is split at the end of the ring.          *)
(****************************************************************************)
EXTENDS Integers

File == [loop: BOOLEAN, size: Nat \ {0}, avail: Int, total: Int,
         start: Int, read: Int, write: Int, rpos: Nat, wpos: Int, len: Int]

Least(a, b) == IF a < b THEN a ELSE b

(* aml_timeshift_file_open.                                                  *)
Opened(loop, size) ==
  [loop |-> loop, size |-> size,
   avail |-> IF loop THEN 0 ELSE size, total |-> IF loop THEN 0 ELSE size,
   start |-> 0, read |-> 0, write |-> 0,
   rpos |-> 0, wpos |-> 0, len |-> IF loop THEN 0 ELSE size]

(* A transfer of n units from position p goes beyond the end of the ring:    *)
(* this many of them fit (0: all of them).                                   *)
Split(f, p, n) == IF p + n > f.size THEN f.size - p ELSE 0

(* Mutant: what is kept still starts at data that was written over.          *)
Written_KeepsStart(f, n, m) ==
  [f EXCEPT !.wpos = (f.write + m) % f.size, !.write = (f.write + m) % f.size,
            !.len = f.size,
            !.read  = IF m > f.size - f.avail THEN (f.write + m) % f.size ELSE f.read,
            !.avail = Least(f.avail + m, f.size),
            !.total = Least(f.total + m, f.size)]

(* aml_timeshift_file_write, n <= size units of which m reach the disk.      *)
Written(f, n, m) ==
  LET split == Split(f, f.write, n)
      wpos  == IF split = 0 \/ m < split THEN f.wpos + m ELSE m - split
      write == (f.write + m) % f.size
  IN [f EXCEPT
        !.wpos  = wpos,
        !.len   = IF wpos > f.len THEN wpos
                  ELSE IF split > 0 /\ m >= split /\ f.wpos + split > f.len
                       THEN f.wpos + split ELSE f.len,
        !.write = write,
        !.read  = IF m > f.size - f.avail THEN write ELSE f.read,
        !.start = IF m > f.size - f.total THEN write ELSE f.start,
        !.avail = Least(f.avail + m, f.size),
        !.total = Least(f.total + m, f.size)]

(* What read(2) returns at offset p when asked for n units.                  *)
Got(f, p, n) == IF p >= f.len THEN 0 ELSE Least(n, f.len - p)

(* aml_timeshift_file_read for at most n units.                              *)
Played(f, n) ==
  LET todo  == Least(n, f.avail)
      split == Split(f, f.read, todo)
      got   == Got(f, f.rpos, IF split > 0 THEN split ELSE todo)
      rest  == Got(f, 0, todo - split)
  IN IF ~f.loop THEN
       LET all == Got(f, f.rpos, n) IN
       [f EXCEPT !.rpos = @ + all, !.avail = IF all > @ THEN 0 ELSE @ - all]
     ELSE IF split = 0 THEN
       [f EXCEPT !.read = (@ + got) % f.size, !.rpos = @ + got, !.avail = @ - got]
     ELSE IF got < split THEN
       [f EXCEPT !.read = @ + got, !.rpos = @ + got, !.avail = @ - got]
     ELSE
       [f EXCEPT !.read = rest % f.size, !.rpos = rest,
                 !.avail = IF rest > 0 THEN @ - split - rest ELSE @]

(* aml_timeshift_file_seek; an offset outside of what is kept is moved in.   *)
Outside(f, offset) == offset > f.total \/ offset < 0
(* Mutant: the file offset is left where it is.                              *)
Sought_NoLseek(f, offset) ==
  LET to == IF offset > f.total THEN f.total - 1
            ELSE IF offset < 0 THEN 0 ELSE offset
  IN [f EXCEPT !.read = (f.start + to) % f.size, !.avail = f.total - to]

Sought(f, offset) ==
  LET to == IF offset > f.total THEN f.total - 1
            ELSE IF offset < 0 THEN 0 ELSE offset
      read == (f.start + to) % f.size
  IN [f EXCEPT !.read = read, !.rpos = read, !.avail = f.total - to]

(* The bookkeeping of the ring: what is kept and what is to be played both   *)
(* end at the write position.                                                *)
Kept(f) == f.total \in 0..f.size /\ f.write = (f.start + f.total) % f.size
ToPlay(f) == f.avail \in 0..f.total /\ f.write = (f.read + f.avail) % f.size
==============================================================================
