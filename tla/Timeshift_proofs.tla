--------------------------- MODULE Timeshift_proofs ---------------------------
(****************************************************************************)
(* Proofs about the timeshift player: type correctness, that the            *)
(* bookkeeping of the ring is consistent, and that the file offsets follow  *)
(* it, for every size of the ring, of the buffer and of what is written at  *)
(* a time.  First what each operator on the file preserves, then the        *)
(* invariants of the player.                                                *)
(****************************************************************************)
EXTENDS Timeshift, TLAPS

(* A ring whose positions are inside of it and agree with the counts.        *)
Positions(f) ==
  f.start \in 0..f.size - 1 /\ f.read \in 0..f.size - 1 /\ f.write \in 0..f.size - 1
Ring(f) == f \in File /\ f.loop /\ Positions(f) /\ Kept(f) /\ ToPlay(f)

(* A position moved by at most one turn of the ring.                         *)
LEMMA Turn ==
  ASSUME NEW S \in Nat \ {0}, NEW a \in 0..S - 1, NEW b \in 0..S
  PROVE  (a + b) % S = IF a + b < S THEN a + b ELSE a + b - S
  BY SMTT(30)

LEMMA Inside ==
  ASSUME NEW S \in Nat \ {0}, NEW a \in 0..S - 1
  PROVE  a % S = a
  BY SMTT(30)

LEMMA InRing ==
  ASSUME NEW S \in Nat \ {0}, NEW a \in Int
  PROVE  a % S \in 0..S - 1
  BY SMTT(30)

(* What read(2) returns.                                                     *)
LEMMA GotBounds ==
  ASSUME NEW f \in File, NEW p \in Int, NEW n \in Nat
  PROVE  Got(f, p, n) \in 0..n
  BY DEF Got, File, Least

(* One position or count of the file replaced.                               *)
LEMMA ReadSet ==
  ASSUME NEW f \in File, NEW p \in Int PROVE [f EXCEPT !.read = p] \in File
  BY DEF File
LEMMA RposSet ==
  ASSUME NEW f \in File, NEW p \in Nat PROVE [f EXCEPT !.rpos = p] \in File
  BY DEF File
LEMMA AvailSet ==
  ASSUME NEW f \in File, NEW n \in Int PROVE [f EXCEPT !.avail = n] \in File
  BY DEF File
(* ... and all three of them, as reading and seeking do.                     *)
At(f, p, q, n) == [f EXCEPT !.read = p, !.rpos = q, !.avail = n]
IsAt(g, f, p, q, n) ==
  /\ g \in File /\ g.loop = f.loop /\ g.size = f.size /\ g.start = f.start
  /\ g.total = f.total /\ g.write = f.write /\ g.read = p /\ g.rpos = q /\ g.avail = n
LEMMA AtFile ==
  ASSUME NEW f \in File, NEW p \in Int, NEW q \in Nat, NEW n \in Int
  PROVE  IsAt(At(f, p, q, n), f, p, q, n)
<1>1. [f EXCEPT !.read = p] \in File
  BY ReadSet
<1>2. [f EXCEPT !.read = p, !.rpos = q] \in File
  BY <1>1, RposSet
<1>3. [f EXCEPT !.read = p, !.rpos = q, !.avail = n] \in File
  BY <1>2, AvailSet
<1>4. f = [loop |-> f.loop, size |-> f.size, avail |-> f.avail, total |-> f.total,
           start |-> f.start, read |-> f.read, write |-> f.write, rpos |-> f.rpos,
           wpos |-> f.wpos, len |-> f.len]
  BY DEF File
<1> QED
  BY <1>3, <1>4 DEF At, IsAt

LEMMA OpenedRing ==
  ASSUME NEW size \in Nat \ {0}
  PROVE  /\ Ring(Opened(TRUE, size))
         /\ Opened(FALSE, size) \in File /\ ~Opened(FALSE, size).loop
<1> DEFINE f == Opened(TRUE, size)
<1>1. (0 + 0) % size = 0
  BY Turn
<1>2. f \in File /\ f.loop /\ f.size = size /\ f.start = 0 /\ f.read = 0
      /\ f.write = 0 /\ f.total = 0 /\ f.avail = 0
  BY DEF Opened, File
<1>3. Ring(f)
  <2> HIDE DEF f
  <2>1. Positions(f)
    BY <1>2 DEF Positions
  <2>2. Kept(f) /\ ToPlay(f)
    BY <1>1, <1>2 DEF Kept, ToPlay
  <2> QED
    BY <1>2, <2>1, <2>2 DEF Ring
<1>4. Opened(FALSE, size) \in File /\ ~Opened(FALSE, size).loop
  BY DEF Opened, File
<1> QED
  BY <1>3, <1>4

(* The recorder writes m of n units.                                         *)
LEMMA WrittenRing ==
  ASSUME NEW f, Ring(f), NEW n \in 0..f.size, NEW m \in 0..n
  PROVE  /\ Ring(Written(f, n, m))
         /\ Written(f, n, m).size = f.size
         /\ Written(f, n, m).total = Least(f.total + m, f.size)
         /\ f.total + m <= f.size => Written(f, n, m).start = f.start
<1> DEFINE g == Written(f, n, m)
<1> DEFINE S == f.size
<1>1. /\ f \in File /\ S \in Nat \ {0} /\ Positions(f) /\ m \in 0..S
      /\ f.total \in 0..S /\ f.avail \in 0..f.total
      /\ f.write = (f.start + f.total) % S /\ f.write = (f.read + f.avail) % S
  BY DEF Ring, File, Kept, ToPlay
<1>2. /\ g \in File /\ g.loop /\ g.size = S
      /\ g.write = (f.write + m) % S
      /\ g.read = IF m > S - f.avail THEN g.write ELSE f.read
      /\ g.start = IF m > S - f.total THEN g.write ELSE f.start
      /\ g.avail = Least(f.avail + m, S)
      /\ g.total = Least(f.total + m, S)
  <2>1. f.write + m \in Int /\ (f.write + m) % S \in 0..S - 1
    BY <1>1, InRing DEF Positions
  <2>2. Split(f, f.write, n) \in Int
    BY <1>1 DEF Split, File, Positions
  <2> DEFINE s == Split(f, f.write, n)
             w == IF s = 0 \/ m < s THEN f.wpos + m ELSE m - s
             l == IF w > f.len THEN w
                  ELSE IF s > 0 /\ m >= s /\ f.wpos + s > f.len THEN f.wpos + s ELSE f.len
             p == (f.write + m) % S
             r == IF m > S - f.avail THEN p ELSE f.read
             b == IF m > S - f.total THEN p ELSE f.start
             a == Least(f.avail + m, S)
             t == Least(f.total + m, S)
  <2>3. g = [f EXCEPT !.wpos = w, !.len = l, !.write = p, !.read = r, !.start = b,
                      !.avail = a, !.total = t]
    BY Zenon DEF Written
  <2>4. w \in Int /\ l \in Int
    BY <1>1, <2>2 DEF File
  <2>5. p \in Int /\ r \in Int /\ b \in Int /\ a \in Int /\ t \in Int
    BY <1>1, <2>1 DEF Positions, Least, File
  <2> HIDE DEF w, l, p, r, b, a, t
  <2>6. g \in File /\ g.loop = f.loop /\ g.size = f.size /\ g.write = p /\ g.read = r
        /\ g.start = b /\ g.avail = a /\ g.total = t
    BY <1>1, <2>3, <2>4, <2>5 DEF File
  <2> QED
    BY <2>6 DEF Ring, p, r, b, a, t
<1>3. /\ (f.start + f.total) % S = IF f.start + f.total < S THEN f.start + f.total ELSE f.start + f.total - S
      /\ (f.read + f.avail) % S = IF f.read + f.avail < S THEN f.read + f.avail ELSE f.read + f.avail - S
      /\ (f.write + m) % S = IF f.write + m < S THEN f.write + m ELSE f.write + m - S
  <2>1. f.start \in 0..S - 1 /\ f.read \in 0..S - 1 /\ f.write \in 0..S - 1
        /\ f.total \in 0..S /\ f.avail \in 0..S
    BY <1>1 DEF Positions
  <2> HIDE DEF S
  <2> QED
    BY <1>1, <2>1, Turn
<1>4. Positions(g)
  BY <1>1, <1>2, <1>3 DEF Positions
<1>5. g.total \in 0..S /\ g.avail \in 0..g.total
  BY <1>1, <1>2 DEF Least
<1>6. /\ (g.start + g.total) % S = IF g.start + g.total < S THEN g.start + g.total ELSE g.start + g.total - S
      /\ (g.read + g.avail) % S = IF g.read + g.avail < S THEN g.read + g.avail ELSE g.read + g.avail - S
  <2>1. g.start \in 0..S - 1 /\ g.read \in 0..S - 1 /\ g.total \in 0..S /\ g.avail \in 0..S
    BY <1>1, <1>2, <1>4, <1>5 DEF Positions
  <2> QED
    BY <1>1, <2>1, Turn
<1>7. g.write = (g.start + g.total) % S
  BY <1>1, <1>2, <1>3, <1>6 DEF Positions, Least
<1>8. g.write = (g.read + g.avail) % S
  BY <1>1, <1>2, <1>3, <1>6 DEF Positions, Least
<1>9. Ring(g)
  BY <1>2, <1>4, <1>5, <1>7, <1>8 DEF Ring, Kept, ToPlay
<1>10. f.total + m <= S => g.start = f.start
  BY <1>1, <1>2
<1> QED
  BY <1>2, <1>9, <1>10

(* aml_timeshift_file_seek.  An empty ring is only sought at its start.      *)
LEMMA SoughtFile ==
  ASSUME NEW f \in File, NEW offset \in Int
  PROVE  /\ Sought(f, offset) \in File
         /\ Sought(f, offset).loop = f.loop
         /\ Sought(f, offset).size = f.size
<1> DEFINE to == IF offset > f.total THEN f.total - 1
                 ELSE IF offset < 0 THEN 0 ELSE offset
           r == (f.start + to) % f.size
           a == f.total - to
<1>1. Sought(f, offset) = At(f, r, r, a)
  BY Zenon DEF Sought, At
<1>2. to \in Int /\ f.size \in Nat \ {0} /\ f.start \in Int /\ a \in Int
  BY DEF File
<1>3. r \in Nat
  <2>1. f.start + to \in Int
    BY <1>2
  <2> HIDE DEF to
  <2>2. r \in 0..f.size - 1
    BY <1>2, <2>1, InRing
  <2> QED
    BY <1>2, <2>2
<1>4. r \in Int /\ r \in Nat /\ a \in Int
  BY <1>2, <1>3
<1> HIDE DEF to, r, a
<1>5. IsAt(Sought(f, offset), f, r, r, a)
  BY Zenon, <1>1, <1>4, AtFile
<1> QED
  BY <1>5 DEF IsAt

LEMMA SoughtRing ==
  ASSUME NEW f, Ring(f), NEW offset \in Int, f.total > 0 \/ offset = 0
  PROVE  /\ Ring(Sought(f, offset))
         /\ Sought(f, offset).size = f.size
         /\ Sought(f, offset).total = f.total
         /\ Sought(f, offset).start = f.start
<1> DEFINE to == IF offset > f.total THEN f.total - 1
                 ELSE IF offset < 0 THEN 0 ELSE offset
           S == f.size
           r == (f.start + to) % S
           a == f.total - to
           g == Sought(f, offset)
<1>1. /\ f \in File /\ S \in Nat \ {0} /\ f.start \in 0..S - 1 /\ f.write \in 0..S - 1
      /\ f.total \in 0..S /\ f.write = (f.start + f.total) % S
  BY DEF Ring, File, Kept, Positions
<1>2. to \in 0..f.total /\ a \in 0..f.total
  BY <1>1
<1>3. r = IF f.start + to < S THEN f.start + to ELSE f.start + to - S
  <2>1. to \in 0..S
    BY <1>1, <1>2
  <2> HIDE DEF to, S
  <2> QED
    BY <1>1, <2>1, Turn
<1>4. g = At(f, r, r, a)
  BY Zenon DEF Sought, At
<1>5. (f.start + f.total) % S = IF f.start + f.total < S THEN f.start + f.total
                                ELSE f.start + f.total - S
  <2> HIDE DEF S
  <2> QED
    BY <1>1, Turn
<1>6. r \in 0..S - 1
  BY <1>1, <1>2, <1>3
<1>7. (r + a) % S = IF r + a < S THEN r + a ELSE r + a - S
  <2>1. a \in 0..S
    BY <1>1, <1>2
  <2> HIDE DEF r, a, S
  <2> QED
    BY <1>1, <1>6, <2>1, Turn
<1>8. f.write = (r + a) % S
  BY <1>1, <1>2, <1>3, <1>5, <1>7
<1>9. /\ g \in File /\ g.loop /\ g.size = S /\ g.start = f.start /\ g.total = f.total
      /\ g.write = f.write /\ g.read = r /\ g.avail = a
  <2>1. r \in Int /\ r \in Nat /\ a \in Int
    BY <1>1, <1>2, <1>6
  <2>2. f \in File /\ f.loop
    BY <1>1 DEF Ring
  <2> HIDE DEF r, a, g
  <2>3. IsAt(g, f, r, r, a)
    BY Zenon, <1>4, <2>1, <2>2, AtFile
  <2> QED
    BY <2>2, <2>3 DEF IsAt
<1>10. Ring(g)
  <2> HIDE DEF g, r, a
  <2>1. Positions(g)
    BY <1>1, <1>6, <1>9 DEF Positions
  <2>2. Kept(g) /\ ToPlay(g)
    BY <1>1, <1>2, <1>8, <1>9 DEF Kept, ToPlay
  <2> QED
    BY <1>9, <2>1, <2>2 DEF Ring
<1> QED
  BY <1>9, <1>10

(* aml_timeshift_file_read.  The rewritten offset of a split transfer finds  *)
(* data there: it was reached only because the file is not empty.            *)
LEMMA PlayedFile ==
  ASSUME NEW f \in File, ~f.loop, NEW n \in Nat
  PROVE  /\ Played(f, n) \in File /\ ~Played(f, n).loop
         /\ Played(f, n).rpos - f.rpos \in 0..n
<1> DEFINE all == Got(f, f.rpos, n)
           q == f.rpos + all
           a == IF all > f.avail THEN 0 ELSE f.avail - all
<1>1. f.rpos \in Nat /\ f.avail \in Int /\ all \in 0..n
  BY GotBounds DEF File
<1>2. q \in Nat /\ a \in Int /\ q - f.rpos \in 0..n
  <2> HIDE DEF all
  <2> QED
    BY <1>1
<1>3. Played(f, n) = [f EXCEPT !.rpos = q, !.avail = a]
  BY Zenon DEF Played
<1> HIDE DEF q, a
<1>4. [f EXCEPT !.rpos = q] \in File
  BY <1>2, RposSet
<1>5. [f EXCEPT !.rpos = q, !.avail = a] \in File
  BY <1>2, <1>4, AvailSet
<1> QED
  BY <1>2, <1>3, <1>5 DEF File

PlayedOn(g, f, n) ==
  /\ Ring(g) /\ g.size = f.size /\ g.total = f.total /\ g.start = f.start
  /\ f.avail - g.avail \in 0..n
LEMMA PlayedRing ==
  ASSUME NEW f, Ring(f), NEW n \in Nat
  PROVE  PlayedOn(Played(f, n), f, n)
<1> DEFINE todo  == Least(n, f.avail)
           split == Split(f, f.read, todo)
           got   == Got(f, f.rpos, IF split > 0 THEN split ELSE todo)
           rest  == Got(f, 0, todo - split)
           S == f.size
           g == Played(f, n)
<1>1. /\ f \in File /\ f.loop /\ S \in Nat \ {0} /\ f.rpos \in Nat /\ f.len \in Int
      /\ f.read \in 0..S - 1 /\ f.write \in 0..S - 1 /\ f.start \in 0..S - 1
      /\ f.total \in 0..S /\ f.avail \in 0..f.total
      /\ f.write = (f.read + f.avail) % S
  BY DEF Ring, File, Kept, ToPlay, Positions
<1>2. todo \in 0..f.avail /\ todo \in 0..n
  BY <1>1 DEF Least
<1>3. split = IF f.read + todo > S THEN S - f.read ELSE 0
  BY DEF Split
<1>4. split \in 0..todo
  BY <1>1, <1>2, <1>3
<1>5. got \in 0..(IF split > 0 THEN split ELSE todo) /\ rest \in 0..todo - split
  <2> HIDE DEF todo, split
  <2>1. (IF split > 0 THEN split ELSE todo) \in Nat /\ todo - split \in Nat
    BY <1>1, <1>2, <1>4
  <2> QED
    BY <1>1, <2>1, GotBounds
<1>6. (f.read + f.avail) % S = IF f.read + f.avail < S THEN f.read + f.avail
                               ELSE f.read + f.avail - S
  <2>1. f.avail \in 0..S
    BY <1>1
  <2> HIDE DEF S
  <2> QED
    BY <1>1, <2>1, Turn
<1>7. ASSUME NEW p \in 0..S - 1, NEW q \in Nat, NEW a \in 0..f.avail,
             f.avail - a \in 0..n, g = At(f, p, q, a),
             f.write = IF p + a < S THEN p + a ELSE p + a - S
      PROVE  PlayedOn(g, f, n)
  <2>1. p \in Int /\ a \in Int /\ a \in 0..S /\ f \in File
    BY <1>1
  <2> HIDE DEF g
  <2>2. IsAt(g, f, p, q, a)
    <3>1. q \in Nat /\ g = At(f, p, q, a)
      BY <1>7
    <3> QED
      BY Zenon, <2>1, <3>1, AtFile
  <2> HIDE DEF S
  <2>3. (p + a) % S = IF p + a < S THEN p + a ELSE p + a - S
    BY <1>1, <1>7, <2>1, Turn
  <2>4. f.write = (f.start + f.total) % S
    BY DEF Ring, Kept, S
  <2>5. Positions(g) /\ Kept(g) /\ ToPlay(g)
    BY <1>1, <1>7, <2>2, <2>3, <2>4 DEF Positions, Kept, ToPlay, S, IsAt
  <2> QED
    BY <1>1, <1>7, <2>2, <2>5 DEF Ring, S, IsAt, PlayedOn
<1>8. CASE split = 0
  <2>1. g = At(f, (f.read + got) % S, f.rpos + got, f.avail - got)
    BY Zenon, <1>1, <1>8 DEF Played, At
  <2>2. got \in 0..todo /\ f.read + todo <= S
    BY <1>1, <1>2, <1>3, <1>5, <1>8
  <2>3. got \in 0..S /\ got \in 0..n /\ got \in 0..f.avail
    BY <1>1, <1>2, <2>2
  <2>4. (f.read + got) % S = IF f.read + got < S THEN f.read + got ELSE f.read + got - S
    <3> HIDE DEF got, S
    <3> QED
      BY <1>1, <2>3, Turn
  <2> DEFINE p == (f.read + got) % S
             q == f.rpos + got
             a == f.avail - got
  <2>5. p \in 0..S - 1 /\ q \in Nat /\ a \in 0..f.avail /\ f.avail - a \in 0..n
    BY <1>1, <2>3, <2>4
  <2>6. f.write = IF p + a < S THEN p + a ELSE p + a - S
    BY <1>1, <1>6, <2>3, <2>4
  <2> HIDE DEF p, q, a, got, S
  <2> QED
    BY <1>7, <2>1, <2>5, <2>6 DEF p, q, a
<1>9. CASE split > 0 /\ got < split
  <2>1. split # 0 /\ got < split
    BY <1>4, <1>9
  <2>2. g = At(f, f.read + got, f.rpos + got, f.avail - got)
    BY Zenon, <1>1, <2>1 DEF Played, At
  <2>3. got \in 0..n /\ got \in 0..f.avail /\ f.read + got < S
    BY <1>1, <1>2, <1>3, <1>4, <1>5, <1>9
  <2> DEFINE p == f.read + got
             q == f.rpos + got
             a == f.avail - got
  <2>4. p \in 0..S - 1 /\ q \in Nat /\ a \in 0..f.avail /\ f.avail - a \in 0..n
    BY <1>1, <2>3
  <2>5. f.write = IF p + a < S THEN p + a ELSE p + a - S
    BY <1>1, <1>6, <2>3
  <2> HIDE DEF p, q, a, got, S
  <2> QED
    BY <1>7, <2>2, <2>4, <2>5 DEF p, q, a
<1>10. CASE split > 0 /\ got = split
  <2>1. f.rpos < f.len
    BY <1>1, <1>10 DEF Got
  <2>2. rest > 0
    BY <1>1, <1>2, <1>3, <1>10, <2>1 DEF Got, Least
  <2>3. rest \in 1..todo - split /\ split = S - f.read
    BY <1>3, <1>5, <1>10, <2>2
  <2>4. split # 0 /\ ~(got < split)
    BY <1>4, <1>10
  <2>5. g = At(f, rest % S, rest, f.avail - split - rest)
    BY Zenon, <1>1, <2>2, <2>4 DEF Played, At
  <2>6. rest \in 0..S - 1 /\ rest \in Nat
    <3> HIDE DEF rest, split, got, todo, S
    <3> QED
      BY <1>1, <1>2, <1>10, <2>3
  <2>7. rest % S = rest
    <3> HIDE DEF rest, S
    <3> QED
      BY <1>1, <2>6, Inside
  <2> DEFINE a == f.avail - split - rest
  <2>8. a \in 0..f.avail /\ f.avail - a \in 0..n
    <3> HIDE DEF rest, split, todo
    <3> QED
      BY <1>1, <1>2, <1>4, <2>3
  <2>9. f.write = IF rest + a < S THEN rest + a ELSE rest + a - S
    <3> HIDE DEF rest, split, todo, S
    <3> QED
      BY <1>1, <1>2, <1>6, <2>3, <2>6
  <2>10. g = At(f, rest, rest, a)
    BY Zenon, <2>5, <2>7
  <2> HIDE DEF rest, a, S
  <2> QED
    BY <1>7, <2>6, <2>8, <2>9, <2>10
<1> QED
  BY <1>4, <1>5, <1>8, <1>9, <1>10

(* The ring gets its definite size while nothing has been written over.      *)
LEMMA ResizedRing ==
  ASSUME NEW f, Ring(f), f.start = 0, f.total < f.size,
         NEW size \in Nat \ {0}, f.total < size
  PROVE  /\ Ring([f EXCEPT !.size = size])
         /\ [f EXCEPT !.size = size].size = size
         /\ [f EXCEPT !.size = size].total = f.total
<1> DEFINE g == [f EXCEPT !.size = size]
           S == f.size
<1>1. /\ f \in File /\ f.loop /\ S \in Nat \ {0} /\ Positions(f)
      /\ f.total \in 0..S - 1 /\ f.avail \in 0..f.total
      /\ f.write = (f.start + f.total) % S /\ f.write = (f.read + f.avail) % S
  BY DEF Ring, File, Kept, ToPlay
<1>2. f.write = f.total
  <2>1. f.total % S = f.total
    <3> HIDE DEF S
    <3> QED
      BY <1>1, Inside
  <2>2. f.start + f.total = f.total
    BY <1>1
  <2> QED
    BY <1>1, <2>1, <2>2
<1>3. f.read + f.avail = f.total
  <2>1. f.read \in 0..S - 1 /\ f.avail \in 0..S
    BY <1>1 DEF Positions
  <2>2. (f.read + f.avail) % S = IF f.read + f.avail < S THEN f.read + f.avail
                                 ELSE f.read + f.avail - S
    <3> HIDE DEF S
    <3> QED
      BY <1>1, <2>1, Turn
  <2> QED
    BY <1>1, <1>2, <2>1, <2>2
<1>4. /\ g \in File /\ g.loop /\ g.size = size /\ g.total = f.total /\ g.avail = f.avail
      /\ g.start = 0 /\ g.read = f.read /\ g.write = f.total
  BY <1>1, <1>2 DEF File
<1>5. f.total % size = f.total
  BY <1>1, Inside
<1> HIDE DEF g
<1>6. Positions(g)
  BY <1>1, <1>3, <1>4 DEF Positions
<1>7. Kept(g) /\ ToPlay(g)
  <2>1. g.start + g.total = f.total /\ g.read + g.avail = f.total
    BY <1>1, <1>3, <1>4
  <2> QED
    BY <1>1, <1>4, <1>5, <2>1 DEF Kept, ToPlay
<1>8. Ring(g)
  BY <1>4, <1>6, <1>7 DEF Ring
<1> QED
  BY <1>4, <1>8 DEF g

--------------------------------------------------------------------------------
(* The file offsets.  Until the ring has been filled once they are the       *)
(* positions; then they follow them, modulo the size of the ring.            *)
Early(f, l) == f.total < f.size =>
  ~l /\ f.start = 0 /\ f.wpos = f.total /\ f.rpos = f.read
Follows(f, l) == f.wpos % f.size = f.write /\ (~l => f.rpos % f.size = f.read)
Steady(f, l) == Early(f, l) /\ Follows(f, l)

(* Division with remainder, and that it is unique: what it takes to follow a  *)
(* file offset modulo the size of the ring.                                  *)
LEMMA Division ==
  ASSUME NEW S \in Nat \ {0}, NEW a \in Int
  PROVE  \E d \in Int, y \in 0..S - 1, u \in Int : u = d * S /\ y = a % S /\ u + y = a
  BY Z3T(30)

LEMMA Small ==
  ASSUME NEW S \in Nat \ {0}, NEW k \in Int, k * S < S, k * S > -S
  PROVE  k = 0
  BY Z3T(30)

LEMMA Dist ==
  ASSUME NEW S \in Nat, NEW d \in Int, NEW q \in Int
  PROVE  (d - q) * S = d * S - q * S /\ q * S \in Int /\ (q + 1) * S = q * S + S
  BY Z3T(30)

LEMMA Unique ==
  ASSUME NEW S \in Nat \ {0}, NEW q \in Int, NEW r \in 0..S - 1, NEW v \in Int, v = q * S
  PROVE  (v + r) % S = r
<1>1. v + r \in Int
  OBVIOUS
<1>2. PICK d \in Int, y \in 0..S - 1, u \in Int :
        u = d * S /\ y = (v + r) % S /\ u + y = v + r
  BY <1>1, Division
<1>3. u - v < S /\ u - v > -S
  BY <1>2
<1>4. (d - q) * S = u - v
  BY <1>2, Dist
<1>5. d - q = 0
  BY <1>3, <1>4, Small
<1>6. d = q
  BY <1>5
<1>7. u = v
  BY <1>2, <1>6
<1> QED
  BY <1>2, <1>7

(* A file offset moved by at most one turn of the ring.                      *)
LEMMA Moved ==
  ASSUME NEW S \in Nat \ {0}, NEW a \in Int, NEW m \in 0..S
  PROVE  (a + m) % S = IF (a % S) + m < S THEN (a % S) + m ELSE (a % S) + m - S
<1>1. PICK d \in Int, y \in 0..S - 1, u \in Int : u = d * S /\ y = a % S /\ u + y = a
  BY Division
<1>2. (d + 1) * S = u + S /\ d + 1 \in Int /\ u + S \in Int
  BY <1>1, Dist
<1>3. CASE y + m < S
  <2>1. y + m \in 0..S - 1 /\ u + (y + m) = a + m
    BY <1>1, <1>3
  <2>2. (u + (y + m)) % S = y + m
    BY Zenon, <1>1, <2>1, Unique
  <2> QED
    BY <1>1, <1>3, <2>1, <2>2
<1>4. CASE ~(y + m < S)
  <2>1. y + m - S \in 0..S - 1 /\ (u + S) + (y + m - S) = a + m
    BY <1>1, <1>4
  <2>2. PICK v \in Int : v = u + S /\ v = (d + 1) * S
    BY Zenon, <1>2
  <2>3. PICK r \in 0..S - 1 : r = y + m - S /\ v + r = a + m
    BY <2>1, <2>2
  <2>4. (v + r) % S = r
    <3>1. v = (d + 1) * S /\ d + 1 \in Int
      BY Zenon, <1>2, <2>2
    <3> QED
      BY Zenon, <3>1, Unique
  <2> QED
    BY <1>1, <1>4, <2>3, <2>4
<1> QED
  BY <1>3, <1>4

(* The facts about a ring that the lemmas below start from.                  *)
LEMMA RingFacts ==
  ASSUME NEW f, Ring(f)
  PROVE  /\ f \in File /\ f.loop /\ f.size \in Nat \ {0}
         /\ f.rpos \in Nat /\ f.wpos \in Int /\ f.len \in Int
         /\ f.start \in 0..f.size - 1 /\ f.read \in 0..f.size - 1
         /\ f.write \in 0..f.size - 1
         /\ f.total \in 0..f.size /\ f.avail \in 0..f.total
         /\ f.write = (f.start + f.total) % f.size
         /\ f.write = (f.read + f.avail) % f.size
  BY DEF Ring, File, Kept, ToPlay, Positions

(* While nothing has been written over, what is kept begins at 0.            *)
LEMMA EarlyFacts ==
  ASSUME NEW f, Ring(f), f.total < f.size, f.start = 0
  PROVE  f.write = f.total /\ f.read + f.avail = f.total
<1> DEFINE S == f.size
<1>1. /\ S \in Nat \ {0} /\ f.total \in 0..S - 1 /\ f.avail \in 0..f.total
      /\ f.read \in 0..S - 1 /\ f.start + f.total = f.total
      /\ f.write = (f.start + f.total) % S /\ f.write = (f.read + f.avail) % S
  BY RingFacts
<1>2. f.write = f.total
  <2>1. f.total % S = f.total
    <3> HIDE DEF S
    <3> QED
      BY <1>1, Inside
  <2> QED
    BY <1>1, <2>1
<1>3. (f.read + f.avail) % S = IF f.read + f.avail < S THEN f.read + f.avail
                               ELSE f.read + f.avail - S
  <2>1. f.avail \in 0..S
    BY <1>1
  <2> HIDE DEF S
  <2> QED
    BY <1>1, <2>1, Turn
<1> QED
  BY <1>1, <1>2, <1>3

LEMMA OpenedSteady ==
  ASSUME NEW size \in Nat \ {0}
  PROVE  Steady(Opened(TRUE, size), FALSE)
<1>1. 0 % size = 0
  BY Inside
<1> QED
  BY <1>1 DEF Steady, Early, Follows, Opened

LEMMA SoughtSteady ==
  ASSUME NEW f, Ring(f), NEW l, Steady(f, l), NEW offset \in Int,
         f.total > 0 \/ offset = 0
  PROVE  Steady(Sought(f, offset), FALSE)
<1> DEFINE to == IF offset > f.total THEN f.total - 1
                 ELSE IF offset < 0 THEN 0 ELSE offset
           r == (f.start + to) % f.size
           a == f.total - to
           g == Sought(f, offset)
<1>1. g = At(f, r, r, a)
  BY Zenon DEF Sought, At
<1>2. f \in File /\ f.size \in Nat \ {0} /\ to \in 0..f.total /\ a \in Int
  BY RingFacts
<1>3. f.start + to \in Int
  BY <1>2, RingFacts
<1>4. r \in 0..f.size - 1
  <2> HIDE DEF to
  <2> QED
    BY <1>2, <1>3, InRing
<1>5. r \in Int /\ r \in Nat
  BY <1>2, <1>4
<1>6. g.size = f.size /\ g.total = f.total /\ g.start = f.start /\ g.write = f.write
      /\ g.wpos = f.wpos /\ g.read = r /\ g.rpos = r
  <2> HIDE DEF r, a, to
  <2> QED
    BY <1>1, <1>2 DEF At, File
<1>7. r % f.size = r
  <2> HIDE DEF r
  <2> QED
    BY <1>2, <1>4, Inside
<1>8. Early(g, FALSE) /\ Follows(g, FALSE)
  <2>1. f.total < f.size => f.start = 0 /\ f.wpos = f.total
    BY DEF Steady, Early
  <2>2. f.wpos % f.size = f.write
    BY DEF Steady, Follows
  <2> HIDE DEF g, r
  <2> QED
    BY <1>6, <1>7, <2>1, <2>2 DEF Early, Follows
<1> QED
  BY Zenon, <1>8 DEF Steady

LEMMA ResizedSteady ==
  ASSUME NEW f, Ring(f), NEW l, Steady(f, l), f.total < f.size,
         NEW size \in Nat \ {0}, f.total < size
  PROVE  Steady([f EXCEPT !.size = size], l)
<1>1. ~l /\ f.start = 0 /\ f.wpos = f.total /\ f.rpos = f.read
  BY DEF Steady, Early
<1>2. f.write = f.total /\ f.read + f.avail = f.total
  BY <1>1, EarlyFacts
<1>3. f.total \in 0..size - 1 /\ f.read \in 0..size - 1
  BY <1>2, RingFacts
<1>4. f.total % size = f.total /\ f.read % size = f.read
  BY <1>3, Inside
<1>5. f \in File
  BY RingFacts
<1> QED
  BY <1>1, <1>2, <1>4, <1>5 DEF Steady, Early, Follows, File

(* The recorder: a write that is split at the end of the ring puts the file  *)
(* offset at its position; one that ends there leaves it a turn ahead.       *)
LEMMA WrittenSteady ==
  ASSUME NEW f, Ring(f), NEW l \in BOOLEAN, Steady(f, l),
         NEW n \in 0..f.size, NEW m \in 0..n
  PROVE  Steady(Written(f, n, m), l \/ m > f.size - f.avail)
<1> DEFINE g == Written(f, n, m)
           S == f.size
           split == Split(f, f.write, n)
           w == IF split = 0 \/ m < split THEN f.wpos + m ELSE m - split
           p == (f.write + m) % S
<1>1. /\ S \in Nat \ {0} /\ f.write \in 0..S - 1 /\ f.wpos \in Int /\ f.rpos \in Nat
      /\ f.total \in 0..S /\ f.avail \in 0..f.total /\ m \in 0..S /\ m <= n /\ n <= S
      /\ f.wpos % S = f.write /\ (~l => f.rpos % S = f.read) /\ f \in File
  BY RingFacts DEF Steady, Follows
<1>2. /\ g.size = S /\ g.wpos = w /\ g.write = p /\ g.rpos = f.rpos
      /\ g.read = IF m > S - f.avail THEN p ELSE f.read
      /\ g.start = IF m > S - f.total THEN p ELSE f.start
      /\ g.total = Least(f.total + m, S)
  BY <1>1 DEF Written, File
<1>3. p = IF f.write + m < S THEN f.write + m ELSE f.write + m - S
  <2> HIDE DEF S
  <2> QED
    BY <1>1, Turn
<1>4. split = IF f.write + n > S THEN S - f.write ELSE 0
  BY DEF Split
<1>5. w % S = p
  <2>1. CASE split = 0 \/ m < split
    <3>1. (f.wpos + m) % S = IF (f.wpos % S) + m < S THEN (f.wpos % S) + m ELSE (f.wpos % S) + m - S
      <4> HIDE DEF S
      <4> QED
        BY <1>1, Moved
    <3>2. w = f.wpos + m
      BY <2>1
    <3> HIDE DEF w, p, S
    <3> QED
      BY <1>1, <1>3, <3>1, <3>2
  <2>2. CASE ~(split = 0 \/ m < split)
    <3>1. w = m - split
      BY <2>2
    <3>2. split = S - f.write /\ m >= split
      BY <1>1, <1>4, <2>2
    <3>3. m - split = p /\ p \in 0..S - 1
      <4> HIDE DEF split, p, S
      <4> QED
        BY <1>1, <1>3, <3>2
    <3>4. p % S = p
      <4> HIDE DEF p, S
      <4> QED
        BY <1>1, <3>3, Inside
    <3> QED
      BY <3>1, <3>3, <3>4
  <2> QED
    BY <2>1, <2>2
<1>6. Follows(g, l \/ m > S - f.avail)
  <2>1. g.wpos % g.size = g.write
    BY <1>2, <1>5
  <2>2. ~(l \/ m > S - f.avail) => g.rpos % g.size = g.read
    <3> HIDE DEF g, S
    <3> QED
      BY <1>1, <1>2
  <2> HIDE DEF g
  <2> QED
    BY <2>1, <2>2 DEF Follows
<1>7. Early(g, l \/ m > S - f.avail)
  <2> SUFFICES ASSUME g.total < g.size
               PROVE  /\ ~(l \/ m > S - f.avail) /\ g.start = 0
                      /\ g.wpos = g.total /\ g.rpos = g.read
    BY DEF Early
  <2>1. f.total + m < S
    <3> HIDE DEF g, S
    <3> QED
      BY <1>1, <1>2 DEF Least
  <2>2. ~l /\ f.start = 0 /\ f.wpos = f.total /\ f.rpos = f.read
    BY <1>1, <2>1 DEF Steady, Early
  <2>3. f.write = f.total
    BY <1>1, <2>1, <2>2, EarlyFacts
  <2>4. ~(m > S - f.avail) /\ ~(m > S - f.total) /\ g.total = f.total + m
    <3> HIDE DEF g, S
    <3> QED
      BY <1>1, <1>2, <2>1 DEF Least
  <2>5. w = f.wpos + m
    <3>1. split = 0 \/ m < split
      <4> HIDE DEF S
      <4> QED
        BY <1>1, <1>4, <2>1, <2>3
    <3> QED
      BY <3>1
  <2> HIDE DEF g, w, S, p
  <2> QED
    BY <1>2, <2>2, <2>4, <2>5
<1> QED
  BY <1>6, <1>7 DEF Steady

(* The player: its position and its file offset take the same steps.         *)
LEMMA PlayedSteady ==
  ASSUME NEW f, Ring(f), NEW l, Steady(f, l), NEW n \in Nat
  PROVE  Steady(Played(f, n), l)
<1> DEFINE todo  == Least(n, f.avail)
           split == Split(f, f.read, todo)
           got   == Got(f, f.rpos, IF split > 0 THEN split ELSE todo)
           rest  == Got(f, 0, todo - split)
           S == f.size
           g == Played(f, n)
<1>1. /\ S \in Nat \ {0} /\ f.rpos \in Nat /\ f.read \in 0..S - 1
      /\ f.total \in 0..S /\ f.avail \in 0..f.total /\ f \in File /\ f.loop
      /\ (~l => f.rpos % S = f.read) /\ f.wpos % S = f.write
  BY RingFacts DEF Steady, Follows
<1>2. todo \in 0..f.avail /\ todo \in 0..n
  BY <1>1 DEF Least
<1>3. split = IF f.read + todo > S THEN S - f.read ELSE 0
  BY DEF Split
<1>4. split \in 0..todo
  BY <1>1, <1>2, <1>3
<1>5. got \in 0..(IF split > 0 THEN split ELSE todo) /\ rest \in 0..todo - split
  <2> HIDE DEF todo, split
  <2>1. (IF split > 0 THEN split ELSE todo) \in Nat /\ todo - split \in Nat
    BY <1>1, <1>2, <1>4
  <2> QED
    BY <1>1, <2>1, GotBounds
<1>6. f.total < S => /\ ~l /\ f.start = 0 /\ f.wpos = f.total /\ f.rpos = f.read
                     /\ f.read + f.avail = f.total /\ split = 0
  <2> SUFFICES ASSUME f.total < S
               PROVE  /\ ~l /\ f.start = 0 /\ f.wpos = f.total /\ f.rpos = f.read
                      /\ f.read + f.avail = f.total /\ split = 0
    OBVIOUS
  <2>1. ~l /\ f.start = 0 /\ f.wpos = f.total /\ f.rpos = f.read
    BY DEF Steady, Early
  <2>2. f.read + f.avail = f.total
    BY <2>1, EarlyFacts
  <2>3. split = 0
    <3> HIDE DEF todo, S
    <3> QED
      BY <1>1, <1>2, <1>3, <2>2
  <2> QED
    BY <2>1, <2>2, <2>3
<1>7. ASSUME NEW p \in Int, NEW q \in Nat, NEW a \in Int, g = At(f, p, q, a),
             ~l => q % S = p, f.total < S => q = p
      PROVE  Steady(g, l)
  <2>1. g.size = S /\ g.total = f.total /\ g.start = f.start /\ g.write = f.write
        /\ g.wpos = f.wpos /\ g.read = p /\ g.rpos = q
    <3> HIDE DEF g
    <3> QED
      BY <1>1, <1>7 DEF At, File
  <2>2. Early(g, l)
    <3> HIDE DEF g, S
    <3> QED
      BY <1>6, <1>7, <2>1 DEF Early
  <2>3. Follows(g, l)
    <3> HIDE DEF g, S
    <3> QED
      BY <1>1, <1>7, <2>1 DEF Follows
  <2> QED
    BY <2>2, <2>3 DEF Steady
<1>8. CASE split = 0
  <2> DEFINE p == (f.read + got) % S
             q == f.rpos + got
             a == f.avail - got
  <2>1. g = At(f, p, q, a)
    BY Zenon, <1>1, <1>8 DEF Played, At
  <2>2. got \in 0..todo /\ got \in 0..S
    BY <1>1, <1>2, <1>5, <1>8
  <2>3. p = IF f.read + got < S THEN f.read + got ELSE f.read + got - S
    <3> HIDE DEF got, S
    <3> QED
      BY <1>1, <2>2, Turn
  <2>4. q % S = IF (f.rpos % S) + got < S THEN (f.rpos % S) + got ELSE (f.rpos % S) + got - S
    <3>1. f.rpos \in Int
      BY <1>1
    <3> HIDE DEF got, S
    <3> QED
      BY <1>1, <2>2, <3>1, Moved
  <2>5. f.total < S => q = p
    <3> HIDE DEF got, S, p, todo
    <3> QED
      BY <1>1, <1>2, <1>6, <2>2, <2>3
  <2>6. ~l => q % S = p
    <3> HIDE DEF p, q, got, S
    <3> QED
      BY <1>1, <2>3, <2>4
  <2>7. p \in Int /\ q \in Nat /\ a \in Int
    <3> HIDE DEF p, got, S
    <3> QED
      BY <1>1, <2>2, <2>3
  <2>8. Steady(g, l)
    <3> HIDE DEF p, q, a, S, g
    <3> QED
      BY <1>7, <2>1, <2>5, <2>6, <2>7
  <2> QED
    BY Zenon, <2>8
<1>9. CASE split > 0 /\ got < split
  <2> DEFINE p == f.read + got
             q == f.rpos + got
             a == f.avail - got
  <2>1. split # 0 /\ got < split
    BY <1>4, <1>9
  <2>2. g = At(f, p, q, a)
    BY Zenon, <1>1, <2>1 DEF Played, At
  <2>3. got \in 0..S /\ f.read + got < S
    BY <1>1, <1>2, <1>3, <1>5, <1>9
  <2>4. q % S = IF (f.rpos % S) + got < S THEN (f.rpos % S) + got ELSE (f.rpos % S) + got - S
    <3>1. f.rpos \in Int
      BY <1>1
    <3> HIDE DEF got, S
    <3> QED
      BY <1>1, <2>3, <3>1, Moved
  <2>5. ~l => q % S = p
    <3> HIDE DEF q, got, S
    <3> QED
      BY <1>1, <2>3, <2>4
  <2>6. p \in Int /\ q \in Nat /\ a \in Int
    <3> HIDE DEF got, S
    <3> QED
      BY <1>1, <2>3
  <2>7. f.total < S => q = p
    BY <1>6, <2>1
  <2>8. Steady(g, l)
    <3> HIDE DEF p, q, a, S, g
    <3> QED
      BY <1>7, <2>2, <2>5, <2>6, <2>7
  <2> QED
    BY Zenon, <2>8
<1>10. CASE split > 0 /\ got = split
  <2> DEFINE p == rest % S
             a == IF rest > 0 THEN f.avail - split - rest ELSE f.avail
  <2>1. split # 0 /\ ~(got < split)
    BY <1>4, <1>10
  <2>2. g = At(f, p, rest, a)
    BY Zenon, <1>1, <2>1 DEF Played, At
  <2>3. p \in Int /\ rest \in Nat /\ a \in Int
    <3>1. rest \in Nat /\ a \in Int
      BY <1>1, <1>2, <1>4, <1>5
    <3>2. p \in 0..S - 1
      <4>1. rest \in Int
        BY <3>1
      <4> HIDE DEF rest, S
      <4> QED
        BY <1>1, <4>1, InRing
    <3> QED
      BY <1>1, <3>1, <3>2
  <2>4. f.total < S => rest = p
    BY <1>6, <2>1
  <2>5. rest % S = p
    OBVIOUS
  <2>6. Steady(g, l)
    <3> HIDE DEF p, a, S, g, rest
    <3> QED
      BY <1>7, <2>2, <2>3, <2>4, <2>5
  <2> QED
    BY Zenon, <2>6
<1> QED
  BY <1>4, <1>5, <1>8, <1>9, <1>10

--------------------------------------------------------------------------------
(* The invariant of the player.  A ring whose rate is known is not empty, so *)
(* that seeking to an end of it finds a unit; until then nothing has been    *)
(* written over, or the ring has been filled once.  The thread and the       *)
(* recorder's call in progress have an open file.                            *)
RingInv ==
  file # None /\ file.loop =>
    /\ Ring(file)
    /\ IF rate THEN file.total > 0
       ELSE file.size = FirstSize /\ (file.total < FirstSize => file.start = 0)
FileInv == file # None => file \in File /\ (file.loop => file.size \in {FirstSize, RingSize})
Open ==
  /\ pc \notin {"none", "done"} => file # None
  /\ devLock = "fill" => file # None /\ file.loop
IInv == TypeOK /\ RingInv /\ Open

(* All the other variables' types.                                           *)
RestOK ==
  /\ mode \in BOOLEAN /\ rate \in BOOLEAN /\ running \in BOOLEAN
  /\ fast \in BOOLEAN /\ feeding \in BOOLEAN /\ lapped \in BOOLEAN
  /\ devLock \in {"free", "fill", "stop", "join"}
  /\ filling \in 0..Chunk
  /\ cmd \in Cmds /\ cur \in Cmds /\ last \in Cmds \cup {None}
  /\ pc \in {"none", "take", "act", "move", "inform", "wait", "asleep", "done"}
  /\ state \in {"stop", "play", "pause", "fffb", "searchok"}
  /\ sleep \in {"no", "nap", "ever"}
  /\ left \in 0..BufSize
  /\ fills \in 0..MaxFills /\ cmds \in 0..MaxCmds /\ starts \in 0..1

LEMMA Parts == TypeOK <=> FileInv /\ RestOK
  BY Zenon DEF TypeOK, FileInv, RestOK

LEMMA Sizes ==
  /\ FirstSize \in Nat \ {0} /\ RingSize \in Nat \ {0}
  /\ Chunk \in Nat \ {0} /\ BufSize \in Nat \ {0}
  /\ MaxFills \in Nat /\ MaxCmds \in Nat
  /\ Chunk <= FirstSize /\ Chunk <= RingSize /\ None \notin File
  BY TimeshiftAssumption DEF TimeshiftAssumption

(* What every seek of the thread keeps.                                      *)
LEMMA SeekKeeps ==
  ASSUME FileInv, RingInv, file # None, NEW offset \in Offsets,
         file' = Sought(file, offset), rate' = rate
  PROVE  FileInv' /\ RingInv' /\ file' # None /\ file'.loop = file.loop
<1>1. file \in File
  BY DEF FileInv
<1>2. offset \in Int /\ (~rate => offset = 0)
  BY <1>1 DEF Offsets, File
<1>3. file' \in File /\ file'.loop = file.loop /\ file'.size = file.size
  BY <1>1, <1>2, SoughtFile
<1>4. FileInv' /\ file' # None
  BY <1>3, Sizes DEF FileInv
<1>5. CASE file.loop
  <2>1. Ring(file) /\ (file.total > 0 \/ offset = 0)
    BY <1>2, <1>5 DEF RingInv
  <2>2. Ring(file') /\ file'.total = file.total /\ file'.start = file.start
    BY <1>2, <2>1, SoughtRing
  <2> QED
    BY <1>3, <1>4, <1>5, <2>2 DEF RingInv
<1>6. CASE ~file.loop
  BY <1>3, <1>4, <1>6 DEF RingInv
<1> QED
  BY <1>3, <1>4, <1>5, <1>6

LEMMA InitOK == Init => IInv
<1> SUFFICES ASSUME Init PROVE IInv
  OBVIOUS
<1>1. FileInv /\ RingInv /\ Open
  BY DEF Init, FileInv, RingInv, Open
<1>2. RestOK
  <2>1. /\ mode \in BOOLEAN /\ rate \in BOOLEAN /\ running \in BOOLEAN
        /\ fast \in BOOLEAN /\ feeding \in BOOLEAN /\ lapped \in BOOLEAN
    BY Zenon DEF Init
  <2>2. /\ filling \in 0..Chunk /\ left \in 0..BufSize
        /\ fills \in 0..MaxFills /\ cmds \in 0..MaxCmds /\ starts \in 0..1
    BY Sizes DEF Init
  <2>3. /\ devLock \in {"free", "fill", "stop", "join"}
        /\ cmd \in Cmds /\ cur \in Cmds /\ last \in Cmds \cup {None}
        /\ pc \in {"none", "take", "act", "move", "inform", "wait", "asleep", "done"}
        /\ state \in {"stop", "play", "pause", "fffb", "searchok"}
        /\ sleep \in {"no", "nap", "ever"}
    BY Zenon DEF Init, Cmds
  <2> QED
    BY Zenon, <2>1, <2>2, <2>3 DEF RestOK
<1> QED
  BY <1>1, <1>2, Parts DEF IInv

(* A step of the thread that leaves the file alone, or seeks in it.          *)
FileKept == FileInv' /\ RingInv' /\ (file # None => file' # None /\ file'.loop = file.loop)

LEMMA Unchanged ==
  ASSUME FileInv, RingInv, UNCHANGED <<file, rate>>
  PROVE  FileKept
  BY DEF FileKept, FileInv, RingInv

LEMMA SeekKept ==
  ASSUME FileInv, RingInv, file # None, rate' = rate, NEW offset \in Offsets, Seek(offset)
  PROVE  FileKept /\ lapped' \in BOOLEAN
  BY SeekKeeps DEF FileKept, Seek

LEMMA WindKept ==
  ASSUME FileInv, RingInv, RestOK, file # None, rate' = rate, Wind
  PROVE  FileKept /\ lapped' \in BOOLEAN /\ left' \in 0..BufSize /\ cmd' \in Cmds
<1>1. CASE fast
  <2>1. PICK offset \in Offsets : Seek(offset) /\ left' = 0
                                 /\ cmd' = IF Outside(file, offset) THEN "start" ELSE cmd
    BY <1>1 DEF Wind
  <2>2. FileKept /\ lapped' \in BOOLEAN
    BY <2>1, SeekKept
  <2> QED
    BY <2>1, <2>2, Sizes DEF RestOK, Cmds
<1>2. CASE ~fast
  BY <1>2, Unchanged DEF Wind, RestOK, Cmds
<1> QED
  BY <1>1, <1>2

(* With the file kept, what is left of the invariant follows.                *)
LEMMA Kept_IInv ==
  ASSUME Open, FileKept, RestOK',
         pc' \notin {"none", "done"} => file # None,
         devLock' = "fill" => devLock = "fill"
  PROVE  IInv'
<1>1. Open'
  BY DEF Open, FileKept
<1> QED
  BY <1>1, Parts, PTL DEF IInv, FileKept

(* The steps of the player thread.                                           *)
LEMMA TakeStep ==
  ASSUME IInv, Take \/ Ignore \/ PlaybackEnd \/ Wait \/ SpuriousWake
  PROVE  IInv'
<1>1. FileInv /\ RingInv /\ Open /\ RestOK
  BY Parts DEF IInv
<1>2. FileKept
  BY <1>1, Unchanged DEF Take, Ignore, PlaybackEnd, Wait, SpuriousWake, app, vars
<1>3. RestOK'
  BY <1>1 DEF Take, Ignore, PlaybackEnd, Wait, SpuriousWake, app, player, counters, RestOK
<1>4. file # None /\ devLock' = devLock
  BY <1>1 DEF Open, Take, Ignore, PlaybackEnd, Wait, SpuriousWake, app
<1> QED
  BY <1>1, <1>2, <1>3, <1>4, Kept_IInv

LEMMA ActStep ==
  ASSUME IInv, ActStart \/ ActPause \/ ActResume \/ ActWind \/ ActSeek
  PROVE  IInv'
<1>1. FileInv /\ RingInv /\ Open /\ RestOK
  BY Parts DEF IInv
<1>2. \E c \in Cmds : Acting(c)
  BY DEF ActStart, ActPause, ActResume, ActWind, ActSeek, Cmds
<1>3. /\ pc = "act" /\ pc' = "move" /\ last' \in Cmds
      /\ devLock' = devLock /\ rate' = rate
      /\ UNCHANGED <<app, fast, cur, counters>>
  BY <1>2 DEF Acting, app
<1>4. file # None
  BY <1>1, <1>3 DEF Open
<1>5. FileKept /\ lapped' \in BOOLEAN /\ left' \in 0..BufSize /\ cmd' \in Cmds
  <2>1. CASE Unmoved
    BY <1>1, <1>3, <2>1, Unchanged DEF Unmoved, RestOK
  <2>2. CASE UNCHANGED <<file, cmd, left, lapped>>
    BY <1>1, <1>3, <2>2, Unchanged DEF RestOK
  <2>3. CASE Wind
    BY <1>1, <1>3, <1>4, <2>3, WindKept
  <2>4. CASE /\ \E offset \in Offsets : Seek(offset)
             /\ left' = 0 /\ cmd' \in {cmd, "start"}
    <3>1. left' \in 0..BufSize /\ cmd' \in Cmds
      BY <1>1, <2>4, Sizes DEF RestOK, Cmds
    <3> QED
      BY <1>1, <1>3, <1>4, <2>4, <3>1, SeekKept
  <2> QED
    BY <2>1, <2>2, <2>3, <2>4
    DEF ActStart, ActPause, ActResume, ActWind, ActSeek, Unmoved
<1>6. /\ feeding' \in BOOLEAN /\ sleep' \in {"no", "nap", "ever"}
      /\ state' \in {"stop", "play", "pause", "fffb", "searchok"}
  BY <1>1 DEF ActStart, ActPause, ActResume, ActWind, ActSeek, Unmoved, RestOK
<1>7. RestOK'
  BY <1>1, <1>3, <1>5, <1>6 DEF RestOK, app, counters
<1> QED
  BY <1>1, <1>3, <1>4, <1>5, <1>7, Kept_IInv

LEMMA MoveStep ==
  ASSUME IInv, Move
  PROVE  IInv'
<1>1. FileInv /\ RingInv /\ Open /\ RestOK
  BY Parts DEF IInv
<1> DEFINE n == BufSize - left
           played == Played(file, n)
<1>2. file # None /\ file \in File /\ n \in Nat /\ left \in 0..BufSize
  BY <1>1, Sizes DEF Open, Move, FileInv, RestOK
<1>3. file' = played /\ UNCHANGED <<app, cmd, fast, cur, last, state, feeding, sleep, lapped, counters>>
      /\ pc' = "inform" /\ pc = "move"
  BY DEF Move
<1>4. ASSUME file.loop PROVE FileKept /\ left' \in 0..BufSize
  <2>1. Ring(file)
    BY <1>1, <1>2, <1>4 DEF RingInv
  <2>2. PlayedOn(played, file, n)
    BY <1>2, <2>1, PlayedRing
  <2>3. /\ Ring(file') /\ file' \in File /\ file'.loop /\ file'.size = file.size
        /\ file'.total = file.total /\ file'.start = file.start
    <3> HIDE DEF played
    <3> QED
      BY <1>3, <2>2 DEF PlayedOn, Ring
  <2>4. FileKept
    BY <1>1, <1>2, <1>3, <1>4, <2>3, Sizes DEF FileKept, FileInv, RingInv, app
  <2>5. left' \in 0..BufSize
    <3>1. file.avail - played.avail \in 0..n
      BY <2>2 DEF PlayedOn
    <3>2. left' \in IF feeding THEN 0..left + (file.avail - played.avail)
                    ELSE {left + (file.avail - played.avail)}
      BY <1>4 DEF Move
    <3> HIDE DEF played
    <3> QED
      BY <1>2, <3>1, <3>2, Sizes
  <2> QED
    BY <2>4, <2>5
<1>5. ASSUME ~file.loop PROVE FileKept /\ left' \in 0..BufSize
  <2>1. played \in File /\ ~played.loop /\ played.rpos - file.rpos \in 0..n
    BY <1>2, <1>5, PlayedFile
  <2>2. FileKept
    <3> HIDE DEF played
    <3>1. file' \in File /\ ~file'.loop
      BY <1>3, <2>1
    <3>2. file'.loop = FALSE /\ file.loop = FALSE
      BY <1>2, <1>5, <3>1 DEF File
    <3> QED
      BY <1>2, <3>1, <3>2, Sizes DEF FileKept, FileInv, RingInv
  <2>3. left' \in 0..BufSize
    <3>1. left' \in IF feeding THEN 0..left + (played.rpos - file.rpos)
                    ELSE {left + (played.rpos - file.rpos)}
      BY <1>5 DEF Move
    <3> HIDE DEF played
    <3> QED
      BY <1>2, <2>1, <3>1, Sizes
  <2> QED
    BY <2>2, <2>3
<1>6. FileKept /\ left' \in 0..BufSize
  BY <1>4, <1>5
<1>7. RestOK'
  BY <1>1, <1>3, <1>6 DEF RestOK, app, counters
<1> QED
  BY <1>1, <1>2, <1>3, <1>6, <1>7, Kept_IInv DEF app

LEMMA InformStep ==
  ASSUME IInv, InformWinding \/ Inform
  PROVE  IInv'
<1>1. FileInv /\ RingInv /\ Open /\ RestOK
  BY Parts DEF IInv
<1>2. /\ pc = "inform" /\ pc' = "wait" /\ sleep' \in {"no", "nap", "ever"}
      /\ UNCHANGED <<app, fast, cur, last, state, feeding, counters>>
  BY <1>1 DEF InformWinding, Inform, RestOK
<1>3. file # None /\ rate' = rate /\ devLock' = devLock
  BY <1>1, <1>2 DEF Open, app
<1>4. FileKept /\ lapped' \in BOOLEAN /\ left' \in 0..BufSize /\ cmd' \in Cmds
  <2>1. CASE UNCHANGED <<file, cmd, left, lapped>>
    BY <1>1, <1>3, <2>1, Unchanged DEF RestOK
  <2>2. CASE Wind
    BY <1>1, <1>3, <2>2, WindKept
  <2>3. CASE rate /\ Seek(0) /\ left' = 0 /\ cmd' = cmd
    <3>1. 0 \in Offsets
      BY <1>1, <1>3, <2>3 DEF Offsets, FileInv, File
    <3>2. left' \in 0..BufSize /\ cmd' \in Cmds
      BY <1>1, <2>3, Sizes DEF RestOK
    <3> QED
      BY <1>1, <1>3, <2>3, <3>1, <3>2, SeekKept
  <2> QED
    BY <2>1, <2>2, <2>3 DEF InformWinding, Inform
<1>5. RestOK'
  BY <1>1, <1>2, <1>4 DEF RestOK, app, counters
<1> QED
  BY <1>1, <1>2, <1>3, <1>4, <1>5, Kept_IInv

(* The steps of the API.                                                     *)
LEMMA StartStep ==
  ASSUME IInv, Start
  PROVE  IInv'
<1>1. FileInv /\ RingInv /\ Open /\ RestOK
  BY Parts DEF IInv
<1>2. RestOK'
  <2>1. /\ rate' \in BOOLEAN /\ running' \in BOOLEAN
        /\ pc' \in {"none", "take", "act", "move", "inform", "wait", "asleep", "done"}
    <3>1. rate \in BOOLEAN /\ running \in BOOLEAN
          /\ pc \in {"none", "take", "act", "move", "inform", "wait", "asleep", "done"}
      BY <1>1 DEF RestOK
    <3>2. \/ rate' = rate \/ \E loop \in Loops : rate' = ~loop
      BY DEF Start
    <3>3. \/ running' = TRUE /\ pc' = "take"
          \/ running' = running /\ pc' = pc
      BY DEF Start
    <3> QED
      BY <3>1, <3>2, <3>3
  <2> QED
    BY <1>1, <2>1 DEF Start, RestOK, player
<1>3. CASE UNCHANGED <<file, rate, running, pc>>
  <2>1. FileKept
    BY <1>1, <1>3, Unchanged
  <2> QED
    BY <1>1, <1>2, <1>3, <2>1, Kept_IInv DEF Start, Open
<1>4. CASE \E loop \in Loops : /\ file' = Opened(loop, IF loop THEN FirstSize ELSE RingSize)
                              /\ rate' = ~loop
  <2>1. PICK loop \in Loops : /\ file' = Opened(loop, IF loop THEN FirstSize ELSE RingSize)
                              /\ rate' = ~loop
    BY <1>4
  <2>2. loop \in BOOLEAN
    BY TimeshiftAssumption DEF TimeshiftAssumption
  <2>3. devLock' # "fill"
    BY DEF Start
  <2>4. CASE loop
    <3>1. file' = Opened(TRUE, FirstSize) /\ rate' = FALSE
      BY <2>1, <2>4
    <3>2. Ring(file') /\ file'.size = FirstSize /\ file'.start = 0
      BY <3>1, OpenedRing, Sizes DEF Opened
    <3>3. FileInv' /\ RingInv' /\ file' # None
      BY <3>1, <3>2, Sizes DEF FileInv, RingInv, Ring
    <3>4. Open'
      BY <2>3, <3>3 DEF Open
    <3> QED
      BY <1>2, <3>3, <3>4, Parts, PTL DEF IInv
  <2>5. CASE ~loop
    <3>1. file' = Opened(FALSE, RingSize)
      BY <2>1, <2>2, <2>5
    <3>2. file' \in File /\ ~file'.loop
      BY <3>1, OpenedRing, Sizes
    <3>3. FileInv' /\ RingInv' /\ file' # None
      BY <3>2, Sizes DEF FileInv, RingInv
    <3>4. Open'
      BY <2>3, <3>3 DEF Open
    <3> QED
      BY <1>2, <3>3, <3>4, Parts, PTL DEF IInv
  <2> QED
    BY <2>2, <2>4, <2>5
<1> QED
  BY <1>3, <1>4 DEF Start

LEMMA FillBeginStep ==
  ASSUME IInv, FillBegin
  PROVE  IInv'
<1>1. FileInv /\ RingInv /\ Open /\ RestOK
  BY Parts DEF IInv
<1>2. RestOK'
  <2>1. /\ filling' \in 0..Chunk /\ fills' \in 0..MaxFills
        /\ pc' \in {"none", "take", "act", "move", "inform", "wait", "asleep", "done"}
    BY <1>1, Sizes DEF FillBegin, RestOK, Signal
  <2>2. rate' \in BOOLEAN
    BY <1>1 DEF FillBegin, RestOK
  <2> QED
    BY <1>1, <2>1, <2>2 DEF FillBegin, RestOK, player
<1>3. file # None /\ file.loop /\ Ring(file) /\ file \in File
  BY <1>1 DEF FillBegin, RingInv, FileInv
<1>4. FileInv' /\ RingInv' /\ file' # None /\ file'.loop
  <2>1. CASE UNCHANGED <<rate, file, pc>>
    BY <1>1, <1>3, <2>1 DEF FileInv, RingInv
  <2>2. CASE /\ ~rate /\ file.total \in 1..Least(FirstSize, RingSize) - 1
             /\ rate' = TRUE /\ file' = [file EXCEPT !.size = RingSize]
    <3>1. file.total \in Nat /\ file.total > 0 /\ file.total < FirstSize /\ file.total < RingSize
      BY <2>2, Sizes DEF Least
    <3>2. file.size = FirstSize /\ file.start = 0
      BY <1>1, <1>3, <2>2, <3>1 DEF RingInv
    <3>3. Ring(file') /\ file'.size = RingSize /\ file'.total = file.total
      BY <1>3, <2>2, <3>1, <3>2, Sizes, ResizedRing
    <3> QED
      BY <2>2, <3>1, <3>3, Sizes DEF FileInv, RingInv, Ring
  <2> QED
    BY <2>1, <2>2 DEF FillBegin
<1>5. Open'
  BY <1>4 DEF Open
<1> QED
  BY <1>2, <1>4, <1>5, Parts, PTL DEF IInv

LEMMA FillEndStep ==
  ASSUME IInv, FillEnd
  PROVE  IInv'
<1>1. FileInv /\ RingInv /\ Open /\ RestOK
  BY Parts DEF IInv
<1>2. file # None /\ file.loop /\ file \in File /\ Ring(file)
      /\ file.size \in {FirstSize, RingSize}
  BY <1>1 DEF FillEnd, Open, FileInv, RingInv
<1>3. PICK m \in 0..filling : /\ file' = Written(file, filling, m)
                              /\ lapped' = (lapped \/ m > file.size - file.avail)
  BY <1>1, Sizes DEF FillEnd, RestOK
<1>4. filling \in 0..file.size
  BY <1>1, <1>2, Sizes DEF RestOK
<1>5. /\ Ring(file') /\ file'.size = file.size
      /\ file'.total = Least(file.total + m, file.size)
      /\ file.total + m <= file.size => file'.start = file.start
  BY <1>2, <1>3, <1>4, WrittenRing
<1>6. file.total \in 0..file.size /\ file.size \in Nat \ {0}
  BY <1>2 DEF Ring, Kept, File
<1>7. FileInv' /\ RingInv' /\ file' # None /\ file'.loop
  <2>1. file' \in File /\ file'.loop
    BY <1>5 DEF Ring
  <2>2. rate' = rate
    BY DEF FillEnd
  <2>3. CASE rate
    <3>1. file.total > 0
      BY <1>1, <1>2, <2>3 DEF RingInv
    <3>2. file'.total > 0
      BY <1>3, <1>5, <1>6, <3>1 DEF Least
    <3> QED
      BY <1>2, <1>5, <2>1, <2>2, <2>3, <3>2, Sizes DEF FileInv, RingInv
  <2>4. CASE ~rate
    <3>1. file.size = FirstSize /\ (file.total < FirstSize => file.start = 0)
      BY <1>1, <1>2, <2>4 DEF RingInv
    <3>2. file'.total < FirstSize => file.total < FirstSize /\ file.total + m <= file.size
      BY <1>3, <1>5, <1>6, <3>1 DEF Least
    <3> QED
      BY <1>2, <1>5, <2>1, <2>2, <2>4, <3>1, <3>2, Sizes DEF FileInv, RingInv
  <2> QED
    BY <2>3, <2>4
<1>8. lapped' \in BOOLEAN
  BY <1>3
<1>9. RestOK'
  <2>1. filling' \in 0..Chunk
    BY Sizes DEF FillEnd
  <2> QED
    BY <1>1, <1>8, <2>1 DEF FillEnd, RestOK, player, counters
<1>10. Open'
  BY <1>1, <1>7 DEF FillEnd, Open
<1> QED
  BY <1>7, <1>9, <1>10, Parts, PTL DEF IInv

LEMMA CallStep ==
  ASSUME IInv, Command \/ StopBegin \/ Broadcast \/ StopEnd
  PROVE  IInv'
<1>1. FileInv /\ RingInv /\ Open /\ RestOK
  BY Parts DEF IInv
<1>2. CASE Command \/ StopBegin \/ Broadcast
  <2>1. FileKept /\ devLock' # "fill"
    BY <1>1, <1>2, Unchanged DEF Command, StopBegin, Broadcast, app
  <2>2. pc' \notin {"none", "done"} => file # None
    BY <1>1, <1>2 DEF Command, StopBegin, Broadcast, Signal, Open
  <2>3. RestOK'
    <3>1. pc' \in {"none", "take", "act", "move", "inform", "wait", "asleep", "done"}
      BY <1>1, <1>2 DEF Command, StopBegin, Broadcast, Signal, RestOK
    <3>2. cmd' \in Cmds /\ fast' \in BOOLEAN /\ cmds' \in 0..MaxCmds
      BY <1>1, <1>2, Sizes DEF Command, StopBegin, Broadcast, RestOK, counters
    <3>3. /\ mode' \in BOOLEAN /\ devLock' \in {"free", "fill", "stop", "join"}
          /\ running' \in BOOLEAN
      BY <1>1, <1>2 DEF Command, StopBegin, Broadcast, RestOK, app
    <3>4. UNCHANGED <<rate, filling, player, lapped, fills, starts>>
      BY <1>2 DEF Command, StopBegin, Broadcast, app, counters
    <3> QED
      BY <1>1, <3>1, <3>2, <3>3, <3>4 DEF RestOK, player
  <2> QED
    BY <1>1, <2>1, <2>2, <2>3, Kept_IInv
<1>3. CASE StopEnd
  <2>1. FileInv' /\ RingInv' /\ Open'
    BY <1>3 DEF StopEnd, FileInv, RingInv, Open
  <2>2. RestOK'
    <3>1. /\ mode' \in BOOLEAN /\ devLock' \in {"free", "fill", "stop", "join"}
          /\ UNCHANGED <<rate, filling, running, cmd, fast, pc, lapped>>
          /\ UNCHANGED player /\ UNCHANGED counters
      BY <1>3 DEF StopEnd
    <3> QED
      BY <1>1, <3>1 DEF RestOK, player, counters
  <2> QED
    BY <2>1, <2>2, Parts, PTL DEF IInv
<1> QED
  BY <1>2, <1>3

LEMMA NextStep == IInv /\ [Next]_vars => IInv'
<1> SUFFICES ASSUME IInv, [Next]_vars PROVE IInv'
  OBVIOUS
<1>1. CASE UNCHANGED vars
  <2>1. FileInv /\ RingInv /\ Open /\ RestOK
    BY Parts DEF IInv
  <2>2. FileInv' /\ RingInv' /\ Open'
    BY <1>1, <2>1 DEF vars, app, FileInv, RingInv, Open
  <2>3. RestOK'
    BY <1>1, <2>1 DEF vars, app, player, counters, RestOK
  <2> QED
    BY <2>2, <2>3, Parts, PTL DEF IInv
<1>2. CASE Next
  BY <1>2, TakeStep, ActStep, MoveStep, InformStep, StartStep, FillBeginStep, FillEndStep,
     CallStep DEF Next, ThreadStep
<1> QED
  BY <1>1, <1>2

THEOREM Invariance == Spec => []IInv
  BY InitOK, NextStep, PTL DEF Spec

(* Type correctness of the timeshift player for every size of the ring and   *)
(* of the buffer; it includes that aml_timeshift_thread never reads beyond   *)
(* the end of its buffer, nor injects more than it holds.                    *)
THEOREM TypeCorrect == Spec => []TypeOK
<1>1. IInv => TypeOK
  BY DEF IInv
<1> QED
  BY <1>1, Invariance, PTL

(* Whatever is written, read and sought, with short writes and reads, and    *)
(* whenever the ring gets its size, the positions and counts of the ring     *)
(* agree.                                                                    *)
THEOREM RingStaysConsistent == Spec => []RingConsistent
<1>1. IInv => RingConsistent
  BY DEF IInv, RingInv, RingConsistent, Recording, Ring
<1> QED
  BY <1>1, Invariance, PTL

--------------------------------------------------------------------------------
(* The file offsets of the player and of the recorder.                       *)
StepInv ==
  /\ starts = 0 => file = None /\ ~lapped
  /\ file # None /\ file.loop => Steady(file, lapped)

LEMMA SeekSteady ==
  ASSUME IInv, StepInv, file # None, NEW offset \in Offsets, Seek(offset)
  PROVE  file' # None /\ ~lapped' /\ (file'.loop => Steady(file', lapped'))
<1>1. FileInv /\ RingInv
  BY Parts DEF IInv
<1>2. file \in File /\ offset \in Int /\ (~rate => offset = 0)
  BY <1>1 DEF FileInv, Offsets, File
<1>3. file' = Sought(file, offset) /\ lapped' = FALSE
  BY DEF Seek
<1>4. file' \in File /\ file'.loop = file.loop
  BY <1>2, <1>3, SoughtFile
<1>5. ASSUME file.loop PROVE Steady(file', lapped')
  <2>1. Ring(file) /\ (file.total > 0 \/ offset = 0) /\ Steady(file, lapped)
    BY <1>1, <1>2, <1>5 DEF RingInv, StepInv
  <2> QED
    BY <1>2, <1>3, <2>1, SoughtSteady
<1> QED
  BY <1>3, <1>4, <1>5, Sizes

(* The steps of the thread: it seeks, reads, or leaves the file alone.       *)
LEMMA ThreadSteady ==
  ASSUME IInv, StepInv, ThreadStep \/ SpuriousWake
  PROVE  StepInv'
<1>1. FileInv /\ RingInv /\ Open /\ RestOK
  BY Parts DEF IInv
<1>2. file # None /\ starts' = starts
  BY <1>1 DEF Open, ThreadStep, Take, Ignore, ActStart, ActPause, ActResume, ActWind, ActSeek,
     Acting, Move, InformWinding, Inform, PlaybackEnd, Wait, SpuriousWake, counters
<1>3. starts # 0
  BY <1>2 DEF StepInv
<1>4. CASE \E offset \in Offsets : Seek(offset)
  BY <1>2, <1>3, <1>4, SeekSteady DEF StepInv
<1>5. CASE UNCHANGED <<file, lapped>>
  BY <1>2, <1>3, <1>5 DEF StepInv
<1>6. CASE Move
  <2> DEFINE n == BufSize - left
             played == Played(file, n)
  <2>1. file \in File /\ n \in Nat /\ file' = played /\ lapped' = lapped
    BY <1>1, <1>2, <1>6, Sizes DEF FileInv, RestOK, Move
  <2>2. CASE file.loop
    <3>1. Ring(file) /\ Steady(file, lapped)
      BY <1>1, <1>2, <2>2 DEF RingInv, StepInv
    <3>2. Steady(played, lapped) /\ PlayedOn(played, file, n)
      BY <2>1, <3>1, PlayedSteady, PlayedRing
    <3>3. Steady(file', lapped')
      BY <2>1, <3>2
    <3> QED
      BY <1>2, <1>3, <3>3 DEF StepInv
  <2>3. CASE ~file.loop
    <3>1. ~played.loop
      BY <2>1, <2>3, PlayedFile
    <3>2. ~file'.loop
      BY <2>1, <3>1
    <3> QED
      BY <1>2, <1>3, <3>2 DEF StepInv
  <2> QED
    BY <2>2, <2>3
<1>7. Wind => (\E offset \in Offsets : Seek(offset)) \/ UNCHANGED <<file, lapped>>
  BY DEF Wind
<1>8. Inform => (\E offset \in Offsets : Seek(offset)) \/ UNCHANGED <<file, lapped>>
  <2>1. rate => 0 \in Offsets
    BY <1>1, <1>2 DEF Offsets, FileInv, File
  <2> QED
    BY <1>1, <2>1 DEF Inform, RestOK
<1> QED
  BY <1>4, <1>5, <1>6, <1>7, <1>8
  DEF ThreadStep, Take, Ignore, ActStart, ActPause, ActResume, ActWind, ActSeek, Unmoved,
      InformWinding, PlaybackEnd, Wait, SpuriousWake

LEMMA ApiSteady ==
  ASSUME IInv, StepInv,
         Start \/ FillBegin \/ FillEnd \/ Command \/ StopBegin \/ Broadcast \/ StopEnd
  PROVE  StepInv'
<1>1. FileInv /\ RingInv /\ Open /\ RestOK
  BY Parts DEF IInv
<1>2. CASE Command \/ StopBegin \/ Broadcast
  BY <1>2 DEF Command, StopBegin, Broadcast, counters, StepInv
<1>3. CASE StopEnd
  BY <1>3 DEF StopEnd, counters, StepInv
<1>4. CASE Start
  <2>1. starts' = 1 /\ lapped' = lapped /\ file = None /\ ~lapped
    BY <1>4 DEF Start, StepInv
  <2>2. CASE file' = file
    BY <2>1, <2>2 DEF StepInv
  <2>3. CASE \E loop \in Loops : file' = Opened(loop, IF loop THEN FirstSize ELSE RingSize)
    <3>1. PICK loop \in Loops : file' = Opened(loop, IF loop THEN FirstSize ELSE RingSize)
      BY <2>3
    <3>2. loop \in BOOLEAN
      BY TimeshiftAssumption DEF TimeshiftAssumption
    <3>3. CASE loop
      <4>1. file' = Opened(TRUE, FirstSize)
        BY <3>1, <3>3
      <4>2. Steady(file', FALSE)
        BY <4>1, OpenedSteady, Sizes
      <4>3. lapped' = FALSE
        BY <1>1, <2>1 DEF RestOK
      <4>4. Steady(file', lapped')
        BY Zenon, <4>2, <4>3
      <4>5. starts' # 0
        BY <2>1
      <4> QED
        BY Zenon, <4>4, <4>5 DEF StepInv
    <3>4. CASE ~loop
      <4>1. file' = Opened(FALSE, RingSize)
        BY <3>1, <3>2, <3>4
      <4>2. ~file'.loop
        BY <4>1, OpenedRing, Sizes
      <4> QED
        BY <2>1, <4>2 DEF StepInv
    <3> QED
      BY <3>2, <3>3, <3>4
  <2> QED
    BY <1>4, <2>2, <2>3 DEF Start
<1>5. CASE FillBegin
  <2>1. file # None /\ file.loop /\ Ring(file) /\ Steady(file, lapped) /\ starts # 0
        /\ lapped' = lapped /\ starts' = starts
    BY <1>1, <1>5 DEF FillBegin, RingInv, StepInv
  <2>2. CASE file' = file
    BY <2>1, <2>2 DEF StepInv
  <2>3. CASE /\ ~rate /\ file.total \in 1..Least(FirstSize, RingSize) - 1
             /\ file' = [file EXCEPT !.size = RingSize]
    <3>1. file.total \in Nat /\ file.total < FirstSize /\ file.total < RingSize
      BY <2>3, Sizes DEF Least
    <3>2. file.size = FirstSize
      BY <1>1, <2>1, <2>3 DEF RingInv
    <3>3. Steady(file', lapped')
      BY <2>1, <2>3, <3>1, <3>2, Sizes, ResizedSteady
    <3> QED
      BY <2>1, <3>3 DEF StepInv
  <2> QED
    BY <1>5, <2>2, <2>3 DEF FillBegin
<1>6. CASE FillEnd
  <2>1. file # None /\ file.loop /\ file \in File /\ Ring(file)
        /\ file.size \in {FirstSize, RingSize} /\ Steady(file, lapped) /\ starts # 0
    BY <1>1, <1>6 DEF FillEnd, Open, FileInv, RingInv, StepInv
  <2>2. PICK m \in 0..filling : /\ file' = Written(file, filling, m)
                                /\ lapped' = (lapped \/ m > file.size - file.avail)
    BY <1>1, <1>6, Sizes DEF FillEnd, RestOK
  <2>3. filling \in 0..file.size /\ lapped \in BOOLEAN
    BY <1>1, <2>1, Sizes DEF RestOK
  <2>4. Steady(Written(file, filling, m), lapped \/ m > file.size - file.avail)
    BY <2>1, <2>2, <2>3, WrittenSteady
  <2>5. Steady(file', lapped')
    BY <2>2, <2>4
  <2> QED
    BY <1>6, <2>1, <2>5 DEF FillEnd, counters, StepInv
<1> QED
  BY <1>2, <1>3, <1>4, <1>5, <1>6

(* A seek, a split read or a split write is never off the position by        *)
(* anything but full turns of the ring, as long as the recorder does not     *)
(* overtake the player, for every size of the ring and of the buffer.        *)
THEOREM FilesInStep == Spec => []InStep
<1>1. Init => StepInv
  BY DEF Init, StepInv
<1>2. IInv /\ StepInv /\ [Next]_vars => StepInv'
  <2> SUFFICES ASSUME IInv, StepInv, [Next]_vars PROVE StepInv'
    OBVIOUS
  <2>1. CASE UNCHANGED vars
    BY <2>1 DEF vars, counters, StepInv
  <2> QED
    BY <2>1, ThreadSteady, ApiSteady DEF Next
<1>3. StepInv => InStep
  BY DEF StepInv, InStep, Recording, Steady, Follows
<1> QED
  BY <1>1, <1>2, <1>3, Invariance, PTL DEF Spec
================================================================================
