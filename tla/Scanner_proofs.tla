---------------------------- MODULE Scanner_proofs ----------------------------
(****************************************************************************)
(* Proofs about Scanner for any frequencies, modes, programs and filters:   *)
(* every filter has one table, and a scanner that is gone has left none, nor *)
(* a handler or a callback that could still reach it; the scan of transport *)
(* streams goes on only when the frontend has answered, and ends once; what *)
(* is collected for a transport stream is its own, and whole when its event *)
(* is pending.  The invariants build on each other:                         *)
(*   IInv       types, filters, order of the agenda                          *)
(*   MovesInv   what leads on to another frequency                           *)
(*   OrderInv   which steps may come before which                            *)
(*   WaitsInv   only tables that are waited for are at work                  *)
(*   OwnInv     when the tables of a TS are received                         *)
(*   WholeInv   what was received when a table is complete                   *)
(****************************************************************************)
EXTENDS Scanner, SequenceTheorems, TLAPS

(* The agenda: the steps there are, with what they work on.                  *)
TableSteps == {"free", "alloc", "after"}
LoopSteps == {"tables", "checks"}
Last == {"unsubscribe", "freeAll", "exitSync", "release"}
PlainSteps ==
  {"sync", "begin", "start", "fend", "outcome", "tryNit", "nextTs", "leaveTs", "tune",
   "setPara", "nextPmt", "tsComplete", "wait", "endBatch", "quit"} \cup Last
Events == {"SCAN_BEGIN", "NIT_BEGIN", "NIT_END", "TS_BEGIN", "TS_END", "TABLE_DONE",
           "PMT_DONE", "SIGNAL", "SCAN_END", "STORE_BEGIN", "STORE_END"}
LoopItems == LoopSteps \X ((SUBSET Tables) \ {{}})
Items == (TableSteps \X Tables) \cup LoopItems \cup (PlainSteps \X {""}) \cup ({"signal"} \X Events)

(* A filter is asked for right after the step that frees the one before, or  *)
(* when that step is over and only its AM_DMX_Sync is left.                  *)
Freed(s, i) == i > 1 /\ s[i - 1] = S("free", s[i][2])
Ready(s, F, i) ==
  s[i][1] = "alloc" =>
    Freed(s, i) \/ (F[s[i][2]] = -1 /\ (i = 1 \/ (i = 2 /\ s[1][1] = "sync")))

(* The scan is begun, and a Sync waited for, before all else.                *)
InOrder(s, F) ==
  \A i \in 1..Len(s) :
    /\ Ready(s, F, i)
    /\ s[i][1] \in {"sync", "begin"} => i = 1
    /\ s[i][1] = "start" => i = 1 \/ (i = 2 /\ s[1][1] = "signal")

Agenda == todo \in Seq(Items) /\ InOrder(todo, fid)

Lacks(s, names) == \A i \in 1..Len(s) : s[i][1] \notin names
Only(s, names) == \A i \in 1..Len(s) : s[i][1] \in names

(* What a scan that was not started does.                                    *)
Early == {"begin", "start", "signal", "tsComplete", "wait", "endBatch", "quit"} \cup Last
EarlyFlags == {"START", "QUIT"}
Starting ==
  /\ started => Lacks(todo, {"start"})
  /\ ~started =>
       /\ Only(todo, Early)
       /\ stage = "WAIT_START" /\ recv = {}
       /\ evt \subseteq EarlyFlags /\ batch \subseteq EarlyFlags
       /\ Callback \notin subs
       /\ \A f \in FilterIds : st[Self][f] = "quiet"

(* The agenda of a thread that leaves, and what it has done by then.         *)
NoneHeld == \A f \in FilterIds : st[Self][f] # "held"
Left == Callback \notin subs /\ NoneHeld
Exiting ==
  \/ todo = <<S("signal", "STORE_BEGIN"), S("signal", "STORE_END")>> \o CleanUp
  \/ todo = <<S("signal", "STORE_END")>> \o CleanUp
  \/ todo = CleanUp
  \/ todo = Tail(CleanUp) /\ Callback \notin subs
  \/ todo = Tail(Tail(CleanUp)) /\ Left
  \/ todo = <<S("release", "")>> /\ Left /\ call = None

Living ==
  /\ Lacks(todo, Last) \/ Exiting
  /\ life # "live" => todo = <<>>
  /\ life = "none" => curr = -1 /\ ~started
  /\ life = "gone" => Left /\ call = None

(* The filters of the tables are those the demux device gave out, until the  *)
(* clean-up has given them all back.                                         *)
Accounted ==
  /\ \A t \in Tables : fid[t] \in FilterIds \cup {-1}
  /\ \A f \in FilterIds : st[Self][f] = "held" <=> \E t \in Tables : fid[t] = f
  /\ \A t, u \in Tables : t # u /\ fid[t] = fid[u] => fid[t] = -1
Filters ==
  /\ \A f \in FilterIds : st[Self][f] # "syncing"
  /\ Dmx!Quiescence
  /\ started /\ life = "live" /\ ~At("exitSync") /\ ~At("release") => Accounted

IInv == TypeOK /\ Agenda /\ Starting /\ Living /\ Filters

--------------------------------------------------------------------------------
(* Lemmas about agendas.                                                     *)

(* Steps that may come after any others.                                     *)
First2 == {"sync", "begin", "start"}
Loose(s) ==
  \A i \in 1..Len(s) : s[i][1] \notin First2 /\ (s[i][1] = "alloc" => Freed(s, i))

LEMMA LooseInOrder ==
  ASSUME NEW s \in Seq(Items), NEW F, Loose(s)
  PROVE  InOrder(s, F)
  BY DEF Loose, InOrder, Ready, First2

LEMMA JoinedIs ==
  ASSUME NEW s \in Seq(Items), NEW r \in Seq(Items)
  PROVE  /\ s \o r \in Seq(Items) /\ Len(s \o r) = Len(s) + Len(r)
         /\ Len(s) \in Nat /\ Len(r) \in Nat
         /\ \A i \in 1..Len(s) : i \in 1..Len(s \o r) /\ (s \o r)[i] = s[i]
         /\ \A i \in 1..Len(s \o r) :
              \/ i \in 1..Len(s) /\ (s \o r)[i] = s[i]
              \/ /\ i - Len(s) \in 1..Len(r) /\ (s \o r)[i] = r[i - Len(s)]
                 /\ \A j \in 1..Len(r) : j = (i - Len(s)) - 1 =>
                      i - 1 \in 1..Len(s \o r) /\ (s \o r)[i - 1] = r[j]
  <1> DEFINE u == s \o r
  <1>1. /\ u \in Seq(Items) /\ Len(u) = Len(s) + Len(r)
        /\ \A i \in 1..(Len(s) + Len(r)) : u[i] = IF i <= Len(s) THEN s[i] ELSE r[i - Len(s)]
    BY ConcatProperties
  <1>2. Len(s) \in Nat /\ Len(r) \in Nat
    OBVIOUS
  <1> HIDE DEF u
  <1>3. \A i \in 1..Len(s) : i \in 1..Len(u) /\ u[i] = s[i]
    BY <1>1, <1>2
  <1>4. ASSUME NEW i \in 1..Len(u)
        PROVE  \/ i \in 1..Len(s) /\ u[i] = s[i]
               \/ /\ i - Len(s) \in 1..Len(r) /\ u[i] = r[i - Len(s)]
                  /\ \A j \in 1..Len(r) : j = (i - Len(s)) - 1 => i - 1 \in 1..Len(u) /\ u[i - 1] = r[j]
    <2>1. CASE i <= Len(s)
      BY <1>1, <1>2, <2>1
    <2>2. CASE ~(i <= Len(s))
      <3>1. i - Len(s) \in 1..Len(r) /\ u[i] = r[i - Len(s)]
        BY <1>1, <1>2, <2>2
      <3>2. ASSUME NEW j \in 1..Len(r), j = (i - Len(s)) - 1
            PROVE  i - 1 \in 1..Len(u) /\ u[i - 1] = r[j]
        <4>1. i - 1 \in 1..Len(u) /\ ~(i - 1 <= Len(s)) /\ (i - 1) - Len(s) = j
          BY <1>1, <1>2, <3>2
        <4> QED
          BY <1>1, <4>1
      <3> QED
        BY <3>1, <3>2
    <2> QED
      BY <2>1, <2>2
  <1> QED
    BY <1>1, <1>2, <1>3, <1>4 DEF u

LEMMA LooseJoined ==
  ASSUME NEW s \in Seq(Items), NEW r \in Seq(Items), Loose(s), Loose(r)
  PROVE  s \o r \in Seq(Items) /\ Loose(s \o r)
  <1> DEFINE u == s \o r
  <1>1. /\ u \in Seq(Items) /\ Len(s) \in Nat /\ Len(r) \in Nat
        /\ \A i \in 1..Len(s) : i \in 1..Len(u) /\ u[i] = s[i]
        /\ \A i \in 1..Len(u) :
              \/ i \in 1..Len(s) /\ u[i] = s[i]
              \/ /\ i - Len(s) \in 1..Len(r) /\ u[i] = r[i - Len(s)]
                 /\ \A j \in 1..Len(r) : j = (i - Len(s)) - 1 => i - 1 \in 1..Len(u) /\ u[i - 1] = r[j]
    BY JoinedIs
  <1> HIDE DEF u
  <1>2. ASSUME NEW i \in 1..Len(u), i \in 1..Len(s), u[i] = s[i]
        PROVE  u[i][1] \notin First2 /\ (u[i][1] = "alloc" => Freed(u, i))
    <2>1. i > 1 => i - 1 \in 1..Len(s)
      BY <1>1, <1>2
    <2> QED
      BY <1>1, <1>2, <2>1 DEF Loose, Freed
  <1>3. ASSUME NEW i \in 1..Len(u), i - Len(s) \in 1..Len(r), u[i] = r[i - Len(s)],
               \A j \in 1..Len(r) : j = (i - Len(s)) - 1 => i - 1 \in 1..Len(u) /\ u[i - 1] = r[j]
        PROVE  u[i][1] \notin First2 /\ (u[i][1] = "alloc" => Freed(u, i))
    <2>1. PICK k \in 1..Len(r) : k = i - Len(s)
      BY <1>3
    <2>2. k > 1 => k - 1 \in 1..Len(r) /\ k - 1 = (i - Len(s)) - 1 /\ i > 1
      BY <1>1, <2>1
    <2>3. r[k][1] \notin First2 /\ (r[k][1] = "alloc" => Freed(r, k))
      BY DEF Loose
    <2> QED
      BY <1>3, <2>1, <2>2, <2>3 DEF Freed
  <1> QED
    BY <1>1, <1>2, <1>3 DEF u, Loose

LEMMA LacksJoined ==
  ASSUME NEW s \in Seq(Items), NEW r \in Seq(Items), NEW names
  PROVE  /\ Lacks(s, names) /\ Lacks(r, names) => Lacks(s \o r, names)
         /\ Only(s, names) /\ Only(r, names) => Only(s \o r, names)
  <1>1. \A i \in 1..Len(s \o r) : \/ i \in 1..Len(s) /\ (s \o r)[i] = s[i]
                                  \/ i - Len(s) \in 1..Len(r) /\ (s \o r)[i] = r[i - Len(s)]
    BY JoinedIs
  <1> QED
    BY <1>1 DEF Lacks, Only

LEMMA EmptyIs ==
  /\ <<>> \in Seq(Items) /\ Loose(<<>>)
  /\ \A names : Lacks(<<>>, names) /\ Only(<<>>, names)
  /\ \A s \in Seq(Items) : <<>> \o s = s
  BY DEF Loose, Lacks, Only

(* What is left of an agenda when its first step is taken off.               *)
LEMMA TailIs ==
  ASSUME NEW s \in Seq(Items), s # <<>>
  PROVE  /\ Head(s) = s[1] /\ Head(s) \in Items
         /\ Tail(s) \in Seq(Items)
         /\ Len(Tail(s)) = Len(s) - 1 /\ Len(s) \in Nat \ {0} /\ 1 \in 1..Len(s)
         /\ \A i \in 1..Len(Tail(s)) : i + 1 \in 1..Len(s) /\ Tail(s)[i] = s[i + 1]
         /\ \A names : /\ Lacks(s, names) => Lacks(Tail(s), names)
                       /\ Only(s, names) => Only(Tail(s), names)
  <1>1. Head(s) = s[1]
    OBVIOUS
  <1>2. /\ Head(s) \in Items
        /\ Tail(s) \in Seq(Items)
        /\ Len(Tail(s)) = Len(s) - 1
        /\ \A i \in 1..Len(Tail(s)) : Tail(s)[i] = s[i + 1]
    BY HeadTailProperties
  <1>3. Len(s) \in Nat \ {0} /\ 1 \in 1..Len(s)
    BY EmptySeq
  <1>4. \A i \in 1..Len(Tail(s)) : i + 1 \in 1..Len(s)
    BY <1>2, <1>3
  <1>5. \A names : /\ Lacks(s, names) => Lacks(Tail(s), names)
                   /\ Only(s, names) => Only(Tail(s), names)
    BY <1>2, <1>4 DEF Lacks, Only
  <1> QED
    BY <1>1, <1>2, <1>3, <1>4, <1>5

LEMMA TailLoose ==
  ASSUME NEW s \in Seq(Items), s # <<>>, NEW F, InOrder(s, F),
         Head(s)[1] \notin {"free", "sync", "signal"}
  PROVE  Loose(Tail(s))
  <1> SUFFICES ASSUME NEW i \in 1..Len(Tail(s))
               PROVE  Tail(s)[i][1] \notin First2 /\ (Tail(s)[i][1] = "alloc" => Freed(Tail(s), i))
    BY DEF Loose
  <1>1. i + 1 \in 1..Len(s) /\ i + 1 > 1 /\ Tail(s)[i] = s[i + 1] /\ i \in Nat \ {0}
    BY TailIs
  <1>2. s[1][1] \notin {"free", "sync", "signal"}
    BY TailIs
  <1>3. Ready(s, F, i + 1) /\ s[i + 1][1] \notin First2
    BY <1>1, <1>2 DEF InOrder, First2
  <1>4. s[i + 1][1] = "alloc" => Freed(s, i + 1)
    BY <1>1, <1>2, <1>3 DEF Ready
  <1>5. s[i + 1][1] = "alloc" => Freed(Tail(s), i)
    <2> SUFFICES ASSUME s[i + 1][1] = "alloc" PROVE Freed(Tail(s), i)
      OBVIOUS
    <2>1. s[i] = S("free", s[i + 1][2]) /\ (i + 1) - 1 = i
      BY <1>1, <1>4 DEF Freed
    <2>2. i # 1
      BY <1>2, <2>1 DEF S
    <2>3. i - 1 \in 1..Len(Tail(s)) /\ (i - 1) + 1 = i /\ i > 1
      BY <1>1, <2>2, TailIs
    <2>4. Tail(s)[i - 1] = s[i]
      BY <2>3, TailIs
    <2> QED
      BY <1>1, <2>1, <2>3, <2>4 DEF Freed
  <1> QED
    BY <1>1, <1>3, <1>5

LEMMA TailInOrder ==
  ASSUME NEW s \in Seq(Items), s # <<>>, NEW F, NEW G, InOrder(s, F),
         Head(s)[1] \in {"free", "sync", "signal"},
         Head(s)[1] = "free" => G[Head(s)[2]] = -1,
         Head(s)[1] # "free" => G = F
  PROVE  InOrder(Tail(s), G)
  <1> SUFFICES ASSUME NEW i \in 1..Len(Tail(s))
               PROVE  /\ Ready(Tail(s), G, i)
                      /\ Tail(s)[i][1] \notin {"sync", "begin"}
                      /\ Tail(s)[i][1] = "start" => i = 1
    BY DEF InOrder
  <1>1. i + 1 \in 1..Len(s) /\ i + 1 > 1 /\ Tail(s)[i] = s[i + 1] /\ i \in Nat \ {0}
    BY TailIs
  <1>2. s[1] = Head(s)
    BY TailIs
  <1>3. /\ Ready(s, F, i + 1) /\ s[i + 1][1] \notin {"sync", "begin"}
        /\ s[i + 1][1] = "start" => i = 1
    BY <1>1 DEF InOrder
  <1>4. s[i + 1][1] = "alloc" => Freed(Tail(s), i) \/ (i = 1 /\ G[s[i + 1][2]] = -1)
    <2> SUFFICES ASSUME s[i + 1][1] = "alloc"
                 PROVE  Freed(Tail(s), i) \/ (i = 1 /\ G[s[i + 1][2]] = -1)
      OBVIOUS
    <2>1. CASE i = 1
      <3>1. i + 1 = 2 /\ (i + 1) - 1 = 1
        BY <2>1
      <3>2. Freed(s, i + 1) => s[1] = S("free", s[i + 1][2])
        BY <3>1 DEF Freed
      <3>3. \/ s[1] = S("free", s[i + 1][2])
            \/ F[s[i + 1][2]] = -1 /\ s[1][1] = "sync"
        BY <1>3, <3>1, <3>2 DEF Ready
      <3>4. S("free", s[i + 1][2])[1] = "free" /\ S("free", s[i + 1][2])[2] = s[i + 1][2]
        BY DEF S
      <3> QED
        BY <1>2, <2>1, <3>3, <3>4
    <2>2. CASE i # 1
      <3>1. Freed(s, i + 1)
        BY <1>1, <1>3, <2>2 DEF Ready
      <3>2. s[i] = S("free", s[i + 1][2]) /\ (i + 1) - 1 = i
        BY <1>1, <3>1 DEF Freed
      <3>3. i - 1 \in 1..Len(Tail(s)) /\ (i - 1) + 1 = i /\ i > 1
        BY <1>1, <2>2, TailIs
      <3>4. Tail(s)[i - 1] = s[i]
        BY <3>3, TailIs
      <3> QED
        BY <1>1, <3>2, <3>3, <3>4 DEF Freed
    <2> QED
      BY <2>1, <2>2
  <1>5. Ready(Tail(s), G, i)
    BY <1>1, <1>4 DEF Ready
  <1> QED
    BY <1>1, <1>3, <1>5

--------------------------------------------------------------------------------
(* What the operators of the model put into an agenda.                       *)

LEMMA OrderIs ==
  DOMAIN Order = 1..8 /\ \A t \in Tables : \E i \in 1..8 : Order[i] = t
  <1>1. DOMAIN Order = 1..8
    BY DEF Order
  <1>2. /\ Order[1] = "pat" /\ Order[2] = "pmt" /\ Order[3] = "cat" /\ Order[4] = "sdt"
        /\ Order[5] = "nit" /\ Order[6] = "bat" /\ Order[7] = "mgt" /\ Order[8] = "vct"
    BY DEF Order
  <1> QED
    BY <1>1, <1>2 DEF Tables, TsTables

LEMMA FirstTable ==
  ASSUME NEW U \in SUBSET Tables, U # {}
  PROVE  First(U) \in U
  <1> DEFINE P(i) == Order[i] \in U /\ \A j \in 1..(i - 1) : Order[j] \notin U
  <1>1. PICK k \in 1..8 : Order[k] \in U
    BY OrderIs
  <1>2. \E i \in 1..8 : P(i)
    <2> SUFFICES ASSUME \A i \in 1..8 : ~P(i) PROVE FALSE
      OBVIOUS
    <2>1. Order[1] \notin U
      OBVIOUS
    <2>2. Order[2] \notin U
      BY <2>1
    <2>3. Order[3] \notin U
      BY <2>1, <2>2
    <2>4. Order[4] \notin U
      BY <2>1, <2>2, <2>3
    <2>5. Order[5] \notin U
      BY <2>1, <2>2, <2>3, <2>4
    <2>6. Order[6] \notin U
      BY <2>1, <2>2, <2>3, <2>4, <2>5
    <2>7. Order[7] \notin U
      BY <2>1, <2>2, <2>3, <2>4, <2>5, <2>6
    <2>8. Order[8] \notin U
      BY <2>1, <2>2, <2>3, <2>4, <2>5, <2>6, <2>7
    <2> QED
      BY <1>1, <2>1, <2>2, <2>3, <2>4, <2>5, <2>6, <2>7, <2>8
  <1>3. First(U) = Order[CHOOSE i \in DOMAIN Order : P(i)]
    BY Zenon DEF First
  <1> QED
    BY <1>2, <1>3, OrderIs

LEMMA OneStep ==
  ASSUME NEW q \in Items
  PROVE  /\ <<q>> \in Seq(Items) /\ Len(<<q>>) = 1 /\ <<q>>[1] = q
         /\ <<q>> # <<>> /\ Head(<<q>>) = q /\ Tail(<<q>>) = <<>>
         /\ \A names : /\ Lacks(<<q>>, names) <=> q[1] \notin names
                       /\ Only(<<q>>, names) <=> q[1] \in names
         /\ q[1] \notin First2 \cup {"alloc"} => Loose(<<q>>)
  <1>1. /\ <<q>> \in Seq(Items) /\ Len(<<q>>) = 1 /\ <<q>>[1] = q
        /\ 1 \in 1..Len(<<q>>) /\ \A i \in 1..Len(<<q>>) : <<q>>[i] = q
    OBVIOUS
  <1>2. <<q>> # <<>> /\ Head(<<q>>) = q /\ Tail(<<q>>) = <<>>
    OBVIOUS
  <1> DEFINE s == <<q>>
  <1> HIDE DEF s
  <1>3. \A names : /\ Lacks(s, names) <=> q[1] \notin names
                   /\ Only(s, names) <=> q[1] \in names
    BY <1>1 DEF Lacks, Only, s
  <1>4. q[1] \notin First2 \cup {"alloc"} => Loose(s)
    BY <1>1 DEF Loose, s
  <1> QED
    BY <1>1, <1>2, <1>3, <1>4 DEF s

LEMMA TwoSteps ==
  ASSUME NEW p \in Items, NEW q \in Items
  PROVE  /\ <<p, q>> \in Seq(Items) /\ Len(<<p, q>>) = 2
         /\ <<p, q>>[1] = p /\ <<p, q>>[2] = q
         /\ \A names : /\ Lacks(<<p, q>>, names) <=> p[1] \notin names /\ q[1] \notin names
                       /\ Only(<<p, q>>, names) <=> p[1] \in names /\ q[1] \in names
         /\ p[1] \notin First2 \cup {"alloc"} /\ q[1] \notin First2
            /\ (q[1] = "alloc" => p = S("free", q[2])) => Loose(<<p, q>>)
  <1>1. /\ <<p, q>> \in Seq(Items) /\ Len(<<p, q>>) = 2
        /\ <<p, q>>[1] = p /\ <<p, q>>[2] = q
        /\ 1 \in 1..2 /\ 2 \in 1..2 /\ \A i \in 1..2 : i = 1 \/ i = 2
    OBVIOUS
  <1> DEFINE s == <<p, q>>
  <1>2. Len(s) = 2 /\ s[1] = p /\ s[2] = q
    BY <1>1
  <1> HIDE DEF s
  <1>3. \A names : /\ Lacks(s, names) <=> p[1] \notin names /\ q[1] \notin names
                   /\ Only(s, names) <=> p[1] \in names /\ q[1] \in names
    BY <1>1, <1>2 DEF Lacks, Only
  <1>4. ASSUME p[1] \notin First2 \cup {"alloc"}, q[1] \notin First2,
               q[1] = "alloc" => p = S("free", q[2])
        PROVE  Loose(s)
    <2>1. q[1] = "alloc" => Freed(s, 2)
      BY <1>2, <1>4 DEF Freed
    <2> QED
      BY <1>1, <1>2, <1>4, <2>1 DEF Loose
  <1> QED
    BY <1>1, <1>3, <1>4 DEF s

(* What steps may be put before the rest of an agenda.                       *)
Fits(p) == p \in Seq(Items) /\ Loose(p) /\ Lacks(p, Last)

LEMMA FitsJoined ==
  ASSUME NEW p, NEW q, Fits(p), Fits(q)
  PROVE  Fits(p \o q)
  BY LooseJoined, LacksJoined DEF Fits

LEMMA StepFits ==
  ASSUME NEW name \in PlainSteps \ (First2 \cup Last)
  PROVE  Fits(<<S(name, "")>>)
  <1>1. S(name, "") \in Items /\ S(name, "")[1] = name /\ name # "alloc"
    BY DEF Items, S, PlainSteps, Last
  <1> DEFINE q == S(name, "")
  <1> HIDE DEF q
  <1>2. q \in Items /\ q[1] \notin First2 \cup {"alloc"} /\ q[1] \notin Last
    BY <1>1 DEF q
  <1> QED
    BY <1>2, OneStep DEF Fits, q

LEMMA SignalFits ==
  ASSUME NEW e \in Events
  PROVE  Fits(Signal(e)) /\ \A b : Fits(SignalIf(b, e))
  <1>1. /\ S("signal", e) \in Items /\ S("signal", e)[1] = "signal"
        /\ "signal" \notin First2 \cup {"alloc"} \cup Last
    BY DEF Items, S, First2, Last
  <1> DEFINE q == S("signal", e)
  <1> HIDE DEF q
  <1>2. Fits(<<q>>)
    BY <1>1, OneStep DEF Fits, q
  <1>3. Fits(<<>>)
    BY EmptyIs DEF Fits
  <1> QED
    BY <1>2, <1>3 DEF Signal, SignalIf, q

LEMMA LoopFits ==
  ASSUME NEW name \in LoopSteps, NEW U \in SUBSET Tables
  PROVE  Fits(Loop(name, U))
  <1>1. CASE U = {}
    BY <1>1, EmptyIs DEF Loop, Fits
  <1>2. CASE U # {}
    <2> DEFINE q == S(name, U)
    <2>1. q \in Items /\ q[1] = name /\ name \notin First2 \cup {"alloc"} \cup Last
      BY <1>2 DEF Items, LoopItems, LoopSteps, S, First2, Last
    <2> HIDE DEF q
    <2>2. Fits(<<q>>)
      BY <2>1, OneStep DEF Fits
    <2> QED
      BY <1>2, <2>2 DEF Loop, q
  <1> QED
    BY <1>1, <1>2

LEMMA TableFits ==
  ASSUME NEW t \in Tables
  PROVE  Fits(Request(t)) /\ Fits(DoneSteps(t))
  <1> DEFINE p == S("free", t)
             a == S("alloc", t)
             d == S("after", t)
  <1>1. /\ p \in Items /\ a \in Items /\ d \in Items
        /\ p[1] = "free" /\ a[1] = "alloc" /\ d[1] = "after"
        /\ p = S("free", a[2])
    BY DEF Items, TableSteps, S
  <1>2. {"free", "alloc", "after"} \cap (First2 \cup Last) = {}
    BY DEF First2, Last
  <1> HIDE DEF p, a, d
  <1>3. Fits(<<p, a>>)
    BY <1>1, <1>2, TwoSteps DEF Fits
  <1>4. Fits(<<p, d>>)
    BY <1>1, <1>2, TwoSteps DEF Fits
  <1> QED
    BY <1>3, <1>4 DEF Request, DoneSteps, p, a, d

--------------------------------------------------------------------------------
(* What the invariant says of the agenda.                                    *)

LEMMA HeadIs ==
  ASSUME Agenda, todo # <<>>
  PROVE  /\ todo \in Seq(Items) /\ InOrder(todo, fid) /\ Head(todo) \in Items
         /\ Head(todo) = todo[1] /\ Rest = Tail(todo) /\ Rest \in Seq(Items)
         /\ Head(todo)[1] \in TableSteps => Arg \in Tables /\ Head(todo) = S(Head(todo)[1], Arg)
         /\ Head(todo)[1] \in LoopSteps => Arg \in (SUBSET Tables) \ {{}}
         /\ Head(todo)[1] = "signal" => Arg \in Events
         /\ Head(todo)[1] \in PlainSteps => Head(todo) = S(Head(todo)[1], "")
  <1>1. /\ todo \in Seq(Items) /\ InOrder(todo, fid) /\ Head(todo) \in Items
        /\ Head(todo) = todo[1] /\ Rest = Tail(todo) /\ Rest \in Seq(Items)
    BY TailIs DEF Agenda, Rest
  <1>2. PICK q : q = Head(todo)
    OBVIOUS
  <1>3. /\ q \in TableSteps \X Tables => q[1] \in TableSteps /\ q[2] \in Tables /\ q = <<q[1], q[2]>>
        /\ q \in LoopItems => q[1] \in LoopSteps /\ q[2] \in (SUBSET Tables) \ {{}}
        /\ q \in PlainSteps \X {""} => q[1] \in PlainSteps /\ q = <<q[1], "">>
        /\ q \in {"signal"} \X Events => q[1] = "signal" /\ q[2] \in Events
    <2>1. q \in TableSteps \X Tables => q[1] \in TableSteps /\ q[2] \in Tables /\ q = <<q[1], q[2]>>
      OBVIOUS
    <2>4. q \in {"signal"} \X Events => q[1] = "signal" /\ q[2] \in Events
      OBVIOUS
    <2>2. q \in LoopItems => q[1] \in LoopSteps /\ q[2] \in (SUBSET Tables) \ {{}}
      BY DEF LoopItems
    <2>3. q \in PlainSteps \X {""} => q[1] \in PlainSteps /\ q = <<q[1], "">>
      <3>1. \A B : q \in PlainSteps \X B => q[1] \in PlainSteps /\ q[2] \in B /\ q = <<q[1], q[2]>>
        OBVIOUS
      <3>2. q \in PlainSteps \X {""} => q[1] \in PlainSteps /\ q[2] = "" /\ q = <<q[1], q[2]>>
        BY <3>1
      <3> QED
        BY <3>2
    <2> QED
      BY <2>1, <2>2, <2>3, <2>4
  <1>4. /\ TableSteps \cap LoopSteps = {} /\ TableSteps \cap PlainSteps = {}
        /\ LoopSteps \cap PlainSteps = {} /\ "signal" \notin TableSteps \cup LoopSteps \cup PlainSteps
    BY DEF TableSteps, LoopSteps, PlainSteps, Last
  <1>5. /\ q[1] \in TableSteps => q[2] \in Tables /\ q = <<q[1], q[2]>>
        /\ q[1] \in LoopSteps => q[2] \in (SUBSET Tables) \ {{}}
        /\ q[1] \in PlainSteps => q = <<q[1], "">>
        /\ q[1] = "signal" => q[2] \in Events
    <2>1. q \in (TableSteps \X Tables) \cup LoopItems \cup (PlainSteps \X {""}) \cup ({"signal"} \X Events)
      BY <1>1, <1>2 DEF Items
    <2> QED
      BY <1>3, <1>4, <2>1
  <1> QED
    BY <1>1, <1>2, <1>5 DEF Arg, S

(* The agenda of the clean-up, and what is left of it after each step.       *)
LEMMA CleanUpIs ==
  /\ CleanUp \in Seq(Items) /\ CleanUp # <<>> /\ Head(CleanUp) = S("unsubscribe", "")
  /\ Tail(CleanUp) \in Seq(Items) /\ Tail(CleanUp) # <<>> /\ Head(Tail(CleanUp)) = S("freeAll", "")
  /\ Tail(Tail(CleanUp)) \in Seq(Items) /\ Tail(Tail(CleanUp)) # <<>>
  /\ Head(Tail(Tail(CleanUp))) = S("exitSync", "")
  /\ Tail(Tail(Tail(CleanUp))) = <<S("release", "")>>
  /\ <<S("release", "")>> \in Seq(Items) /\ Head(<<S("release", "")>>) = S("release", "")
  /\ <<S("release", "")>> # <<>>
  /\ Loose(CleanUp) /\ Only(CleanUp, Last)
  <1> DEFINE u == S("unsubscribe", "")
             f == S("freeAll", "")
             x == S("exitSync", "")
             r == S("release", "")
  <1>1. /\ u \in Items /\ f \in Items /\ x \in Items /\ r \in Items
        /\ u[1] = "unsubscribe" /\ f[1] = "freeAll" /\ x[1] = "exitSync" /\ r[1] = "release"
    <2>1. Last \subseteq PlainSteps
      BY DEF PlainSteps
    <2>2. \A name \in Last : S(name, "") \in Items /\ S(name, "")[1] = name
      BY <2>1 DEF Items, S
    <2> QED
      BY <2>2 DEF Last
  <1>2. CleanUp = <<u, f, x, r>>
    BY DEF CleanUp
  <1> HIDE DEF u, f, x, r
  <1>3. /\ <<u, f, x, r>> \in Seq(Items) /\ <<u, f, x, r>> # <<>> /\ Head(<<u, f, x, r>>) = u
        /\ Tail(<<u, f, x, r>>) = <<f, x, r>> /\ Len(<<u, f, x, r>>) = 4
        /\ <<u, f, x, r>>[1] = u /\ <<u, f, x, r>>[2] = f /\ <<u, f, x, r>>[3] = x /\ <<u, f, x, r>>[4] = r
    BY <1>1
  <1>4. <<f, x, r>> \in Seq(Items) /\ <<f, x, r>> # <<>> /\ Head(<<f, x, r>>) = f
        /\ Tail(<<f, x, r>>) = <<x, r>>
    BY <1>1
  <1>5. <<x, r>> \in Seq(Items) /\ <<x, r>> # <<>> /\ Head(<<x, r>>) = x /\ Tail(<<x, r>>) = <<r>>
    BY <1>1
  <1>6. <<r>> \in Seq(Items) /\ Head(<<r>>) = r /\ <<r>> # <<>>
    BY <1>1
  <1>7. \A i \in 1..4 : i = 1 \/ i = 2 \/ i = 3 \/ i = 4
    OBVIOUS
  <1>8. {"unsubscribe", "freeAll", "exitSync", "release"} \cap (First2 \cup {"alloc"}) = {}
    BY DEF First2
  <1> DEFINE s == <<u, f, x, r>>
  <1>9. Len(s) = 4 /\ s[1] = u /\ s[2] = f /\ s[3] = x /\ s[4] = r
    BY <1>3
  <1> HIDE DEF s
  <1>10. \A i \in 1..Len(s) : s[i][1] \in Last /\ s[i][1] \notin First2 \cup {"alloc"}
    BY <1>1, <1>7, <1>8, <1>9 DEF Last
  <1>11. Loose(s) /\ Only(s, Last)
    BY <1>10 DEF Loose, Only
  <1> QED
    BY <1>2, <1>3, <1>4, <1>5, <1>6, <1>11 DEF u, f, x, r, s

LEMMA StoreIs ==
  ASSUME NEW e \in {"STORE_BEGIN", "STORE_END"}, NEW s \in Seq(Items)
  PROVE  /\ S("signal", e) \in Items /\ S("signal", e)[1] = "signal"
         /\ <<S("signal", e)>> \o s \in Seq(Items) /\ <<S("signal", e)>> \o s # <<>>
         /\ Head(<<S("signal", e)>> \o s) = S("signal", e) /\ Tail(<<S("signal", e)>> \o s) = s
  <1>1. S("signal", e) \in Items /\ S("signal", e)[1] = "signal"
    BY DEF Items, Events, S
  <1> DEFINE q == S("signal", e)
  <1> HIDE DEF q
  <1>2. <<q>> \o s \in Seq(Items) /\ <<q>> \o s # <<>> /\ Head(<<q>> \o s) = q /\ Tail(<<q>> \o s) = s
    BY <1>1 DEF q
  <1> QED
    BY <1>1, <1>2 DEF q

LEMMA PairIs ==
  ASSUME NEW p \in Items, NEW q \in Items
  PROVE  <<p, q>> = <<p>> \o <<q>>
  <1> DEFINE s == <<p, q>>
             u == <<p>> \o <<q>>
  <1>1. s \in Seq(Items) /\ Len(s) = 2 /\ s[1] = p /\ s[2] = q
    OBVIOUS
  <1>2. u \in Seq(Items) /\ Len(u) = 2 /\ u[1] = p /\ u[2] = q
    BY OneStep, ConcatProperties
  <1> HIDE DEF s, u
  <1>3. Len(s) = Len(u) /\ \A i \in 1..Len(s) : s[i] = u[i]
    BY <1>1, <1>2
  <1>4. s = u
    BY <1>1, <1>2, <1>3, SeqEqual
  <1> QED
    BY <1>4 DEF s, u

(* How far a thread that leaves has got.                                     *)
LEMMA ExitingIs ==
  ASSUME Exiting
  PROVE  /\ todo \in Seq(Items) /\ todo # <<>>
         /\ \/ /\ Head(todo)[1] = "signal"
               /\ Rest \in {<<S("signal", "STORE_END")>> \o CleanUp, CleanUp}
            \/ Head(todo)[1] = "unsubscribe" /\ Rest = Tail(CleanUp)
            \/ /\ Head(todo)[1] = "freeAll" /\ Rest = Tail(Tail(CleanUp))
               /\ Callback \notin subs
            \/ Head(todo)[1] = "exitSync" /\ Rest = <<S("release", "")>> /\ Left
            \/ Head(todo)[1] = "release" /\ Left /\ call = None
  <1>1. \A name : S(name, "")[1] = name
    BY DEF S
  <1>2. <<S("signal", "STORE_END")>> \o CleanUp \in Seq(Items)
    BY CleanUpIs, StoreIs
  <1>3. CASE todo = <<S("signal", "STORE_BEGIN"), S("signal", "STORE_END")>> \o CleanUp
    <2> DEFINE p == S("signal", "STORE_BEGIN")
               q == S("signal", "STORE_END")
    <2>1. p \in Items /\ q \in Items /\ CleanUp \in Seq(Items)
      BY CleanUpIs, StoreIs
    <2>2. todo = <<p, q>> \o CleanUp
      BY <1>3
    <2> HIDE DEF p, q
    <2>3. <<p, q>> \o CleanUp = <<p>> \o (<<q>> \o CleanUp)
      <3>1. <<p, q>> = <<p>> \o <<q>>
        BY <2>1, PairIs
      <3>2. <<p>> \in Seq(Items) /\ <<q>> \in Seq(Items)
        BY <2>1
      <3> QED
        BY <2>1, <3>1, <3>2, ConcatAssociative
    <2>4. todo = <<p>> \o (<<q>> \o CleanUp)
      BY <2>2, <2>3
    <2> QED
      BY <1>2, <2>4, StoreIs DEF p, q, Rest
  <1>4. CASE todo = <<S("signal", "STORE_END")>> \o CleanUp
    BY <1>4, CleanUpIs, StoreIs DEF Rest
  <1>5. CASE todo = CleanUp
    BY <1>1, <1>5, CleanUpIs DEF Rest
  <1>6. CASE todo = Tail(CleanUp) /\ Callback \notin subs
    BY <1>1, <1>6, CleanUpIs DEF Rest
  <1>7. CASE todo = Tail(Tail(CleanUp)) /\ Left
    BY <1>1, <1>7, CleanUpIs DEF Rest
  <1>8. CASE todo = <<S("release", "")>> /\ Left /\ call = None
    BY <1>1, <1>8, CleanUpIs DEF Rest
  <1> QED
    BY <1>3, <1>4, <1>5, <1>6, <1>7, <1>8 DEF Exiting

LEMMA NotExiting ==
  ASSUME IInv, todo # <<>>, Head(todo)[1] \notin Last \cup {"signal"}
  PROVE  Lacks(todo, Last)
  BY ExitingIs DEF IInv, Living, Last

(* A thread that goes on with an agenda that is in order.                    *)
LEMMA Goes ==
  ASSUME IInv, todo # <<>>, Lacks(todo, Last),
         todo' \in Seq(Items), InOrder(todo', fid'), Lacks(todo', Last),
         started => Lacks(todo', {"start"}),
         ~started => /\ Only(todo', Early) /\ stage' = stage /\ recv' = {}
                     /\ evt' \subseteq EarlyFlags /\ batch' \subseteq EarlyFlags,
         UNCHANGED <<life, fid, st, call, subs, started>>
  PROVE  Agenda' /\ Starting' /\ Living' /\ Filters'
  <1>1. Agenda'
    BY DEF Agenda
  <1>2. Starting'
    BY DEF IInv, Starting
  <1>3. life = "live"
    BY DEF IInv, Living
  <1>4. Living'
    BY <1>3 DEF Living
  <1>5. ~At("exitSync") /\ ~At("release")
    <2>1. Head(todo) = todo[1] /\ 1 \in 1..Len(todo)
      BY TailIs DEF IInv, Agenda
    <2>2. Head(todo)[1] \notin Last
      BY <2>1 DEF Lacks
    <2> QED
      BY <2>2 DEF At, Last
  <1>6. Filters'
    BY <1>3, <1>5 DEF IInv, Filters, Accounted, Dmx!Quiescence
  <1> QED
    BY <1>1, <1>2, <1>4, <1>6

(* A step of a scan that was started puts other steps in its place.          *)
LEMMA Continues ==
  ASSUME IInv, todo # <<>>, Head(todo)[1] \notin Early \cup {"free", "sync"},
         NEW p, Fits(p), todo' = p \o Rest,
         UNCHANGED <<life, fid, st, call, subs, started>>
  PROVE  Agenda' /\ Starting' /\ Living' /\ Filters'
  <1>1. todo \in Seq(Items) /\ InOrder(todo, fid) /\ Rest = Tail(todo) /\ Head(todo) = todo[1]
        /\ 1 \in 1..Len(todo) /\ Rest \in Seq(Items)
    BY TailIs DEF IInv, Agenda, Rest
  <1>2. started
    BY <1>1 DEF IInv, Starting, Only
  <1>3. Lacks(todo, Last) /\ Lacks(Rest, Last)
    <2>1. Lacks(todo, Last)
      BY NotExiting DEF Early
    <2> QED
      BY <1>1, <2>1, TailIs
  <1>4. Loose(Rest)
    BY <1>1, TailLoose DEF Early
  <1>5. /\ p \in Seq(Items) /\ Loose(p) /\ Lacks(p, Last)
        /\ p \o Rest \in Seq(Items) /\ Loose(p \o Rest) /\ Lacks(p \o Rest, Last)
    BY <1>1, <1>3, <1>4, LooseJoined, LacksJoined DEF Fits
  <1>6. Lacks(p \o Rest, {"start"})
    BY <1>5 DEF Loose, Lacks, First2
  <1>7. InOrder(todo', fid')
    BY <1>5, LooseInOrder
  <1> QED
    BY <1>2, <1>3, <1>5, <1>6, <1>7, Goes

--------------------------------------------------------------------------------
(* Steps of a scan that was started, which hold no filter and give none      *)
(* back.  Their types first.                                                 *)

LEMMA Typed ==
  ASSUME IInv
  PROVE  /\ mode \in Modes \cup {NoMode} /\ joiner \in BOOLEAN
         /\ evt \in SUBSET (Tables \cup {"START", "FEND", "QUIT"})
         /\ batch \in SUBSET (Tables \cup {"START", "FEND", "QUIT"})
         /\ recv \in SUBSET (Tables \cup {"fend"}) /\ over \in SUBSET Tables
         /\ mode.freqs \in Seq(Freqs) /\ Count \in Nat
         /\ freqs # None => freqs \in Seq(Freqs)
         /\ \A q \in FreqLists : Len(q) \in Nat
         /\ -1 \notin FilterIds /\ FilterIds \subseteq Nat /\ Programs \in Nat \ {0}
         /\ None \notin FilterIds \X {Self}
  <1>1. /\ FreqLists \subseteq Seq(Freqs)
        /\ Modes \subseteq [atsc : BOOLEAN, auto : BOOLEAN, bat : BOOLEAN,
                           freqs : Seq(Freqs), faults : SUBSET Faults]
        /\ FilterIds \subseteq Nat /\ Programs \in Nat \ {0}
        /\ None \notin FilterIds \X {Self}
    BY ScanAssumption DEF ScanAssumption
  <1>2. NoMode.freqs \in Seq(Freqs)
    BY DEF NoMode
  <1>3. mode \in Modes \cup {NoMode} /\ freqs \in FreqLists \cup {mode.freqs, None}
    BY DEF IInv, TypeOK
  <1>4. mode.freqs \in Seq(Freqs)
    BY <1>1, <1>2, <1>3
  <1>5. freqs # None => freqs \in Seq(Freqs)
    BY <1>1, <1>3, <1>4
  <1>6. Count \in Nat
    BY <1>5 DEF Count
  <1>7. \A q \in FreqLists : Len(q) \in Nat
    BY <1>1
  <1>8. -1 \notin FilterIds
    BY <1>1
  <1>9. /\ joiner \in BOOLEAN
        /\ evt \in SUBSET (Tables \cup {"START", "FEND", "QUIT"})
        /\ batch \in SUBSET (Tables \cup {"START", "FEND", "QUIT"})
        /\ recv \in SUBSET (Tables \cup {"fend"}) /\ over \in SUBSET Tables
    BY DEF IInv, TypeOK
  <1> QED
    BY <1>1, <1>3, <1>4, <1>5, <1>6, <1>7, <1>8, <1>9

LEMMA GoesOn ==
  ASSUME IInv, todo # <<>>, Head(todo)[1] \notin Early \cup {"free", "sync"},
         NEW p, Fits(p), todo' = p \o Rest, TypeOK',
         UNCHANGED <<life, fid, st, call, subs, started>>
  PROVE  IInv'
  BY Continues DEF IInv

LEMMA EmptyFits ==
  /\ Fits(<<>>)
  /\ IInv /\ todo' = Rest => todo' = <<>> \o Rest \/ todo = <<>>
  <1>1. Fits(<<>>)
    BY EmptyIs DEF Fits
  <1>2. ASSUME IInv, todo' = Rest, todo # <<>>
        PROVE  todo' = <<>> \o Rest
    BY <1>2, HeadIs, EmptyIs DEF IInv
  <1> QED
    BY <1>1, <1>2

LEMMA NextTsFits == Fits(NextTs) /\ Fits(NetworkDone)
  <1>1. "nextTs" \in PlainSteps \ (First2 \cup Last)
    BY DEF PlainSteps, First2, Last
  <1>2. Fits(NextTs)
    BY <1>1, StepFits DEF NextTs
  <1>3. Fits(Signal("TS_END")) /\ Fits(Signal("NIT_END"))
    BY SignalFits DEF Events
  <1>4. Fits((Signal("TS_END") \o Signal("NIT_END")) \o NextTs)
    BY <1>2, <1>3, FitsJoined
  <1> QED
    BY <1>2, <1>4 DEF NetworkDone

LEMMA NetworkKeeps ==
  ASSUME IInv, NitDone \/ BatDone
  PROVE  IInv'
  <1>1. todo # <<>> /\ Head(todo)[1] = "after" /\ "after" \notin Early \cup {"free", "sync"}
    BY DEF NitDone, BatDone, After, At, Early, Last
  <1>2. UNCHANGED <<life, mode, joiner, evt, batch, stage, ts, tses, started, fid, armed, ctl, data,
                    pats, prog, owner, subs, st, call, asked, ends, crashed, owed>>
    BY DEF NitDone, BatDone, app, plan, tables, registry, demux, history, frontend
  <1>3. \E p : Fits(p) /\ todo' = p \o Rest
    <2>1. Fits(<<S("tryNit", "")>>)
      <3>1. "tryNit" \in PlainSteps \ (First2 \cup Last)
        BY DEF PlainSteps, First2, Last
      <3> QED
        BY <3>1, StepFits
    <2>2. \/ todo' = <<S("tryNit", "")>> \o Rest
          \/ todo' = NetworkDone \o Rest
          \/ todo' = <<>> \o Rest
      BY DEF NitDone, BatDone, Then
    <2> QED
      BY <2>1, <2>2, NextTsFits, EmptyFits
  <1>4. recv' \in SUBSET (Tables \cup {"fend"}) /\ over' \in SUBSET Tables
    BY Typed DEF NitDone, BatDone, NotWaiting
  <1>5. /\ freqs' \in FreqLists \cup {mode.freqs, None}
        /\ curr' \in -1..(Count' - 1) \/ (freqs' = None /\ curr' = 0)
    <2>1. CASE UNCHANGED <<freqs, curr>>
      BY <2>1 DEF IInv, TypeOK, Count
    <2>2. CASE freqs' \in FreqLists \cup {None} /\ curr' = -1
      <3>1. PICK n \in Nat : n = Count'
        BY <2>2, Typed DEF Count
      <3>2. -1 \in -1..(n - 1)
        OBVIOUS
      <3> QED
        BY <2>2, <3>1, <3>2
    <2> QED
      BY <2>1, <2>2 DEF NitDone, BatDone, plan
  <1>6. TypeOK'
    BY <1>2, <1>4, <1>5 DEF IInv, TypeOK, Evt!TypeOK, Dmx!TypeOK
  <1> QED
    BY <1>1, <1>2, <1>3, <1>6, GoesOn

LEMMA PlainFits ==
  /\ Fits(<<S("nextPmt", "")>>) /\ Fits(<<S("tryNit", "")>>) /\ Fits(<<S("tune", "")>>)
  /\ Fits(<<S("leaveTs", ""), S("tune", "")>>) /\ Fits(<<S("setPara", "")>>)
  /\ Fits(<<S("outcome", "")>>)
  /\ \A e \in Events : Fits(Signal(e))
  <1>1. {"nextPmt", "tryNit", "leaveTs", "tune", "setPara", "outcome"} \subseteq
          PlainSteps \ (First2 \cup Last)
    BY DEF PlainSteps, First2, Last
  <1>2. \A name \in {"nextPmt", "tryNit", "leaveTs", "tune", "setPara", "outcome"} :
          Fits(<<S(name, "")>>)
    BY <1>1, StepFits
  <1>3. Fits(<<S("leaveTs", "")>> \o <<S("tune", "")>>)
    BY <1>2, FitsJoined
  <1>4. S("leaveTs", "") \in Items /\ S("tune", "") \in Items
    BY DEF Items, PlainSteps, S
  <1>5. Fits(<<S("leaveTs", ""), S("tune", "")>>)
    <2> DEFINE a == S("leaveTs", "")
               b == S("tune", "")
    <2>1. Fits(<<a>> \o <<b>>) /\ a \in Items /\ b \in Items
      BY <1>3, <1>4
    <2> HIDE DEF a, b
    <2>2. Fits(<<a, b>>)
      BY <2>1, PairIs
    <2> QED
      BY <2>2 DEF a, b
  <1> QED
    BY <1>2, <1>5, SignalFits

LEMMA TableDoneKeeps ==
  ASSUME IInv, NEW t \in Tables, NEW next, Fits(next), TableDone(t, next)
  PROVE  IInv'
  <1>1. todo # <<>> /\ Head(todo)[1] = "after" /\ "after" \notin Early \cup {"free", "sync"}
    BY DEF TableDone, After, At, Early, Last
  <1>2. UNCHANGED <<life, mode, joiner, evt, batch, stage, freqs, curr, ts, tses, started, fid, armed,
                    ctl, data, pats, prog, owner, subs, st, call, asked, ends, owed>>
    BY DEF TableDone, app, plan, tables, registry, demux, history, frontend
  <1>3. Fits(Signal("TABLE_DONE") \o next) /\ todo' = (Signal("TABLE_DONE") \o next) \o Rest
    BY FitsJoined, PlainFits DEF TableDone, Then, Events
  <1>4. /\ recv' \in SUBSET (Tables \cup {"fend"}) /\ over' \in SUBSET Tables
        /\ crashed' \in BOOLEAN
    BY Typed DEF TableDone, NotWaiting
  <1>5. TypeOK'
    BY <1>2, <1>4 DEF IInv, TypeOK, Evt!TypeOK, Dmx!TypeOK, Count
  <1> QED
    BY <1>1, <1>2, <1>3, <1>5, GoesOn

LEMMA TableDonesKeep ==
  ASSUME IInv, PatDone \/ CatDone \/ SdtDone \/ MgtDone \/ VctDone
  PROVE  IInv'
  <1>1. {"pat", "cat", "sdt", "mgt", "vct"} \subseteq Tables
    BY DEF Tables, TsTables
  <1>2. Fits(<<>>) /\ Fits(<<S("nextPmt", "")>>) /\ Fits(Request("vct"))
    BY <1>1, EmptyFits, PlainFits, TableFits
  <1>3. Fits(IF data["mgt"] = "none" THEN <<>> ELSE Request("vct"))
    BY <1>2
  <1>4. CASE PatDone
    BY <1>1, <1>2, <1>4, TableDoneKeeps DEF PatDone
  <1>5. CASE CatDone
    BY <1>1, <1>2, <1>5, TableDoneKeeps DEF CatDone
  <1>6. CASE SdtDone
    BY <1>1, <1>2, <1>6, TableDoneKeeps DEF SdtDone
  <1>7. CASE MgtDone
    BY <1>1, <1>3, <1>7, TableDoneKeeps DEF MgtDone
  <1>8. CASE VctDone
    BY <1>1, <1>2, <1>8, TableDoneKeeps DEF VctDone
  <1> QED
    BY <1>4, <1>5, <1>6, <1>7, <1>8

LEMMA PmtKeeps ==
  ASSUME IInv, PmtDone \/ NextPmt
  PROVE  IInv'
  <1>1. /\ todo # <<>> /\ Head(todo)[1] \in {"after", "nextPmt"}
        /\ {"after", "nextPmt"} \cap (Early \cup {"free", "sync"}) = {}
    BY DEF PmtDone, NextPmt, After, At, Early, Last
  <1>2. UNCHANGED <<life, mode, joiner, evt, batch, stage, freqs, curr, ts, tses, started, fid, armed,
                    pats, owner, subs, st, call, asked, ends, owed, crashed>>
    BY DEF PmtDone, NextPmt, app, plan, tables, registry, demux, history, frontend
  <1>3. \E p : Fits(p) /\ todo' = p \o Rest
    <2>1. Fits(Signal("PMT_DONE")) /\ Fits(Request("pmt"))
      BY PlainFits, TableFits DEF Events, Tables, TsTables
    <2>2. \/ todo' = <<S("nextPmt", "")>> \o Rest
          \/ todo' = Signal("PMT_DONE") \o Rest
          \/ todo' = Request("pmt") \o Rest
          \/ todo' = Rest
      BY DEF PmtDone, NextPmt, Then
    <2> QED
      BY <1>1, <2>1, <2>2, PlainFits, EmptyFits
  <1>4. /\ recv' \in SUBSET (Tables \cup {"fend"}) /\ over' \in SUBSET Tables
    BY Typed DEF PmtDone, NextPmt, NotWaiting
  <1>5. prog' \in 0..Programs
    <2>1. prog' = prog \/ prog' = 0 \/ (prog # Programs /\ prog' = prog + 1)
      BY DEF PmtDone, NextPmt
    <2>2. prog \in 0..Programs
      BY DEF IInv, TypeOK
    <2> QED
      BY <2>1, <2>2, Typed
  <1>6. ctl' \in [Tables -> Amount] /\ data' \in [Tables -> Amount]
    BY DEF IInv, TypeOK, PmtDone, NextPmt, tables, Amount
  <1>7. TypeOK'
    BY <1>2, <1>4, <1>5, <1>6 DEF IInv, TypeOK, Evt!TypeOK, Dmx!TypeOK, Count
  <1> QED
    BY <1>1, <1>2, <1>3, <1>7, GoesOn

LEMMA MaybeFits ==
  ASSUME NEW e \in Events, NEW p, Fits(p)
  PROVE  Fits(SignalIf(stage # "NIT", e) \o p) /\ Fits(SignalIf(curr >= 0, e) \o p)
  <1>1. /\ SignalIf(stage # "NIT", e) \in {Signal(e), <<>>}
        /\ SignalIf(curr >= 0, e) \in {Signal(e), <<>>}
    BY DEF SignalIf
  <1>2. Fits(Signal(e) \o p) /\ Fits(<<>> \o p)
    BY PlainFits, EmptyFits, FitsJoined
  <1> QED
    BY <1>1, <1>2

LEMMA StagesKeep ==
  ASSUME IInv, TryNit \/ StartNextTs
  PROVE  IInv'
  <1>1. /\ todo # <<>> /\ Head(todo)[1] \in {"tryNit", "nextTs"}
        /\ {"tryNit", "nextTs"} \cap (Early \cup {"free", "sync"}) = {}
    BY DEF TryNit, StartNextTs, At, Early, Last
  <1>2. UNCHANGED <<life, mode, joiner, evt, batch, recv, over, freqs, curr, ts, tses, started, fid,
                    armed, ctl, data, prog, pats, owner, subs, st, call, asked, ends, owed, crashed>>
    BY DEF TryNit, StartNextTs, app, tables, registry, demux, history, frontend
  <1>3. \E p : Fits(p) /\ todo' = p \o Rest
    <2>1. /\ Fits(SignalIf(stage # "NIT", "NIT_BEGIN") \o
                  (SignalIf(curr >= 0, "TS_END") \o <<S("tune", "")>>))
          /\ Fits(SignalIf(curr >= 0, "TS_END") \o <<S("leaveTs", ""), S("tune", "")>>)
      BY PlainFits, MaybeFits DEF Events
    <2>2. SignalIf(stage # "NIT", "NIT_BEGIN") \o SignalIf(curr >= 0, "TS_END") \o <<S("tune", "")>> =
            SignalIf(stage # "NIT", "NIT_BEGIN") \o (SignalIf(curr >= 0, "TS_END") \o <<S("tune", "")>>)
      <3>1. /\ SignalIf(stage # "NIT", "NIT_BEGIN") \in {Signal("NIT_BEGIN"), <<>>}
            /\ SignalIf(curr >= 0, "TS_END") \in {Signal("TS_END"), <<>>}
        BY DEF SignalIf
      <3>2. /\ SignalIf(stage # "NIT", "NIT_BEGIN") \in Seq(Items)
            /\ SignalIf(curr >= 0, "TS_END") \in Seq(Items)
            /\ <<S("tune", "")>> \in Seq(Items)
        BY <3>1, PlainFits, EmptyFits DEF Fits, Events
      <3>3. PICK a \in Seq(Items), b \in Seq(Items), c \in Seq(Items) :
              /\ a = SignalIf(stage # "NIT", "NIT_BEGIN") /\ b = SignalIf(curr >= 0, "TS_END")
              /\ c = <<S("tune", "")>>
        BY <3>2
      <3>4. a \o b \o c = a \o (b \o c)
        BY ConcatAssociative
      <3> QED
        BY <3>3, <3>4
    <2>3. TryNit \/ StartNextTs
      OBVIOUS
    <2> QED
      BY <2>1, <2>2, <2>3 DEF TryNit, StartNextTs, Then
  <1>4. stage' \in {"NIT", "TS"}
    BY DEF TryNit, StartNextTs
  <1>5. TypeOK'
    BY <1>2, <1>4 DEF IInv, TypeOK, Evt!TypeOK, Dmx!TypeOK, Count
  <1> QED
    BY <1>1, <1>2, <1>3, <1>5, GoesOn

LEMMA LeaveTsKeeps ==
  ASSUME IInv, LeaveTs
  PROVE  IInv'
  <1>1. todo # <<>> /\ Head(todo)[1] = "leaveTs" /\ "leaveTs" \notin Early \cup {"free", "sync"}
    BY DEF LeaveTs, At, Early, Last
  <1>2. UNCHANGED <<life, mode, joiner, evt, batch, recv, over, stage, freqs, curr, tses, started, fid,
                    armed, ctl, prog, owner, subs, st, call, ends, owed, crashed>>
    BY DEF LeaveTs, app, plan, registry, demux, frontend
  <1>3. todo' = <<>> \o Rest
    BY <1>1, EmptyFits DEF LeaveTs
  <1>4. /\ ts' = None /\ pats' = None /\ asked' = {} /\ data' \in [Tables -> Amount]
    BY DEF LeaveTs, NothingCollected, IInv, TypeOK, Amount
  <1>5. TypeOK'
    BY <1>2, <1>4 DEF IInv, TypeOK, Evt!TypeOK, Dmx!TypeOK, Count
  <1> QED
    BY <1>1, <1>2, <1>3, <1>5, EmptyFits, GoesOn

LEMMA TuneKeeps ==
  ASSUME IInv, TuneNext \/ SetPara
  PROVE  IInv'
  <1>1. /\ todo # <<>> /\ Head(todo)[1] \in {"tune", "setPara"}
        /\ {"tune", "setPara"} \cap (Early \cup {"free", "sync"}) = {}
    BY DEF TuneNext, SetPara, At, Early, Last
  <1>2. UNCHANGED <<life, mode, joiner, evt, batch, over, ts, tses, started, fid, armed, ctl, data,
                    prog, pats, owner, subs, st, call, asked, ends, crashed>>
    BY DEF TuneNext, SetPara, app, tables, registry, demux, history
  <1>3. \E p : Fits(p) /\ todo' = p \o Rest
    <2>1. /\ Fits(Signal("SCAN_END")) /\ Fits(Signal("TS_BEGIN") \o <<S("setPara", "")>>)
          /\ Fits(Signal("TS_END") \o <<S("tune", "")>>)
      BY PlainFits, FitsJoined DEF Events
    <2>2. \/ todo' = Signal("SCAN_END") \o Rest
          \/ todo' = (Signal("TS_BEGIN") \o <<S("setPara", "")>>) \o Rest
          \/ todo' = (Signal("TS_END") \o <<S("tune", "")>>) \o Rest
          \/ todo' = Rest
      BY DEF TuneNext, SetPara, Then
    <2> QED
      BY <1>1, <2>1, <2>2, EmptyFits
  <1>4. /\ recv' \in SUBSET (Tables \cup {"fend"}) /\ owed' \in BOOLEAN
        /\ stage' \in {"WAIT_START", "NIT", "TS", "DONE"}
    BY Typed DEF TuneNext, SetPara, plan, frontend, IInv, TypeOK
  <1>5. /\ freqs' \in FreqLists \cup {mode.freqs, None}
        /\ curr' \in -1..(Count' - 1) \/ (freqs' = None /\ curr' = 0)
    <2>1. /\ freqs \in FreqLists \cup {mode.freqs, None}
          /\ curr \in -1..(Count - 1) \/ (freqs = None /\ curr = 0)
      BY DEF IInv, TypeOK
    <2>2. \/ UNCHANGED <<freqs, curr>>
          \/ freqs' = None /\ curr' \in {0, -1}
          \/ freqs' = freqs /\ curr' = curr + 1 /\ ~(curr + 1 >= Count)
      BY DEF TuneNext, SetPara, plan
    <2>3. CASE UNCHANGED <<freqs, curr>>
      BY <2>1, <2>3 DEF Count
    <2>4. CASE freqs' = None /\ curr' \in {0, -1}
      <3>1. Count' = 0
        BY <2>4 DEF Count
      <3>2. -1 \in -1..(0 - 1)
        OBVIOUS
      <3> QED
        BY <2>4, <3>1, <3>2
    <2>5. CASE freqs' = freqs /\ curr' = curr + 1 /\ ~(curr + 1 >= Count)
      <3>1. Count' = Count /\ Count \in Nat
        BY <2>5, Typed DEF Count
      <3>2. freqs = None => Count = 0
        BY DEF Count
      <3>3. curr + 1 \in -1..(Count - 1)
        BY <2>1, <2>5, <3>1, <3>2
      <3> QED
        BY <2>1, <2>5, <3>1, <3>3
    <2> QED
      BY <2>2, <2>3, <2>4, <2>5
  <1>6. TypeOK'
    BY <1>2, <1>4, <1>5 DEF IInv, TypeOK, Evt!TypeOK, Dmx!TypeOK
  <1> QED
    BY <1>1, <1>2, <1>3, <1>6, GoesOn

LEMMA FendKeeps ==
  ASSUME IInv, SolveFendEvt \/ Unlocked
  PROVE  IInv'
  <1>1. /\ todo # <<>> /\ Head(todo)[1] \in {"fend", "outcome"}
        /\ {"fend", "outcome"} \cap (Early \cup {"free", "sync"}) = {}
    BY DEF SolveFendEvt, Unlocked, At, Early, Last
  <1>2. UNCHANGED <<life, mode, joiner, evt, batch, over, stage, freqs, curr, ts, tses, started, fid,
                    armed, ctl, data, prog, pats, owner, subs, st, call, asked, ends, crashed, owed>>
    BY DEF SolveFendEvt, Unlocked, app, plan, tables, registry, demux, history, frontend
  <1>3. \E p : Fits(p) /\ todo' = p \o Rest
    <2>1. Fits(Signal("SIGNAL") \o <<S("outcome", "")>>)
      BY PlainFits, FitsJoined DEF Events
    <2>2. CASE SolveFendEvt
      <3>1. todo' = (Signal("SIGNAL") \o <<S("outcome", "")>>) \o Rest \/ todo' = Rest
        BY <2>2 DEF SolveFendEvt, Then
      <3> QED
        BY <1>1, <2>1, <3>1, EmptyFits
    <2>3. CASE Unlocked
      <3>1. todo' = (CASE stage = "NIT" -> <<S("tryNit", "")>>
                       [] stage = "TS" -> NextTs
                       [] OTHER -> <<>>) \o Rest
        BY <2>3 DEF Unlocked, Then
      <3>2. CASE stage = "NIT"
        BY <3>1, <3>2, PlainFits
      <3>3. CASE stage = "TS"
        BY <3>1, <3>3, NextTsFits
      <3>4. CASE stage \notin {"NIT", "TS"}
        BY <3>1, <3>4, EmptyFits
      <3> QED
        BY <3>2, <3>3, <3>4
    <2> QED
      BY <2>2, <2>3
  <1>4. recv' \in SUBSET (Tables \cup {"fend"})
    BY Typed DEF SolveFendEvt, Unlocked
  <1>5. TypeOK'
    BY <1>2, <1>4 DEF IInv, TypeOK, Evt!TypeOK, Dmx!TypeOK, Count
  <1> QED
    BY <1>1, <1>2, <1>3, <1>5, GoesOn

LEMMA LockedKeeps ==
  ASSUME IInv, LockedNit \/ LockedTs
  PROVE  IInv'
  <1>1. /\ todo # <<>> /\ Head(todo)[1] = "outcome" /\ "outcome" \notin Early \cup {"free", "sync"}
    BY DEF LockedNit, LockedTs, At, Early, Last
  <1>2. UNCHANGED <<life, mode, joiner, evt, batch, recv, over, stage, freqs, curr, started, fid,
                    armed, prog, owner, subs, st, call, ends, owed>>
    BY DEF LockedNit, LockedTs, app, plan, registry, demux, frontend, history
  <1>3. \E p : Fits(p) /\ todo' = p \o Rest
    <2>1. \A t \in Tables : Fits(Request(t))
      BY TableFits
    <2>2. {"pat", "cat", "mgt", "sdt", "nit", "bat"} \subseteq Tables
      BY DEF Tables, TsTables
    <2>3. Fits(Request("nit") \o IF mode.bat THEN Request("bat") ELSE <<>>)
      <3>1. Fits(Request("nit") \o Request("bat")) /\ Fits(Request("nit") \o <<>>)
        BY <2>1, <2>2, FitsJoined, EmptyFits
      <3> QED
        BY <3>1
    <2>4. Fits((Request("pat") \o Request("cat")) \o Request("mgt"))
      BY <2>1, <2>2, FitsJoined
    <2>5. Fits((Request("pat") \o Request("cat")) \o Request("sdt"))
      BY <2>1, <2>2, FitsJoined
    <2>6. CASE LockedNit
      <3>1. \/ todo' = (Request("nit") \o IF mode.bat THEN Request("bat") ELSE <<>>) \o Rest
            \/ todo' = Rest
        BY <2>6 DEF LockedNit, Then
      <3> QED
        BY <1>1, <2>3, <3>1, EmptyFits
    <2>7. CASE LockedTs
      <3>1. \/ todo' = ((Request("pat") \o Request("cat")) \o Request("mgt")) \o Rest
            \/ todo' = ((Request("pat") \o Request("cat")) \o Request("sdt")) \o Rest
        BY <2>7 DEF LockedTs, Then
      <3> QED
        BY <2>4, <2>5, <3>1
    <2> QED
      BY <2>6, <2>7
  <1>4. ctl' \in [Tables -> Amount]
    BY DEF IInv, TypeOK, LockedNit, LockedTs, Cleared, Amount
  <1>5. /\ data' \in [Tables -> Amount] /\ pats' \in {None, 0, Programs}
        /\ asked' \in SUBSET (1..Programs)
    BY DEF IInv, TypeOK, LockedNit, LockedTs, NothingCollected, Amount, history
  <1>6. ts' \in Freqs \cup {None} /\ tses' \in SUBSET Freqs /\ crashed' \in BOOLEAN
    <2>1. CASE LockedNit
      BY <2>1 DEF LockedNit, IInv, TypeOK
    <2>2. CASE LockedTs
      <3>1. ts' \in Freqs
        <4>1. CASE InList
          <5>1. freqs \in Seq(Freqs) /\ curr \in Int /\ curr + 1 \in 1..Len(freqs)
            <6>1. curr >= 0 /\ curr < Count /\ curr \in Int
              BY <4>1, Typed DEF InList, IInv, TypeOK
            <6>2. freqs # None
              BY <6>1 DEF Count
            <6>3. freqs \in Seq(Freqs) /\ Count = Len(freqs)
              BY <6>2, Typed DEF Count
            <6> QED
              BY <6>1, <6>3
          <5>2. freqs[curr + 1] \in Freqs
            BY <5>1
          <5> QED
            BY <2>2, <4>1, <5>2 DEF LockedTs
        <4>2. CASE ~InList
          BY <2>2, <4>2 DEF LockedTs
        <4> QED
          BY <4>1, <4>2
      <3>2. crashed' \in BOOLEAN
        BY <2>2 DEF LockedTs
      <3> QED
        BY <2>2, <3>1, <3>2 DEF LockedTs, IInv, TypeOK
    <2> QED
      BY <2>1, <2>2
  <1>7. TypeOK'
    BY <1>2, <1>4, <1>5, <1>6 DEF IInv, TypeOK, Evt!TypeOK, Dmx!TypeOK, Count
  <1> QED
    BY <1>1, <1>2, <1>3, <1>7, GoesOn

LEMMA LoopsKeep ==
  ASSUME IInv, TablesDone \/ CheckTimeout
  PROVE  IInv'
  <1>1. /\ todo # <<>> /\ Head(todo)[1] \in {"tables", "checks"}
        /\ {"tables", "checks"} \cap (Early \cup {"free", "sync"}) = {}
    BY DEF TablesDone, CheckTimeout, At, Early, Last
  <1>2. UNCHANGED <<life, mode, joiner, evt, batch, recv, over, stage, freqs, curr, ts, tses, started,
                    fid, armed, ctl, data, prog, pats, owner, subs, st, call, asked, ends, crashed,
                    owed>>
    BY DEF TablesDone, CheckTimeout, app, plan, tables, registry, demux, history, frontend
  <1>3. \E p : Fits(p) /\ todo' = p \o Rest
    <2>1. PICK U \in (SUBSET Tables) \ {{}} : U = Arg
      BY <1>1, HeadIs DEF IInv, LoopSteps
    <2>2. PICK t \in Tables : t = First(U)
      BY <2>1, FirstTable
    <2>3. Fits(DoneSteps(t)) /\ \A name \in LoopSteps : Fits(Loop(name, U \ {t}))
      BY <2>1, TableFits, LoopFits
    <2>4. /\ Fits(DoneSteps(t) \o Loop("tables", U \ {t}))
          /\ Fits(DoneSteps(t) \o Loop("checks", U \ {t}))
          /\ Fits(<<>> \o Loop("checks", U \ {t}))
      BY <2>3, FitsJoined, EmptyFits DEF LoopSteps
    <2>5. \/ todo' = (DoneSteps(t) \o Loop("tables", U \ {t})) \o Rest
          \/ todo' = (DoneSteps(t) \o Loop("checks", U \ {t})) \o Rest
          \/ todo' = (<<>> \o Loop("checks", U \ {t})) \o Rest
      BY <2>1, <2>2 DEF TablesDone, CheckTimeout, Then
    <2> QED
      BY <2>4, <2>5
  <1>4. TypeOK'
    BY <1>2 DEF IInv, TypeOK, Evt!TypeOK, Dmx!TypeOK, Count
  <1> QED
    BY <1>1, <1>2, <1>3, <1>4, GoesOn

--------------------------------------------------------------------------------
(* Agendas with a step that only comes first.                                *)

LEMMA FirstStep ==
  ASSUME NEW q \in Items, NEW r \in Seq(Items)
  PROVE  /\ <<q>> \o r \in Seq(Items) /\ <<q>> \o r # <<>>
         /\ Head(<<q>> \o r) = q /\ Tail(<<q>> \o r) = r
         /\ Len(<<q>> \o r) = Len(r) + 1 /\ (<<q>> \o r)[1] = q
         /\ \A i \in 1..Len(<<q>> \o r) :
              i # 1 => i - 1 \in 1..Len(r) /\ (<<q>> \o r)[i] = r[i - 1]
         /\ \A i \in 1..Len(r) :
              Freed(r, i) => i + 1 \in 1..Len(<<q>> \o r) /\ Freed(<<q>> \o r, i + 1)
  <1> DEFINE u == <<q>> \o r
  <1>1. u \in Seq(Items) /\ u # <<>> /\ Head(u) = q /\ Tail(u) = r
    OBVIOUS
  <1> HIDE DEF u
  <1>2. /\ u[1] = q /\ Len(r) = Len(u) - 1 /\ Len(u) \in Nat \ {0} /\ Len(r) \in Nat
        /\ \A i \in 1..Len(r) : i + 1 \in 1..Len(u) /\ r[i] = u[i + 1]
    BY <1>1, TailIs
  <1>3. \A i \in 1..Len(u) : i # 1 => i - 1 \in 1..Len(r) /\ u[i] = r[i - 1]
    <2>1. \A i \in 1..Len(u) : i # 1 => i - 1 \in 1..Len(r) /\ (i - 1) + 1 = i
      BY <1>2
    <2> QED
      BY <1>2, <2>1
  <1>4. ASSUME NEW i \in 1..Len(r), Freed(r, i)
        PROVE  i + 1 \in 1..Len(u) /\ Freed(u, i + 1)
    <2>1. i > 1 /\ r[i - 1] = S("free", r[i][2]) /\ i - 1 \in 1..Len(r) /\ (i - 1) + 1 = i
          /\ (i + 1) - 1 = i /\ i + 1 > 1
      BY <1>2, <1>4 DEF Freed
    <2> QED
      BY <1>2, <2>1 DEF Freed
  <1> QED
    BY <1>1, <1>2, <1>3, <1>4 DEF u

LEMMA BeginInOrder ==
  ASSUME NEW q \in Items, NEW r \in Seq(Items), Loose(r), q[1] = "begin", NEW F
  PROVE  InOrder(<<q>> \o r, F) /\ Lacks(<<q>> \o r, {"start"})
  <1> DEFINE u == <<q>> \o r
  <1>1. /\ u[1] = q
        /\ \A i \in 1..Len(u) : i # 1 => i - 1 \in 1..Len(r) /\ u[i] = r[i - 1]
        /\ \A i \in 1..Len(r) : Freed(r, i) => Freed(u, i + 1)
    BY FirstStep
  <1>2. \A i \in 1..Len(u) : (i - 1) + 1 = i
    OBVIOUS
  <1> HIDE DEF u
  <1>3. \A i \in 1..Len(u) : i # 1 => u[i][1] \notin First2 /\ (u[i][1] = "alloc" => Freed(u, i))
    BY <1>1, <1>2 DEF Loose
  <1>4. InOrder(u, F) /\ Lacks(u, {"start"})
    BY <1>1, <1>3 DEF InOrder, Ready, Lacks, First2
  <1> QED
    BY <1>4 DEF u

LEMMA StartInOrder ==
  ASSUME NEW p \in Items, NEW q \in Items, NEW r \in Seq(Items), Loose(r),
         p[1] = "signal", q[1] = "start", NEW F
  PROVE  InOrder(<<p>> \o (<<q>> \o r), F)
  <1> DEFINE u == <<q>> \o r
             v == <<p>> \o u
  <1>1. /\ u \in Seq(Items) /\ u[1] = q
        /\ \A i \in 1..Len(u) : i # 1 => i - 1 \in 1..Len(r) /\ u[i] = r[i - 1]
        /\ \A i \in 1..Len(r) : Freed(r, i) => Freed(u, i + 1)
    BY FirstStep
  <1>2. \A i \in 1..Len(u) : (i - 1) + 1 = i
    OBVIOUS
  <1> HIDE DEF u
  <1>3. /\ \A i \in 1..Len(u) : i # 1 => u[i][1] \notin First2 /\ (u[i][1] = "alloc" => Freed(u, i))
    BY <1>1, <1>2 DEF Loose
  <1>4. /\ v[1] = p
        /\ \A i \in 1..Len(v) : i # 1 => i - 1 \in 1..Len(u) /\ v[i] = u[i - 1]
        /\ \A i \in 1..Len(u) : Freed(u, i) => Freed(v, i + 1)
    BY <1>1, FirstStep
  <1>5. \A i \in 1..Len(v) : (i - 1) + 1 = i /\ (i - 1 = 1 => i = 2)
    OBVIOUS
  <1> HIDE DEF v
  <1>6. \A i \in 1..Len(v) : i # 1 => /\ v[i][1] \notin {"sync", "begin"}
                                      /\ v[i][1] = "start" => i = 2
                                      /\ v[i][1] = "alloc" => Freed(v, i)
    BY <1>1, <1>3, <1>4, <1>5 DEF First2
  <1>7. InOrder(v, F)
    BY <1>4, <1>6 DEF InOrder, Ready
  <1> QED
    BY <1>7 DEF u, v

--------------------------------------------------------------------------------
(* The rounds of the thread's loop.                                          *)

Rounds == {"tsComplete", "wait", "endBatch", "quit"}

LEMMA RoundIs ==
  ASSUME NEW name \in Rounds
  PROVE  /\ Fits(<<S(name, "")>>) /\ Only(<<S(name, "")>>, Early)
         /\ Lacks(<<S(name, "")>>, {"start"})
  <1>1. name \in PlainSteps \ (First2 \cup Last) /\ name \in Early /\ name # "start"
    BY DEF Rounds, PlainSteps, First2, Last, Early
  <1> DEFINE q == S(name, "")
  <1>2. q \in Items /\ q[1] = name
    BY <1>1 DEF Items, S
  <1> HIDE DEF q
  <1>3. Only(<<q>>, Early) /\ Lacks(<<q>>, {"start"})
    BY <1>1, <1>2, OneStep
  <1> QED
    BY <1>1, <1>3, StepFits DEF q

LEMMA TimeoutStepsIs ==
  ASSUME NEW o \in SUBSET Tables
  PROVE  /\ Fits(TimeoutSteps(o))
         /\ o = {} => Only(TimeoutSteps(o), Early)
  <1>1. Fits(<<S("tsComplete", "")>>) /\ Only(<<S("tsComplete", "")>>, Early)
    BY RoundIs DEF Rounds
  <1>2. Fits(Loop("checks", o \cap Checked))
    BY LoopFits DEF LoopSteps
  <1>3. ASSUME o = {} PROVE TimeoutSteps(o) = <<S("tsComplete", "")>>
    <2>1. Loop("checks", o \cap Checked) = <<>>
      BY <1>3 DEF Loop
    <2>2. <<S("tsComplete", "")>> \in Seq(Items)
      BY <1>1 DEF Fits
    <2> QED
      BY <2>1, <2>2, EmptyIs DEF TimeoutSteps
  <1>4. Fits(TimeoutSteps(o))
    BY <1>1, <1>2, FitsJoined DEF TimeoutSteps
  <1> QED
    BY <1>1, <1>3, <1>4

(* What a thread may go on with: a step that begins the scan, or none, then  *)
(* steps that may come after any others.                                     *)
Resumes(s) ==
  /\ s \in Seq(Items) /\ (\A F : InOrder(s, F)) /\ Lacks(s, Last) /\ Lacks(s, {"start"})

LEMMA FitsResumes ==
  ASSUME NEW r, Fits(r)
  PROVE  Resumes(r)
  <1>1. r \in Seq(Items) /\ Loose(r) /\ Lacks(r, Last)
    BY DEF Fits
  <1>2. Lacks(r, {"start"})
    BY <1>1 DEF Loose, Lacks, First2
  <1> QED
    BY <1>1, <1>2, LooseInOrder DEF Resumes

LEMMA BeginResumes ==
  ASSUME NEW r, Fits(r)
  PROVE  /\ Resumes(<<S("begin", "")>> \o r)
         /\ Only(r, Early) => Only(<<S("begin", "")>> \o r, Early)
  <1> DEFINE q == S("begin", "")
  <1>1. q \in Items /\ q[1] = "begin" /\ "begin" \notin Last /\ "begin" \in Early
    BY DEF Items, PlainSteps, Last, Early, S
  <1>2. r \in Seq(Items) /\ Loose(r) /\ Lacks(r, Last)
    BY DEF Fits
  <1> HIDE DEF q
  <1>3. /\ <<q>> \o r \in Seq(Items) /\ \A F : InOrder(<<q>> \o r, F)
        /\ Lacks(<<q>> \o r, {"start"})
    BY <1>1, <1>2, BeginInOrder, FirstStep
  <1>4. <<q>> \in Seq(Items) /\ Lacks(<<q>>, Last) /\ Only(<<q>>, Early)
    BY <1>1, OneStep
  <1>5. Lacks(<<q>> \o r, Last) /\ (Only(r, Early) => Only(<<q>> \o r, Early))
    BY <1>2, <1>4, LacksJoined
  <1> QED
    BY <1>3, <1>5 DEF Resumes, q

LEMMA ServiceOfIs ==
  ASSUME NEW b \in SUBSET (Tables \cup {"START", "FEND", "QUIT"})
  PROVE  /\ Resumes(ServiceOf(b))
         /\ b \subseteq EarlyFlags => Only(ServiceOf(b), Early)
  <1> DEFINE If(flag, step) == IF flag \in b THEN <<S(step, "")>> ELSE <<>>
             p1 == If("START", "begin")
             p2 == If("FEND", "fend")
             p3 == Loop("tables", b \cap Tables)
             p4 == <<S(IF "QUIT" \in b THEN "quit" ELSE "endBatch", "")>>
             r == p2 \o (p3 \o p4)
  <1>1. ServiceOf(b) = p1 \o p2 \o p3 \o p4
    BY Zenon DEF ServiceOf
  <1>2. Fits(p2) /\ (b \subseteq EarlyFlags => Only(p2, Early))
    <2>1. Fits(<<S("fend", "")>>)
      <3>1. "fend" \in PlainSteps \ (First2 \cup Last)
        BY DEF PlainSteps, First2, Last
      <3> QED
        BY <3>1, StepFits
    <2>2. Fits(<<>>) /\ Only(<<>>, Early)
      BY EmptyIs, EmptyFits
    <2>3. b \subseteq EarlyFlags => "FEND" \notin b
      BY DEF EarlyFlags
    <2> QED
      BY <2>1, <2>2, <2>3
  <1>3. Fits(p3) /\ (b \subseteq EarlyFlags => Only(p3, Early))
    <2>1. Fits(p3)
      BY LoopFits DEF LoopSteps
    <2>2. b \subseteq EarlyFlags => b \cap Tables = {}
      BY DEF EarlyFlags, Tables, TsTables
    <2>3. b \subseteq EarlyFlags => p3 = <<>>
      BY <2>2 DEF Loop
    <2> QED
      BY <2>1, <2>3, EmptyIs
  <1>4. Fits(p4) /\ Only(p4, Early)
    BY RoundIs DEF Rounds
  <1>5. p1 = <<>> \/ p1 = <<S("begin", "")>>
    OBVIOUS
  <1> HIDE DEF p2, p3, p4
  <1>6. Fits(r) /\ (b \subseteq EarlyFlags => Only(r, Early))
    <2>1. Fits(p3 \o p4) /\ (b \subseteq EarlyFlags => Only(p3 \o p4, Early))
      BY <1>3, <1>4, FitsJoined, LacksJoined DEF Fits
    <2> QED
      BY <1>2, <2>1, FitsJoined, LacksJoined DEF Fits
  <1> HIDE DEF p1
  <1>7. /\ p2 \in Seq(Items) /\ p3 \in Seq(Items) /\ p4 \in Seq(Items)
        /\ p3 \o p4 \in Seq(Items)
    BY <1>2, <1>3, <1>4 DEF Fits
  <1>8. CASE p1 = <<>>
    <2>1. ServiceOf(b) = r
      <3>1. (p2 \o p3) \o p4 = p2 \o (p3 \o p4)
        BY <1>7, ConcatAssociative
      <3>2. <<>> \o p2 = p2
        BY <1>7, EmptyIs
      <3> QED
        BY <1>1, <1>8, <3>1, <3>2 DEF r
    <2> QED
      BY <1>6, <2>1, FitsResumes
  <1>9. CASE p1 = <<S("begin", "")>>
    <2>1. ServiceOf(b) = <<S("begin", "")>> \o r
      <3> DEFINE q == <<S("begin", "")>>
      <3>1. q \in Seq(Items)
        <4>1. S("begin", "") \in Items
          BY DEF Items, PlainSteps, S
        <4> QED
          BY <4>1, OneStep
      <3> HIDE DEF q
      <3>2. q \o p2 \in Seq(Items)
        BY <1>7, <3>1
      <3>3. (q \o p2) \o (p3 \o p4) = q \o (p2 \o (p3 \o p4))
        <4>1. PICK v \in Seq(Items) : v = p3 \o p4
          BY <1>7
        <4>2. (q \o p2) \o v = q \o (p2 \o v)
          BY <1>7, <3>1, ConcatAssociative
        <4> QED
          BY <4>1, <4>2
      <3>4. ((q \o p2) \o p3) \o p4 = (q \o p2) \o (p3 \o p4)
        BY <1>7, <3>2, ConcatAssociative
      <3> QED
        BY <1>1, <1>9, <3>3, <3>4 DEF q, r
    <2> QED
      BY <1>6, <2>1, BeginResumes
  <1> QED
    BY <1>5, <1>8, <1>9

LEMMA RoundsKeep ==
  ASSUME IInv, TsComplete \/ Wake \/ SpuriousWake \/ WaitTimesOut \/ EndBatch
  PROVE  IInv'
  <1>1. /\ todo # <<>> /\ Head(todo)[1] \in {"tsComplete", "wait", "endBatch"}
        /\ {"tsComplete", "wait", "endBatch"} \cap (Last \cup {"signal"}) = {}
    BY DEF TsComplete, Wake, SpuriousWake, WakeWhen, WaitTimesOut, EndBatch, At, Last
  <1>2. UNCHANGED <<life, mode, joiner, recv, stage, freqs, curr, ts, tses, started, fid, armed, ctl,
                    data, prog, pats, owner, subs, st, call, asked, ends, crashed, owed>>
    BY DEF TsComplete, Wake, SpuriousWake, WakeWhen, WaitTimesOut, EndBatch, app, plan, tables,
           registry, demux, history, frontend
  <1>3. /\ evt' \in SUBSET (Tables \cup {"START", "FEND", "QUIT"})
        /\ batch' \in SUBSET (Tables \cup {"START", "FEND", "QUIT"})
        /\ over' \in SUBSET Tables
    BY Typed DEF TsComplete, Wake, SpuriousWake, WakeWhen, Serve, WaitTimesOut, EndBatch
  <1>4. ~started => /\ stage = "WAIT_START" /\ recv = {}
                    /\ evt \subseteq EarlyFlags /\ batch \subseteq EarlyFlags
    BY DEF IInv, Starting
  <1>5. ~started => evt' \subseteq EarlyFlags /\ batch' \subseteq EarlyFlags
    BY <1>4 DEF TsComplete, Wake, SpuriousWake, WakeWhen, Serve, WaitTimesOut, EndBatch
  <1>6. Resumes(todo') /\ (~started => Only(todo', Early))
    <2>1. /\ Fits(<<S("wait", "")>>) /\ Only(<<S("wait", "")>>, Early)
          /\ Fits(NextTs \o <<S("wait", "")>>)
      BY RoundIs, NextTsFits, FitsJoined DEF Rounds
    <2>2. CASE TsComplete
      <3>1. \/ todo' = <<S("wait", "")>>
            \/ todo' = NextTs \o <<S("wait", "")>> /\ stage = "TS"
        BY <2>2 DEF TsComplete
      <3> QED
        BY <1>4, <2>1, <3>1, FitsResumes
    <2>3. CASE Wake \/ SpuriousWake
      <3>1. todo' = ServiceOf(evt)
        BY <2>3 DEF Wake, SpuriousWake, WakeWhen, Serve
      <3> QED
        BY <1>4, <3>1, ServiceOfIs, Typed
    <2>4. CASE WaitTimesOut
      <3>1. todo' = TimeoutSteps(over') /\ started
        <4>1. PICK late \in (SUBSET ((recv \cap Tables) \ over)) \ {{}} : TRUE
          BY <2>4 DEF WaitTimesOut
        <4>2. late # {} /\ \A t \in late : t \in recv
          OBVIOUS
        <4>3. recv # {}
          BY <4>2
        <4> QED
          BY <1>4, <2>4, <4>3 DEF WaitTimesOut
      <3>2. Fits(TimeoutSteps(over'))
        BY <1>3, TimeoutStepsIs
      <3> QED
        BY <3>1, <3>2, FitsResumes
    <2>5. CASE EndBatch
      <3>1. /\ todo' = TimeoutSteps(over') \/ todo' = ServiceOf(evt')
            /\ ~started => over' = {}
        BY <1>4, <2>5 DEF EndBatch
      <3>2. Fits(TimeoutSteps(over')) /\ (~started => Only(TimeoutSteps(over'), Early))
        BY <1>3, <3>1, TimeoutStepsIs
      <3>3. Resumes(ServiceOf(evt')) /\ (~started => Only(ServiceOf(evt'), Early))
        BY <1>3, <1>5, ServiceOfIs
      <3> QED
        BY <3>1, <3>2, <3>3, FitsResumes
    <2> QED
      BY <2>2, <2>3, <2>4, <2>5
  <1>7. TypeOK'
    BY <1>2, <1>3 DEF IInv, TypeOK, Evt!TypeOK, Dmx!TypeOK, Count
  <1>8. Lacks(todo, Last)
    BY <1>1, NotExiting
  <1>9. Agenda' /\ Starting' /\ Living' /\ Filters'
    BY <1>1, <1>2, <1>4, <1>5, <1>6, <1>8, Goes DEF Resumes
  <1> QED
    BY <1>7, <1>9 DEF IInv

LEMMA BeginKeeps ==
  ASSUME IInv, Begin
  PROVE  IInv'
  <1>1. /\ todo # <<>> /\ Head(todo)[1] = "begin"
        /\ "begin" \notin Last \cup {"signal"} /\ "begin" \notin {"free", "sync", "signal"}
    BY DEF Begin, At, Last
  <1>2. UNCHANGED <<life, mode, joiner, evt, batch, recv, over, stage, freqs, curr, ts, tses, started,
                    fid, armed, ctl, data, prog, pats, owner, subs, st, call, asked, ends, crashed,
                    owed>>
    BY DEF Begin, app, plan, tables, registry, demux, history, frontend
  <1>3. /\ todo \in Seq(Items) /\ Rest = Tail(todo) /\ Rest \in Seq(Items) /\ Loose(Rest)
        /\ Lacks(todo, Last) /\ Lacks(Rest, Last)
    <2>1. todo \in Seq(Items) /\ InOrder(todo, fid) /\ Lacks(todo, Last)
      BY <1>1, NotExiting DEF IInv, Agenda
    <2> QED
      BY <1>1, <2>1, TailIs, TailLoose DEF Rest
  <1>4. ~started => /\ Only(Rest, Early) /\ stage = "WAIT_START" /\ recv = {}
                    /\ evt \subseteq EarlyFlags /\ batch \subseteq EarlyFlags
    BY <1>1, <1>3, TailIs DEF IInv, Starting
  <1>5. TypeOK'
    BY <1>2 DEF IInv, TypeOK, Evt!TypeOK, Dmx!TypeOK, Count
  <1>6. CASE started
    <2>1. todo' = <<>> \o Rest
      BY <1>6 DEF Begin, Then
    <2>2. todo' = Rest
      BY <1>3, <2>1, EmptyIs
    <2>3. Resumes(todo')
      BY <1>3, <2>2, FitsResumes DEF Fits
    <2>4. /\ todo' \in Seq(Items) /\ InOrder(todo', fid') /\ Lacks(todo', Last)
          /\ Lacks(todo', {"start"})
      BY <2>3 DEF Resumes
    <2>5. Agenda' /\ Starting' /\ Living' /\ Filters'
      BY <1>1, <1>2, <1>3, <1>6, <2>4, Goes
    <2> QED
      BY <1>5, <2>5 DEF IInv
  <1>7. CASE ~started
    <2> DEFINE p == S("signal", "SCAN_BEGIN")
               q == S("start", "")
    <2>1. todo' = (<<p>> \o <<q>>) \o Rest
      BY <1>7 DEF Begin, Then, Signal
    <2>2. p \in Items /\ q \in Items /\ p[1] = "signal" /\ q[1] = "start"
      BY DEF Items, Events, PlainSteps, S
    <2> HIDE DEF p, q
    <2>3. /\ <<p>> \in Seq(Items) /\ <<q>> \in Seq(Items)
          /\ Lacks(<<p>>, Last) /\ Lacks(<<q>>, Last) /\ Only(<<p>>, Early) /\ Only(<<q>>, Early)
      BY <2>2, OneStep DEF Last, Early
    <2>4. todo' = <<p>> \o (<<q>> \o Rest)
      BY <1>3, <2>1, <2>3, ConcatAssociative
    <2>5. <<q>> \o Rest \in Seq(Items)
      BY <1>3, <2>2, FirstStep
    <2>6. todo' \in Seq(Items)
      BY <2>2, <2>4, <2>5, FirstStep
    <2>7. Lacks(<<q>> \o Rest, Last) /\ Only(<<q>> \o Rest, Early)
      BY <1>3, <1>4, <1>7, <2>3, LacksJoined
    <2>8. Lacks(todo', Last) /\ Only(todo', Early)
      BY <2>3, <2>4, <2>5, <2>7, LacksJoined
    <2>9. InOrder(todo', fid')
      BY <1>3, <2>2, <2>4, StartInOrder
    <2>10. Agenda' /\ Starting' /\ Living' /\ Filters'
      BY <1>1, <1>2, <1>3, <1>4, <1>7, <2>6, <2>8, <2>9, Goes
    <2> QED
      BY <1>5, <2>10 DEF IInv
  <1> QED
    BY <1>6, <1>7

LEMMA StartScanKeeps ==
  ASSUME IInv, StartScan
  PROVE  IInv'
  <1>1. /\ todo # <<>> /\ Head(todo)[1] = "start" /\ life = "live"
        /\ "start" \notin Last \cup {"signal"} /\ "start" \notin {"free", "sync", "signal"}
    BY DEF StartScan, At, Last, IInv, Living
  <1>2. /\ UNCHANGED <<life, mode, joiner, evt, batch, recv, over, stage, freqs, ts, tses, armed, ctl,
                       data, prog, pats, owner, st, call, asked, ends, crashed, owed>>
        /\ subs' = subs \cup {Callback} /\ started' = TRUE /\ fid' = [t \in Tables |-> -1]
        /\ curr' = -1
    BY DEF StartScan, Evt!Subscribe, app, registry, demux, history, frontend
  <1>3. /\ todo \in Seq(Items) /\ Rest = Tail(todo) /\ Rest \in Seq(Items) /\ Loose(Rest)
        /\ Lacks(todo, Last) /\ Lacks(Rest, Last)
    <2>1. todo \in Seq(Items) /\ InOrder(todo, fid) /\ Lacks(todo, Last)
      BY <1>1, NotExiting DEF IInv, Agenda
    <2> QED
      BY <1>1, <2>1, TailIs, TailLoose DEF Rest
  <1>4. ~started /\ \A f \in FilterIds : st[Self][f] = "quiet"
    <2>1. Head(todo) = todo[1] /\ 1 \in 1..Len(todo)
      BY <1>1, <1>3, TailIs
    <2>2. ~Lacks(todo, {"start"})
      BY <1>1, <2>1 DEF Lacks
    <2> QED
      BY <2>2 DEF IInv, Starting, TypeOK
  <1>5. Resumes(todo')
    <2>1. PICK p : Fits(p) /\ todo' = p \o Rest
      <3>1. todo' = <<S("tryNit", "")>> \o Rest \/ todo' = NextTs \o Rest
        BY DEF StartScan, Then
      <3> QED
        BY <3>1, PlainFits, NextTsFits
    <2>2. Fits(p \o Rest)
      BY <1>3, <2>1, FitsJoined DEF Fits
    <2> QED
      BY <2>1, <2>2, FitsResumes
  <1>6. TypeOK'
    <2>1. fid' \in [Tables -> FilterIds \cup {-1, 0}]
      BY <1>2
    <2>2. -1 \in -1..(Count' - 1)
      <3>1. PICK n \in Nat : n = Count'
        BY <1>2, Typed DEF Count
      <3>2. -1 \in -1..(n - 1)
        OBVIOUS
      <3> QED
        BY <3>1, <3>2
    <2> QED
      BY <1>2, <2>1, <2>2 DEF IInv, TypeOK, Evt!TypeOK, Dmx!TypeOK
  <1>7. Agenda' /\ Starting' /\ Living'
    BY <1>1, <1>2, <1>5 DEF Resumes, Agenda, Starting, Living
  <1>8. Filters'
    <2>1. /\ \A f \in FilterIds : st'[Self][f] = "quiet"
          /\ \A t \in Tables : fid'[t] = -1
      BY <1>2, <1>4
    <2>2. Accounted'
      BY <2>1, Typed DEF Accounted
    <2>3. Dmx!Quiescence'
      BY <1>2 DEF IInv, Filters, Dmx!Quiescence
    <2> QED
      BY <2>1, <2>2, <2>3 DEF Filters
  <1> QED
    BY <1>6, <1>7, <1>8 DEF IInv

--------------------------------------------------------------------------------
(* Signals, and the end of the thread.                                       *)

LEMMA TypeStays ==
  ASSUME IInv,
         UNCHANGED <<life, mode, joiner, batch, recv, over, stage, freqs, curr, ts, tses, started,
                     fid, armed, ctl, data, prog, pats, asked, crashed, owed>>,
         evt' \in SUBSET (Tables \cup {"START", "FEND", "QUIT"}), ends' \in 0..2,
         owner' = owner, subs' \in {subs, subs \ {Callback}}, Dmx!TypeOK'
  PROVE  TypeOK'
  BY DEF IInv, TypeOK, Evt!TypeOK, Count

LEMMA DemuxTyped ==
  ASSUME IInv
  PROVE  /\ Self \in {Self} /\ st \in [{Self} -> [FilterIds -> Dmx!Status]]
         /\ call \in (FilterIds \X {Self}) \cup {None} /\ -1 \notin FilterIds
         /\ fid \in [Tables -> FilterIds \cup {-1, 0}]
         /\ \A f \in FilterIds : st[Self][f] \in {"held", "freed", "quiet"}
         /\ \A f \in FilterIds : st[Self][f] = "quiet" => call # <<f, Self>>
  <1>1. /\ Self \in {Self} /\ st \in [{Self} -> [FilterIds -> Dmx!Status]]
        /\ call \in (FilterIds \X {Self}) \cup {None} /\ -1 \notin FilterIds
    BY Typed DEF IInv, TypeOK, Dmx!TypeOK
  <1>2. \A f \in FilterIds : st[Self][f] \in Dmx!Status
    BY <1>1
  <1> QED
    BY <1>1, <1>2 DEF Dmx!Status, IInv, Filters, Dmx!Quiescence, TypeOK

LEMMA SignalEventKeeps ==
  ASSUME IInv, SignalEvent
  PROVE  IInv'
  <1>1. /\ todo # <<>> /\ Head(todo)[1] = "signal" /\ life = "live" /\ todo' = Rest
        /\ UNCHANGED <<life, mode, joiner, batch, recv, over, stage, freqs, curr, ts, tses, started,
                       fid, armed, ctl, data, prog, pats, owner, subs, st, call, asked, crashed, owed>>
        /\ evt' \in {evt, evt \cup {"QUIT"}}
    BY DEF SignalEvent, At, IInv, Living, Evt!Signal, app, plan, tables, demux, frontend
  <1>2. /\ todo \in Seq(Items) /\ InOrder(todo, fid) /\ Rest = Tail(todo)
    BY DEF IInv, Agenda, Rest
  <1>3. Agenda'
    <2>1. InOrder(Tail(todo), fid) /\ Tail(todo) \in Seq(Items)
      BY <1>1, <1>2, TailInOrder, TailIs
    <2> QED
      BY <1>1, <1>2, <2>1 DEF Agenda
  <1>4. Starting'
    <2>1. \A names : /\ Lacks(todo, names) => Lacks(todo', names)
                     /\ Only(todo, names) => Only(todo', names)
      BY <1>1, <1>2, TailIs
    <2>2. "QUIT" \in EarlyFlags
      BY DEF EarlyFlags
    <2> QED
      BY <1>1, <2>1, <2>2 DEF IInv, Starting
  <1>5. Living' /\ ~At("exitSync") /\ ~At("release")
    <2>1. CASE Lacks(todo, Last)
      <3>1. Lacks(todo', Last)
        BY <1>1, <1>2, <2>1, TailIs
      <3> QED
        BY <1>1, <3>1 DEF Living, At
    <2>2. CASE Exiting
      <3>1. Rest \in {<<S("signal", "STORE_END")>> \o CleanUp, CleanUp}
        BY <1>1, <2>2, ExitingIs
      <3>2. Exiting'
        BY <1>1, <3>1 DEF Exiting
      <3> QED
        BY <1>1, <3>2 DEF Living, At
    <2> QED
      BY <2>1, <2>2 DEF IInv, Living
  <1>6. Filters'
    <2>1. started /\ life = "live" => Accounted
      BY <1>5 DEF IInv, Filters
    <2>2. Accounted => Accounted'
      BY <1>1 DEF Accounted
    <2>3. /\ \A f \in FilterIds : st'[Self][f] # "syncing"
          /\ Dmx!Quiescence'
      BY <1>1 DEF IInv, Filters, Dmx!Quiescence
    <2> QED
      BY <1>1, <2>1, <2>2, <2>3 DEF Filters
  <1>7. TypeOK'
    <2>1. ends' \in 0..2
      BY DEF SignalEvent, IInv, TypeOK
    <2>2. evt' \in SUBSET (Tables \cup {"START", "FEND", "QUIT"})
      BY <1>1, Typed
    <2>3. Dmx!TypeOK'
      BY <1>1 DEF IInv, TypeOK, Dmx!TypeOK
    <2> QED
      BY <1>1, <2>1, <2>2, <2>3, TypeStays
  <1> QED
    BY <1>3, <1>4, <1>5, <1>6, <1>7 DEF IInv

LEMMA LastLacks ==
  /\ Lacks(CleanUp, {"start"}) /\ Only(CleanUp, Early) /\ Loose(CleanUp)
  /\ \A s \in Seq(Items) : Only(s, Last) => Only(s, Early) /\ Lacks(s, {"start"})
  <1>1. Last \subseteq Early /\ "start" \notin Last
    BY DEF Last, Early
  <1>2. \A s \in Seq(Items) : Only(s, Last) => Only(s, Early) /\ Lacks(s, {"start"})
    BY <1>1 DEF Only, Lacks
  <1> QED
    BY <1>2, CleanUpIs

LEMMA QuitKeeps ==
  ASSUME IInv, Quit
  PROVE  IInv'
  <1>1. /\ todo # <<>> /\ Head(todo)[1] = "quit" /\ life = "live"
        /\ UNCHANGED <<life, mode, joiner, evt, batch, recv, over, stage, freqs, curr, ts, tses,
                       started,
                       fid, armed, ctl, data, prog, pats, owner, subs, st, call, asked, ends,
                       crashed, owed>>
        /\ ~At("exitSync") /\ ~At("release")
    BY DEF Quit, At, IInv, Living, app, plan, tables, demux, frontend, registry, history
  <1>2. Exiting'
    <2>1. \/ todo' = <<S("signal", "STORE_BEGIN"), S("signal", "STORE_END")>> \o CleanUp
          \/ todo' = CleanUp
      BY DEF Quit
    <2> QED
      BY <2>1 DEF Exiting
  <1>3. /\ todo' \in Seq(Items) /\ Loose(todo') /\ Only(todo', Early) /\ Lacks(todo', {"start"})
    <2> DEFINE p == S("signal", "STORE_BEGIN")
               q == S("signal", "STORE_END")
    <2>1. /\ p \in Items /\ q \in Items /\ p[1] = "signal" /\ q[1] = "signal"
          /\ "signal" \notin First2 \cup {"alloc"} /\ "signal" \in Early /\ "signal" # "start"
      BY StoreIs, CleanUpIs DEF First2, Early
    <2> HIDE DEF p, q
    <2>2. /\ <<p, q>> \in Seq(Items) /\ Loose(<<p, q>>) /\ Only(<<p, q>>, Early)
          /\ Lacks(<<p, q>>, {"start"})
      BY <2>1, TwoSteps
    <2>3. /\ <<p, q>> \o CleanUp \in Seq(Items) /\ Loose(<<p, q>> \o CleanUp)
          /\ Only(<<p, q>> \o CleanUp, Early) /\ Lacks(<<p, q>> \o CleanUp, {"start"})
      BY <2>2, CleanUpIs, LastLacks, LooseJoined, LacksJoined
    <2>4. todo' = <<p, q>> \o CleanUp \/ todo' = CleanUp
      BY DEF Quit, p, q
    <2> QED
      BY <2>3, <2>4, CleanUpIs, LastLacks
  <1>4. Agenda' /\ Starting' /\ Living'
    <2>1. InOrder(todo', fid')
      BY <1>3, LooseInOrder
    <2> QED
      BY <1>1, <1>2, <1>3, <2>1 DEF Agenda, IInv, Starting, Living
  <1>5. Filters'
    BY <1>1 DEF IInv, Filters, Accounted, Dmx!Quiescence
  <1>6. TypeOK'
    BY <1>1 DEF IInv, TypeOK, Evt!TypeOK, Dmx!TypeOK, Count
  <1> QED
    BY <1>4, <1>5, <1>6 DEF IInv

LEMMA LeavingIs ==
  ASSUME IInv, todo # <<>>, Head(todo)[1] \in Last
  PROVE  /\ Exiting /\ life = "live" /\ todo \in Seq(Items)
         /\ Head(todo)[1] = "unsubscribe" => Rest = Tail(CleanUp)
         /\ Head(todo)[1] = "freeAll" => Rest = Tail(Tail(CleanUp)) /\ Callback \notin subs
         /\ Head(todo)[1] = "exitSync" => Rest = <<S("release", "")>> /\ Left
         /\ Head(todo)[1] = "release" => Left /\ call = None
  <1>1. Head(todo) = todo[1] /\ 1 \in 1..Len(todo) /\ todo \in Seq(Items)
    BY TailIs DEF IInv, Agenda
  <1>2. ~Lacks(todo, Last)
    BY <1>1 DEF Lacks
  <1>3. Exiting /\ life = "live"
    BY <1>2 DEF IInv, Living
  <1>4. {"unsubscribe", "freeAll", "exitSync", "release"} = Last /\ "signal" \notin Last
    BY DEF Last
  <1> QED
    BY <1>1, <1>3, <1>4, ExitingIs

(* The agenda of a thread that leaves goes on.                               *)
LEMMA Leaves ==
  ASSUME IInv, Head(todo)[1] \in Last, todo # <<>>,
         todo' \in {Tail(CleanUp), Tail(Tail(CleanUp)), <<S("release", "")>>}, Exiting',
         UNCHANGED <<life, fid, started, stage, recv, evt, batch>>, subs' \in {subs, subs \ {Callback}},
         \A f \in FilterIds : st[Self][f] = "quiet" => st'[Self][f] = "quiet"
  PROVE  Agenda' /\ Starting' /\ Living'
  <1>0. \A name : S(name, "")[1] = name
    BY DEF S
  <1>1. /\ Tail(CleanUp) \in Seq(Items) /\ Tail(Tail(CleanUp)) \in Seq(Items)
        /\ <<S("release", "")>> \in Seq(Items)
    BY CleanUpIs
  <1>2. Only(Tail(CleanUp), Last) /\ Loose(Tail(CleanUp))
    <2>1. /\ CleanUp \in Seq(Items) /\ CleanUp # <<>> /\ Only(CleanUp, Last) /\ Loose(CleanUp)
          /\ Head(CleanUp)[1] = "unsubscribe"
      BY <1>0, CleanUpIs
    <2>2. InOrder(CleanUp, fid)
      BY <2>1, LooseInOrder
    <2> QED
      BY <2>1, <2>2, TailIs, TailLoose
  <1>3. Only(Tail(Tail(CleanUp)), Last) /\ Loose(Tail(Tail(CleanUp)))
    <2>1. /\ Tail(CleanUp) # <<>> /\ Head(Tail(CleanUp))[1] = "freeAll"
      BY <1>0, CleanUpIs
    <2>2. InOrder(Tail(CleanUp), fid)
      BY <1>1, <1>2, LooseInOrder
    <2> QED
      BY <1>1, <1>2, <2>1, <2>2, TailIs, TailLoose
  <1>4. Only(<<S("release", "")>>, Last) /\ Loose(<<S("release", "")>>)
    <2>1. /\ Tail(Tail(CleanUp)) # <<>> /\ Head(Tail(Tail(CleanUp)))[1] = "exitSync"
          /\ Tail(Tail(Tail(CleanUp))) = <<S("release", "")>>
      BY <1>0, CleanUpIs
    <2>2. InOrder(Tail(Tail(CleanUp)), fid)
      BY <1>1, <1>3, LooseInOrder
    <2> QED
      BY <1>1, <1>3, <2>1, <2>2, TailIs, TailLoose
  <1>5. todo' \in Seq(Items) /\ Only(todo', Last) /\ Loose(todo')
    BY <1>1, <1>2, <1>3, <1>4
  <1>6. /\ InOrder(todo', fid') /\ Only(todo', Early) /\ Lacks(todo', {"start"})
    BY <1>5, LooseInOrder, LastLacks
  <1>7. life = "live"
    BY LeavingIs
  <1> QED
    BY <1>5, <1>6, <1>7 DEF IInv, Agenda, Starting, Living

LEMMA UnsubscribeKeeps ==
  ASSUME IInv, Unsubscribe
  PROVE  IInv'
  <1>1. /\ todo # <<>> /\ Head(todo)[1] = "unsubscribe" /\ "unsubscribe" \in Last /\ todo' = Rest
        /\ UNCHANGED <<life, mode, joiner, evt, batch, recv, over, stage, freqs, curr, ts, tses,
                       started,
                       fid, armed, ctl, data, prog, pats, owner, st, call, asked, ends, crashed, owed>>
        /\ subs' = subs \ {Callback}
    BY DEF Unsubscribe, At, Last, Evt!Unsubscribe, app, plan, tables, demux, frontend, history
  <1>2. todo' = Tail(CleanUp) /\ life = "live"
    BY <1>1, LeavingIs
  <1>3. Exiting'
    BY <1>1, <1>2 DEF Exiting
  <1>4. Agenda' /\ Starting' /\ Living'
    <2>1. \A f \in FilterIds : st[Self][f] = "quiet" => st'[Self][f] = "quiet"
      BY <1>1
    <2> QED
      BY <1>1, <1>2, <1>3, <2>1, Leaves
  <1>5. Filters'
    <2>1. ~At("exitSync") /\ ~At("release")
      BY <1>1 DEF At
    <2> QED
      BY <1>1, <1>2, <2>1 DEF IInv, Filters, Accounted, Dmx!Quiescence
  <1>6. TypeOK'
    BY <1>1 DEF IInv, TypeOK, Evt!TypeOK, Dmx!TypeOK, Count
  <1> QED
    BY <1>4, <1>5, <1>6 DEF IInv

LEMMA FreeAllKeeps ==
  ASSUME IInv, FreeAll
  PROVE  IInv'
  <1> DEFINE new == [f \in FilterIds |-> IF st[Self][f] = "held" THEN "freed" ELSE st[Self][f]]
  <1>1. /\ todo # <<>> /\ Head(todo)[1] = "freeAll" /\ "freeAll" \in Last /\ todo' = Rest
        /\ UNCHANGED <<life, mode, joiner, evt, batch, recv, over, stage, freqs, curr, ts, tses,
                       started,
                       fid, ctl, data, prog, pats, owner, subs, call, asked, ends, crashed, owed>>
        /\ armed' = {} /\ st' = [st EXCEPT ![Self] = new]
    BY DEF FreeAll, At, Last, app, plan, demux, frontend, history, registry
  <1>2. todo' = Tail(Tail(CleanUp)) /\ life = "live" /\ Callback \notin subs
    BY <1>1, LeavingIs
  <1>3. new \in [FilterIds -> Dmx!Status]
    BY DemuxTyped DEF Dmx!Status
  <1>4. st'[Self] = new /\ st' \in [{Self} -> [FilterIds -> Dmx!Status]]
    <2> HIDE DEF new
    <2> QED
      BY <1>1, <1>3, DemuxTyped
  <1>5. \A f \in FilterIds : st'[Self][f] = IF st[Self][f] = "held" THEN "freed" ELSE st[Self][f]
    BY <1>4
  <1> HIDE DEF new
  <1>6. \A f \in FilterIds : st'[Self][f] \notin {"held", "syncing"}
    BY <1>5, DemuxTyped
  <1>7. Left'
    BY <1>1, <1>2, <1>6 DEF Left, NoneHeld
  <1>8. Exiting'
    BY <1>2, <1>7 DEF Exiting
  <1>9. Agenda' /\ Starting' /\ Living'
    <2>1. \A f \in FilterIds : st[Self][f] = "quiet" => st'[Self][f] = "quiet"
      BY <1>5
    <2> QED
      BY <1>1, <1>2, <1>8, <2>1, Leaves
  <1>10. Filters'
    <2>1. At("exitSync")'
      <3>1. \A name : S(name, "")[1] = name
        BY DEF S
      <3>2. todo' # <<>> /\ Head(todo') = S("exitSync", "")
        BY <1>2, CleanUpIs
      <3> QED
        BY <3>1, <3>2 DEF At
    <2>2. \A f \in FilterIds : st'[Self][f] = "quiet" => call' # <<f, Self>>
      BY <1>1, <1>5, DemuxTyped
    <2> QED
      BY <1>6, <2>1, <2>2 DEF Filters, Dmx!Quiescence
  <1>11. TypeOK'
    <2>1. Dmx!TypeOK'
      BY <1>1, <1>4, DemuxTyped DEF Dmx!TypeOK
    <2> QED
      BY <1>1, <2>1 DEF IInv, TypeOK, Evt!TypeOK, Count
  <1> QED
    BY <1>9, <1>10, <1>11 DEF IInv

(* What AM_DMX_Sync does to the filters that were freed.                     *)
LEMMA SyncEnds ==
  ASSUME IInv, Dmx!SyncEnd(Self, "freed")
  PROVE  /\ Dmx!TypeOK' /\ Dmx!Quiescence' /\ call' = call
         /\ \A f \in FilterIds :
              st'[Self][f] = IF st[Self][f] = "freed" THEN "quiet" ELSE st[Self][f]
  <1>1. /\ st' = [st EXCEPT ![Self] =
                    [f \in FilterIds |-> IF st[Self][f] = "freed" THEN "quiet" ELSE st[Self][f]]]
        /\ call' = call
        /\ \A f \in FilterIds : st[Self][f] = "freed" => call # <<f, Self>>
    BY DEF Dmx!SyncEnd
  <1> DEFINE new == [f \in FilterIds |-> IF st[Self][f] = "freed" THEN "quiet" ELSE st[Self][f]]
  <1>2. new \in [FilterIds -> Dmx!Status]
    BY DemuxTyped DEF Dmx!Status
  <1>3. st'[Self] = new /\ st' \in [{Self} -> [FilterIds -> Dmx!Status]]
    <2> HIDE DEF new
    <2> QED
      BY <1>1, <1>2, DemuxTyped DEF new
  <1>4. \A f \in FilterIds :
          st'[Self][f] = IF st[Self][f] = "freed" THEN "quiet" ELSE st[Self][f]
    BY <1>3
  <1>5. Dmx!Quiescence'
    BY <1>1, <1>4 DEF IInv, Filters, Dmx!Quiescence
  <1> QED
    BY <1>1, <1>3, <1>4, <1>5, DemuxTyped DEF Dmx!TypeOK

LEMMA ExitSyncKeeps ==
  ASSUME IInv, ExitSync
  PROVE  IInv'
  <1>1. /\ todo # <<>> /\ Head(todo)[1] = "exitSync" /\ "exitSync" \in Last /\ todo' = Rest
        /\ UNCHANGED <<life, mode, joiner, evt, batch, recv, over, stage, freqs, curr, ts, tses,
                       started,
                       fid, armed, ctl, data, prog, pats, owner, subs, asked, ends, crashed, owed>>
        /\ Dmx!SyncEnd(Self, "freed")
    BY DEF ExitSync, At, Last, app, plan, tables, frontend, history, registry
  <1>2. todo' = <<S("release", "")>> /\ life = "live" /\ Left
    BY <1>1, LeavingIs
  <1>3. /\ Dmx!TypeOK' /\ Dmx!Quiescence' /\ call' = call
        /\ \A f \in FilterIds :
             st'[Self][f] = IF st[Self][f] = "freed" THEN "quiet" ELSE st[Self][f]
    BY <1>1, SyncEnds
  <1>4. \A f \in FilterIds : st'[Self][f] = "quiet"
    BY <1>2, <1>3, DemuxTyped DEF Left, NoneHeld
  <1>5. call' = None
    <2>1. \A f \in FilterIds : call' # <<f, Self>>
      BY <1>3, <1>4 DEF Dmx!Quiescence
    <2> QED
      BY <1>3, <2>1, DemuxTyped
  <1>6. Exiting'
    BY <1>1, <1>2, <1>4, <1>5 DEF Exiting, Left, NoneHeld
  <1>7. Agenda' /\ Starting' /\ Living'
    <2>1. \A f \in FilterIds : st[Self][f] = "quiet" => st'[Self][f] = "quiet"
      BY <1>3
    <2> QED
      BY <1>1, <1>2, <1>6, <2>1, Leaves
  <1>8. Filters'
    <2>1. At("release")'
      <3>1. \A name : S(name, "")[1] = name
        BY DEF S
      <3>2. todo' # <<>> /\ Head(todo') = S("release", "")
        BY <1>2, CleanUpIs
      <3> QED
        BY <3>1, <3>2 DEF At
    <2> QED
      BY <1>3, <1>4, <2>1 DEF Filters
  <1>9. TypeOK'
    BY <1>1, <1>3 DEF IInv, TypeOK, Evt!TypeOK, Count
  <1> QED
    BY <1>7, <1>8, <1>9 DEF IInv

LEMMA ReleaseKeeps ==
  ASSUME IInv, Release
  PROVE  IInv'
  <1>1. /\ todo # <<>> /\ Head(todo)[1] = "release" /\ "release" \in Last /\ todo' = <<>>
        /\ UNCHANGED <<mode, joiner, evt, batch, recv, over, stage, freqs, curr, ts, tses, started,
                       fid, armed, ctl, data, prog, pats, owner, subs, st, call, asked, ends,
                       crashed, owed>>
        /\ life' = "gone"
    BY DEF Release, At, Last, plan, tables, frontend, history, registry, demux
  <1>2. Left /\ call = None
    BY <1>1, LeavingIs
  <1>3. Agenda'
    BY <1>1, EmptyIs, LooseInOrder DEF Agenda
  <1>4. Starting'
    BY <1>1, EmptyIs DEF IInv, Starting
  <1>5. Living'
    BY <1>1, <1>2, EmptyIs DEF Living, Left, NoneHeld
  <1>6. Filters'
    BY <1>1 DEF IInv, Filters, Dmx!Quiescence
  <1>7. TypeOK'
    BY <1>1 DEF IInv, TypeOK, Evt!TypeOK, Dmx!TypeOK, Count
  <1> QED
    BY <1>3, <1>4, <1>5, <1>6, <1>7 DEF IInv

--------------------------------------------------------------------------------
(* Steps on filters.  None is taken before the scan is started, or by a      *)
(* thread that leaves.                                                       *)

LEMMA AtWork ==
  ASSUME IInv, todo # <<>>, Head(todo)[1] \in {"free", "alloc", "sync"}
  PROVE  /\ Lacks(todo, Last) /\ Lacks(todo, {"start"}) /\ started /\ life = "live"
         /\ Accounted /\ todo \in Seq(Items) /\ InOrder(todo, fid)
         /\ Rest = Tail(todo) /\ todo[1] = Head(todo) /\ Tail(todo) \in Seq(Items)
         /\ Lacks(Rest, Last) /\ Lacks(Rest, {"start"})
  <1>1. {"free", "alloc", "sync"} \cap (Last \cup Early \cup {"signal", "exitSync", "release"}) = {}
    BY DEF Last, Early
  <1>2. /\ todo \in Seq(Items) /\ InOrder(todo, fid) /\ Rest = Tail(todo)
        /\ todo[1] = Head(todo) /\ Tail(todo) \in Seq(Items) /\ 1 \in 1..Len(todo)
    BY TailIs DEF IInv, Agenda, Rest
  <1>3. Lacks(todo, Last)
    BY <1>1, NotExiting
  <1>4. started
    BY <1>1, <1>2 DEF IInv, Starting, Only
  <1>5. life = "live"
    BY DEF IInv, Living
  <1>6. Accounted
    BY <1>1, <1>4, <1>5 DEF IInv, Filters, At
  <1>7. Lacks(todo, {"start"})
    BY <1>4 DEF IInv, Starting
  <1>8. Lacks(Rest, Last) /\ Lacks(Rest, {"start"})
    BY <1>2, <1>3, <1>7, TailIs
  <1> QED
    BY <1>2, <1>3, <1>4, <1>5, <1>6, <1>7, <1>8

(* The filters after such a step.                                            *)
LEMMA Works ==
  ASSUME IInv, started, life = "live",
         todo' \in Seq(Items), InOrder(todo', fid'), Lacks(todo', Last), Lacks(todo', {"start"}),
         UNCHANGED <<life, started, subs>>,
         Accounted', Dmx!Quiescence', \A f \in FilterIds : st'[Self][f] # "syncing"
  PROVE  Agenda' /\ Starting' /\ Living' /\ Filters'
  BY DEF Agenda, Starting, Living, Filters

LEMMA FreeOtherKeeps ==
  ASSUME IInv, At("free"), fid[Arg] # -1, FreeFilter
  PROVE  IInv'
  <1> DEFINE q == S("sync", "")
  <1>1. /\ todo # <<>> /\ Head(todo)[1] = "free" /\ Arg \in Tables
        /\ Head(todo) = S("free", Arg)
    BY HeadIs DEF At, IInv, TableSteps
  <1>2. /\ Lacks(todo, Last) /\ Lacks(todo, {"start"}) /\ started /\ life = "live"
        /\ Accounted /\ todo \in Seq(Items) /\ InOrder(todo, fid)
        /\ Rest = Tail(todo) /\ todo[1] = Head(todo) /\ Tail(todo) \in Seq(Items)
        /\ Lacks(Rest, Last) /\ Lacks(Rest, {"start"})
    BY <1>1, AtWork
  <1>3. PICK u \in Tables : u = Arg
    BY <1>1
  <1>4. PICK f \in FilterIds : f = fid[u]
    BY <1>2, <1>3 DEF Accounted
  <1>5. /\ st[Self][f] = "held" /\ st' = [st EXCEPT ![Self][f] = "freed"] /\ call' = call
        /\ fid' = [fid EXCEPT ![u] = -1] /\ armed' = armed \ {u}
        /\ todo' = <<q>> \o Tail(todo)
        /\ UNCHANGED <<life, mode, joiner, evt, batch, recv, over, stage, freqs, curr, ts, tses,
                       started,
                       ctl, data, prog, pats, owner, subs, asked, ends, crashed, owed>>
    BY <1>2, <1>3, <1>4 DEF FreeFilter, Dmx!Release, Then, app, plan, frontend, registry, history
  <1>6. q \in Items /\ q[1] = "sync"
    BY DEF Items, PlainSteps, S
  <1>7. /\ fid' \in [Tables -> FilterIds \cup {-1, 0}]
        /\ \A t \in Tables : fid'[t] = IF t = u THEN -1 ELSE fid[t]
    BY <1>5, DemuxTyped
  <1>8. /\ st' \in [{Self} -> [FilterIds -> Dmx!Status]]
        /\ \A g \in FilterIds : st'[Self][g] = IF g = f THEN "freed" ELSE st[Self][g]
    <2>1. st[Self] \in [FilterIds -> Dmx!Status]
      BY DemuxTyped
    <2>2. [st[Self] EXCEPT ![f] = "freed"] \in [FilterIds -> Dmx!Status]
      BY <2>1 DEF Dmx!Status
    <2>3. st' = [st EXCEPT ![Self] = [st[Self] EXCEPT ![f] = "freed"]]
      BY <1>5
    <2>4. st'[Self] = [st[Self] EXCEPT ![f] = "freed"]
      BY <2>3, DemuxTyped
    <2> QED
      BY <2>1, <2>2, <2>3, <2>4, DemuxTyped
  <1> HIDE DEF q
  <1>9. /\ todo' \in Seq(Items) /\ todo'[1] = q
        /\ \A i \in 1..Len(todo') : i # 1 => i \in 1..Len(todo) /\ todo'[i] = todo[i]
    <2>1. /\ <<q>> \o Tail(todo) \in Seq(Items) /\ (<<q>> \o Tail(todo))[1] = q
          /\ Len(<<q>> \o Tail(todo)) = Len(Tail(todo)) + 1
          /\ \A i \in 1..Len(<<q>> \o Tail(todo)) :
               i # 1 => i - 1 \in 1..Len(Tail(todo)) /\ (<<q>> \o Tail(todo))[i] = Tail(todo)[i - 1]
      BY <1>2, <1>6, FirstStep
    <2>2. \A i \in 1..Len(Tail(todo)) : i + 1 \in 1..Len(todo) /\ Tail(todo)[i] = todo[i + 1]
      BY <1>1, <1>2, TailIs
    <2>3. /\ todo' \in Seq(Items) /\ todo'[1] = q
          /\ \A i \in 1..Len(todo') : i # 1 => i - 1 \in 1..Len(Tail(todo)) /\ todo'[i] = Tail(todo)[i - 1]
      BY <1>5, <2>1
    <2>4. \A i \in 1..Len(todo') : (i - 1) + 1 = i
      BY <2>3
    <2> QED
      BY <2>2, <2>3, <2>4
  <1>10. InOrder(todo', fid')
    <2>1. ASSUME NEW i \in 1..Len(todo'), i # 1
          PROVE  /\ Ready(todo', fid', i)
                 /\ todo'[i][1] \notin {"sync", "begin", "start"}
      <3>1. /\ i \in 1..Len(todo) /\ todo'[i] = todo[i]
            /\ Ready(todo, fid, i)
            /\ todo[i][1] \notin {"sync", "begin", "start"}
        BY <1>1, <1>2, <1>9, <2>1 DEF InOrder
      <3>2. ASSUME todo[i][1] = "alloc"
            PROVE  Freed(todo', i) \/ (i = 2 /\ fid'[todo'[i][2]] = -1)
        <4>1. Freed(todo, i)
          BY <1>1, <1>2, <2>1, <3>1, <3>2 DEF Ready
        <4>2. CASE i = 2
          <5>1. todo[1] = S("free", todo[i][2])
            BY <4>1, <4>2 DEF Freed
          <5>2. todo[i][2] = u
            BY <1>1, <1>2, <1>3, <5>1 DEF S
          <5> QED
            BY <1>7, <3>1, <4>2, <5>2
        <4>3. CASE i # 2
          <5>1. i - 1 \in 1..Len(todo') /\ i - 1 # 1 /\ i > 1
            BY <1>9, <2>1, <4>3
          <5>2. todo'[i - 1] = todo[i - 1]
            BY <1>9, <5>1
          <5> QED
            BY <3>1, <4>1, <5>1, <5>2 DEF Freed
        <4> QED
          BY <4>2, <4>3
      <3> QED
        BY <1>6, <1>9, <3>1, <3>2 DEF Ready
    <2>2. Ready(todo', fid', 1) /\ todo'[1][1] = "sync"
      BY <1>6, <1>9 DEF Ready
    <2> QED
      BY <2>1, <2>2 DEF InOrder
  <1>11. Lacks(todo', Last) /\ Lacks(todo', {"start"})
    <2>1. Lacks(<<q>>, Last) /\ Lacks(<<q>>, {"start"}) /\ <<q>> \in Seq(Items)
      BY <1>6, OneStep DEF Last
    <2>2. Lacks(Tail(todo), Last) /\ Lacks(Tail(todo), {"start"})
      BY <1>2
    <2> QED
      BY <1>2, <1>5, <2>1, <2>2, LacksJoined
  <1>12. Accounted'
    <2>1. ASSUME NEW g \in FilterIds
          PROVE  st'[Self][g] = "held" <=> \E t \in Tables : fid'[t] = g
      <3>1. g # -1
        BY DemuxTyped
      <3>2. CASE g = f
        BY <1>2, <1>4, <1>7, <1>8, <3>1, <3>2 DEF Accounted
      <3>3. CASE g # f
        BY <1>2, <1>4, <1>7, <1>8, <3>1, <3>3 DEF Accounted
      <3> QED
        BY <3>2, <3>3
    <2>2. \A t, v \in Tables : t # v /\ fid'[t] = fid'[v] => fid'[t] = -1
      BY <1>2, <1>7 DEF Accounted
    <2>3. \A t \in Tables : fid'[t] \in FilterIds \cup {-1}
      BY <1>2, <1>7 DEF Accounted
    <2> QED
      BY <2>1, <2>2, <2>3 DEF Accounted
  <1>13. Dmx!Quiescence' /\ \A g \in FilterIds : st'[Self][g] # "syncing"
    BY <1>5, <1>8, DemuxTyped DEF Dmx!Quiescence
  <1>14. Agenda' /\ Starting' /\ Living' /\ Filters'
    BY <1>2, <1>5, <1>9, <1>10, <1>11, <1>12, <1>13, Works
  <1>15. TypeOK'
    <2>1. armed' \in SUBSET Tables
      BY <1>5 DEF IInv, TypeOK
    <2>2. Dmx!TypeOK'
      BY <1>5, <1>8, DemuxTyped DEF Dmx!TypeOK
    <2> QED
      BY <1>5, <1>7, <2>1, <2>2 DEF IInv, TypeOK, Evt!TypeOK, Count
  <1> QED
    BY <1>14, <1>15 DEF IInv

LEMMA FreeFilterKeeps ==
  ASSUME IInv, FreeFilter
  PROVE  IInv'
  <1>1. At("free") /\ todo # <<>> /\ Head(todo)[1] = "free"
    BY DEF FreeFilter, At
  <1>2. CASE fid[Arg] = -1
    <2>1. /\ todo' = Rest
          /\ UNCHANGED <<life, mode, joiner, evt, batch, recv, over, stage, freqs, curr, ts, tses,
                         started,
                         fid, armed, ctl, data, prog, pats, owner, subs, st, call, asked, ends,
                         crashed, owed>>
      BY <1>2 DEF FreeFilter, app, plan, frontend, registry, history
    <2>2. /\ Lacks(todo, Last) /\ Lacks(todo, {"start"}) /\ started /\ life = "live"
          /\ Accounted /\ todo \in Seq(Items) /\ InOrder(todo, fid)
          /\ Rest = Tail(todo) /\ todo[1] = Head(todo) /\ Tail(todo) \in Seq(Items)
          /\ Lacks(Rest, Last) /\ Lacks(Rest, {"start"})
      BY <1>1, AtWork
    <2>3. InOrder(Tail(todo), fid)
      <3>1. fid[Head(todo)[2]] = -1
        BY <1>2 DEF Arg
      <3> QED
        BY <1>1, <2>2, <3>1, TailInOrder
    <2>4. Accounted' /\ Dmx!Quiescence' /\ \A g \in FilterIds : st'[Self][g] # "syncing"
      BY <2>1, <2>2, DemuxTyped DEF Accounted, Dmx!Quiescence
    <2>5. Agenda' /\ Starting' /\ Living' /\ Filters'
      BY <2>1, <2>2, <2>3, <2>4, Works
    <2>6. TypeOK'
      BY <2>1 DEF IInv, TypeOK, Evt!TypeOK, Dmx!TypeOK, Count
    <2> QED
      BY <2>5, <2>6 DEF IInv
  <1> QED
    BY <1>1, <1>2, FreeOtherKeeps

LEMMA SyncKeeps ==
  ASSUME IInv, Sync
  PROVE  IInv'
  <1>1. /\ todo # <<>> /\ Head(todo)[1] = "sync" /\ todo' = Rest
        /\ UNCHANGED <<life, mode, joiner, evt, batch, recv, over, stage, freqs, curr, ts, tses,
                       started,
                       fid, armed, ctl, data, prog, pats, owner, subs, asked, ends, crashed, owed>>
        /\ Dmx!SyncEnd(Self, "freed")
    BY DEF Sync, At, app, plan, tables, frontend, history, registry
  <1>2. /\ Lacks(todo, Last) /\ Lacks(todo, {"start"}) /\ started /\ life = "live"
        /\ Accounted /\ todo \in Seq(Items) /\ InOrder(todo, fid)
        /\ Rest = Tail(todo) /\ todo[1] = Head(todo) /\ Tail(todo) \in Seq(Items)
        /\ Lacks(Rest, Last) /\ Lacks(Rest, {"start"})
    BY <1>1, AtWork
  <1>3. InOrder(Tail(todo), fid)
    BY <1>1, <1>2, TailInOrder
  <1>4. /\ Dmx!TypeOK' /\ Dmx!Quiescence' /\ call' = call
        /\ \A f \in FilterIds :
             st'[Self][f] = IF st[Self][f] = "freed" THEN "quiet" ELSE st[Self][f]
    BY <1>1, SyncEnds
  <1>5. Accounted' /\ \A g \in FilterIds : st'[Self][g] # "syncing"
    BY <1>1, <1>2, <1>4, DemuxTyped DEF Accounted
  <1>6. Agenda' /\ Starting' /\ Living' /\ Filters'
    BY <1>1, <1>2, <1>3, <1>4, <1>5, Works
  <1>7. TypeOK'
    BY <1>1, <1>4 DEF IInv, TypeOK, Evt!TypeOK, Count
  <1> QED
    BY <1>6, <1>7 DEF IInv

LEMMA TakeKeeps ==
  ASSUME IInv, Accounted, NEW t \in Tables, fid[t] = -1, NEW f \in FilterIds, Free(f),
         Dmx!Take(Self, f), fid' = [fid EXCEPT ![t] = f]
  PROVE  /\ Accounted' /\ Dmx!Quiescence' /\ Dmx!TypeOK'
         /\ \A g \in FilterIds : st'[Self][g] # "syncing"
         /\ fid' \in [Tables -> FilterIds \cup {-1, 0}]
  <1>1. st' = [st EXCEPT ![Self][f] = "held"] /\ call' = call /\ f \notin Held
    BY DEF Dmx!Take, Free
  <1>2. /\ fid' \in [Tables -> FilterIds \cup {-1, 0}]
        /\ \A x \in Tables : fid'[x] = IF x = t THEN f ELSE fid[x]
    BY DemuxTyped
  <1>3. /\ st' \in [{Self} -> [FilterIds -> Dmx!Status]]
        /\ \A g \in FilterIds : st'[Self][g] = IF g = f THEN "held" ELSE st[Self][g]
    <2>1. st[Self] \in [FilterIds -> Dmx!Status]
      BY DemuxTyped
    <2>2. [st[Self] EXCEPT ![f] = "held"] \in [FilterIds -> Dmx!Status]
      BY <2>1 DEF Dmx!Status
    <2>3. st' = [st EXCEPT ![Self] = [st[Self] EXCEPT ![f] = "held"]]
      BY <1>1
    <2>4. st'[Self] = [st[Self] EXCEPT ![f] = "held"]
      BY <2>3, DemuxTyped
    <2> QED
      BY <2>1, <2>2, <2>3, <2>4, DemuxTyped
  <1>4. st[Self][f] # "held" /\ \A x \in Tables : fid[x] # f
    BY <1>1 DEF Held, Accounted
  <1>5. Accounted'
    <2>1. ASSUME NEW g \in FilterIds
          PROVE  st'[Self][g] = "held" <=> \E x \in Tables : fid'[x] = g
      <3>1. CASE g = f
        BY <1>2, <1>3, <3>1
      <3>2. CASE g # f
        <4>1. \A x \in Tables : fid'[x] = g <=> fid[x] = g
          BY <1>2, <3>2, DemuxTyped
        <4> QED
          BY <1>3, <3>2, <4>1 DEF Accounted
      <3> QED
        BY <3>1, <3>2
    <2>2. \A x, y \in Tables : x # y /\ fid'[x] = fid'[y] => fid'[x] = -1
      BY <1>2, <1>4 DEF Accounted
    <2>3. \A x \in Tables : fid'[x] \in FilterIds \cup {-1}
      BY <1>2 DEF Accounted
    <2> QED
      BY <2>1, <2>2, <2>3 DEF Accounted
  <1>6. Dmx!Quiescence' /\ \A g \in FilterIds : st'[Self][g] # "syncing"
    BY <1>1, <1>3, DemuxTyped DEF Dmx!Quiescence
  <1> QED
    BY <1>1, <1>2, <1>3, <1>5, <1>6, DemuxTyped DEF Dmx!TypeOK

LEMMA AllocateFilterKeeps ==
  ASSUME IInv, AllocateFilter
  PROVE  IInv'
  <1>1. /\ todo # <<>> /\ Head(todo)[1] = "alloc" /\ Arg \in Tables /\ Arg = Head(todo)[2]
        /\ todo' = Rest
        /\ UNCHANGED <<life, mode, joiner, evt, batch, stage, freqs, curr, ts, tses, started,
                       ctl, data, prog, pats, owner, subs, ends, crashed, owed>>
    BY HeadIs DEF AllocateFilter, At, Arg, IInv, TableSteps, app, plan, frontend, registry
  <1>2. /\ Lacks(todo, Last) /\ Lacks(todo, {"start"}) /\ started /\ life = "live"
        /\ Accounted /\ todo \in Seq(Items) /\ InOrder(todo, fid)
        /\ Rest = Tail(todo) /\ todo[1] = Head(todo) /\ Tail(todo) \in Seq(Items)
        /\ Lacks(Rest, Last) /\ Lacks(Rest, {"start"})
    BY <1>1, AtWork
  <1>3. fid[Arg] = -1
    <2>1. Ready(todo, fid, 1)
      BY <1>1, <1>2, TailIs DEF InOrder
    <2> QED
      BY <1>1, <1>2, <2>1 DEF Ready, Freed
  <1>4. InOrder(Tail(todo), fid')
    BY <1>1, <1>2, TailLoose, LooseInOrder
  <1>5. PICK t \in Tables : t = Arg
    BY <1>1
  <1>6. /\ armed' \in {armed, armed \cup {t}} /\ recv' \in {recv, recv \cup {t}}
        /\ over' \in {over, over \ {t}}
        /\ \/ \E f \in FilterIds : Free(f) /\ Dmx!Take(Self, f) /\ fid' = [fid EXCEPT ![t] = f]
           \/ UNCHANGED <<fid, st, call>>
    <2>1. \/ \E f \in FilterIds :
               /\ Free(f) /\ Dmx!Take(Self, f) /\ fid' = [fid EXCEPT ![Arg] = f]
               /\ armed' = armed \cup {Arg} /\ recv' = recv \cup {Arg} /\ over' = over \ {Arg}
          \/ \E f \in FilterIds :
               /\ Free(f) /\ Dmx!Take(Self, f) /\ fid' = [fid EXCEPT ![Arg] = f]
               /\ UNCHANGED <<armed, recv, over>>
          \/ UNCHANGED <<fid, armed, recv, over, st, call>>
      BY Zenon DEF AllocateFilter
    <2> QED
      BY <1>5, <2>1
  <1>7. /\ Accounted' /\ Dmx!Quiescence' /\ Dmx!TypeOK'
        /\ \A g \in FilterIds : st'[Self][g] # "syncing"
        /\ fid' \in [Tables -> FilterIds \cup {-1, 0}]
    <2>1. CASE \E f \in FilterIds : Free(f) /\ Dmx!Take(Self, f) /\ fid' = [fid EXCEPT ![t] = f]
      <3>1. PICK f \in FilterIds : Free(f) /\ Dmx!Take(Self, f) /\ fid' = [fid EXCEPT ![t] = f]
        BY <2>1
      <3> QED
        BY <1>2, <1>3, <1>5, <3>1, TakeKeeps
    <2>2. CASE UNCHANGED <<fid, st, call>>
      BY <1>2, <2>2, DemuxTyped DEF Accounted, Dmx!Quiescence, Dmx!TypeOK
    <2> QED
      BY <1>6, <2>1, <2>2
  <1>8. Agenda' /\ Starting' /\ Living' /\ Filters'
    BY <1>1, <1>2, <1>4, <1>7, Works
  <1>9. TypeOK'
    <2>1. armed' \in SUBSET Tables /\ recv' \in SUBSET (Tables \cup {"fend"}) /\ over' \in SUBSET Tables
      BY <1>5, <1>6 DEF IInv, TypeOK
    <2>2. asked' \in SUBSET (1..Programs)
      <3>1. asked' \in {asked, asked \cup {prog}} /\ (prog = 0 => asked' = asked)
        BY DEF AllocateFilter
      <3> QED
        BY <3>1, Typed DEF IInv, TypeOK
    <2> QED
      BY <1>1, <1>7, <2>1, <2>2 DEF IInv, TypeOK, Evt!TypeOK, Count
  <1> QED
    BY <1>8, <1>9 DEF IInv

--------------------------------------------------------------------------------
(* Steps of others: the agenda stays.                                        *)

LEMMA Idle ==
  ASSUME IInv, UNCHANGED <<todo, life, batch, recv, stage, started, fid, curr, st, subs>>,
         started \/ evt' \subseteq EarlyFlags,
         \/ call' = None \/ call' = call
         \/ LockFree /\ \E f \in FilterIds : call' = <<f, Self>> /\ st[Self][f] = "held"
  PROVE  Agenda' /\ Starting' /\ Living' /\ Filters'
  <1>1. Agenda' /\ Starting'
    BY DEF IInv, Agenda, Starting
  <1>2. \/ call' = None \/ call' = call
        \/ life = "live" /\ todo # <<S("release", "")>>
    <2>1. ASSUME LockFree, todo = <<S("release", "")>> PROVE FALSE
      <3>1. \A name : S(name, "")[1] = name
        BY DEF S
      <3>2. Head(todo)[1] = "release"
        BY <2>1, <3>1, CleanUpIs
      <3> QED
        BY <2>1, <3>2 DEF LockFree, At
    <2> QED
      BY <2>1 DEF LockFree
  <1>3. Exiting => Exiting'
    <2>1. Left' <=> Left
      BY DEF Left, NoneHeld
    <2> QED
      BY <1>2, <2>1 DEF Exiting
  <1>4. Living'
    <2>1. Left' <=> Left
      BY DEF Left, NoneHeld
    <2> QED
      BY <1>2, <1>3, <2>1 DEF IInv, Living
  <1>5. Filters'
    <2>1. Dmx!Quiescence'
      <3>1. ASSUME NEW g \in FilterIds, st[Self][g] = "quiet"
            PROVE  call' # <<g, Self>>
        <4>1. CASE call' = None
          BY <4>1, Typed
        <4>2. CASE call' = call
          BY <3>1, <4>2, DemuxTyped
        <4>3. CASE \E f \in FilterIds : call' = <<f, Self>> /\ st[Self][f] = "held"
          BY <3>1, <4>3
        <4> QED
          BY <4>1, <4>2, <4>3
      <3> QED
        BY <3>1 DEF Dmx!Quiescence
    <2>2. started /\ life = "live" /\ ~At("exitSync") /\ ~At("release") => Accounted
      BY DEF IInv, Filters
    <2>3. (started /\ life = "live" /\ ~At("exitSync") /\ ~At("release"))'
            => started /\ life = "live" /\ ~At("exitSync") /\ ~At("release")
      BY DEF At
    <2>4. Accounted => Accounted'
      BY DEF Accounted
    <2> QED
      BY <2>1, <2>2, <2>3, <2>4 DEF IInv, Filters
  <1> QED
    BY <1>1, <1>4, <1>5

LEMMA DeliverKeeps ==
  ASSUME IInv, NEW f \in FilterIds, Deliver(f)
  PROVE  IInv'
  <1>1. /\ UNCHANGED <<life, mode, joiner, todo, evt, batch, recv, over, stage, freqs, curr, ts, tses,
                       started, fid, armed, ctl, data, prog, pats, owner, subs, st, asked, ends,
                       crashed, owed>>
        /\ LockFree /\ call' = <<f, Self>> /\ st[Self][f] = "held"
    BY DEF Deliver, Dmx!Deliver, app, plan, tables, frontend, registry, history
  <1>2. Agenda' /\ Starting' /\ Living' /\ Filters'
    <2>1. started \/ evt' \subseteq EarlyFlags
      BY <1>1 DEF IInv, Starting, TypeOK
    <2> QED
      BY <1>1, <2>1, Idle
  <1>3. TypeOK'
    BY <1>1 DEF IInv, TypeOK, Evt!TypeOK, Dmx!TypeOK, Count
  <1> QED
    BY <1>2, <1>3 DEF IInv

(* What the handler does with a section of a table, in any of the four ways. *)
LEMMA SectionCollected ==
  ASSUME IInv, NEW t \in Tables, CollectSection(t)
  PROVE  /\ ctl' \in [Tables -> Amount] /\ data' \in [Tables -> Amount]
         /\ pats' \in {None, 0, Programs}
         /\ evt' \in {evt, evt \cup {t}}
         /\ \A u \in Tables : u # t => ctl'[u] = ctl[u] /\ data'[u] = data[u]
  <1>1. /\ ctl \in [Tables -> Amount] /\ data \in [Tables -> Amount]
        /\ pats \in {None, 0, Programs}
    BY DEF IInv, TypeOK
  <1>2. /\ Sections(t) \subseteq Amount /\ {"part", "full"} \subseteq Amount
        /\ ctl[t] \in Amount /\ data[t] \in Amount
    BY <1>1 DEF Sections, Amount
  <1>3. \A c : Completes(t, c) => evt' \in {evt, evt \cup {t}}
    BY DEF Completes
  <1>4. CASE Repetition(t)
    BY <1>1, <1>4 DEF Repetition
  <1>5. CASE Adds(t)
    <2>1. PICK c \in Sections(t) :
            /\ ctl' = [ctl EXCEPT ![t] = c]
            /\ data' = [data EXCEPT ![t] = IF @ = "full" THEN @ ELSE c]
            /\ Completes(t, c)
      BY <1>5, Zenon DEF Adds
    <2>2. pats' \in {None, 0, Programs}
      BY <1>1, <1>5 DEF Adds
    <2>3. PICK d \in Amount : data' = [data EXCEPT ![t] = d]
      BY <1>2, <2>1
    <2> QED
      BY <1>1, <1>2, <1>3, <2>1, <2>2, <2>3
  <1>6. CASE Ignores(t)
    BY <1>1, <1>3, <1>6 DEF Ignores
  <1>7. CASE AddsUnmarked(t)
    <2>1. PICK d \in Amount : data' = [data EXCEPT ![t] = d]
      BY <1>2, <1>7 DEF AddsUnmarked
    <2>2. UNCHANGED <<ctl, pats>> /\ Completes(t, "full")
      BY <1>7 DEF AddsUnmarked
    <2> QED
      BY <1>1, <1>3, <2>1, <2>2
  <1> QED
    BY <1>4, <1>5, <1>6, <1>7 DEF CollectSection

LEMMA HandleKeeps ==
  ASSUME IInv, Handle
  PROVE  IInv'
  <1>1. /\ UNCHANGED <<life, mode, joiner, todo, batch, recv, over, stage, freqs, curr, ts, tses,
                       started, fid, armed, prog, owner, subs, st, asked, ends, crashed, owed>>
        /\ call # None /\ call' = None
    BY DEF Handle, Dmx!Return, app, plan, frontend, registry, history
  <1>2. started
    <2>1. PICK f \in FilterIds : call = <<f, Self>>
      BY <1>1, DemuxTyped
    <2>2. st[Self][f] # "quiet"
      BY <2>1, DemuxTyped
    <2> QED
      BY <2>2 DEF IInv, Starting, TypeOK
  <1>3. /\ ctl' \in [Tables -> Amount] /\ data' \in [Tables -> Amount]
        /\ pats' \in {None, 0, Programs}
        /\ evt' \in SUBSET (Tables \cup {"START", "FEND", "QUIT"})
    <2>1. /\ ctl \in [Tables -> Amount] /\ data \in [Tables -> Amount]
          /\ pats \in {None, 0, Programs}
          /\ evt \in SUBSET (Tables \cup {"START", "FEND", "QUIT"})
      BY DEF IInv, TypeOK
    <2>2. \/ UNCHANGED <<ctl, data, pats, evt>>
          \/ \E t \in Owners(call[1]) :
               CollectBat \/ CollectSection(t)
      BY Zenon DEF Handle
    <2>3. ASSUME NEW t \in Tables, CollectSection(t)
          PROVE  /\ ctl' \in [Tables -> Amount] /\ data' \in [Tables -> Amount]
                 /\ pats' \in {None, 0, Programs}
                 /\ evt' \in SUBSET (Tables \cup {"START", "FEND", "QUIT"})
      BY <2>1, <2>3, SectionCollected
    <2>4. ASSUME CollectBat
          PROVE  /\ ctl' \in [Tables -> Amount] /\ data' \in [Tables -> Amount]
                 /\ pats' \in {None, 0, Programs}
                 /\ evt' \in SUBSET (Tables \cup {"START", "FEND", "QUIT"})
      <3>1. Sections("bat") \subseteq Amount /\ "bat" \in Tables
        BY DEF Sections, Amount, Tables
      <3>2. pats' = pats
        BY <2>4 DEF CollectBat
      <3>3. CASE evt' = evt \cup {"bat"} /\ UNCHANGED <<ctl, data>>
        BY <2>1, <3>1, <3>2, <3>3
      <3>4. CASE evt' = evt /\ \E c \in Sections("bat") : /\ ctl' = [ctl EXCEPT !["bat"] = c]
                                                          /\ data' = [data EXCEPT !["bat"] = c]
        BY <2>1, <3>1, <3>2, <3>4
      <3> QED
        BY <2>4, <3>3, <3>4, Zenon DEF CollectBat
    <2>5. Owners(call[1]) \subseteq Tables
      BY DEF Owners
    <2> QED
      BY <2>1, <2>2, <2>3, <2>4, <2>5
  <1>4. Agenda' /\ Starting' /\ Living' /\ Filters'
    BY <1>1, <1>2, Idle
  <1>5. TypeOK'
    BY <1>1, <1>3, DemuxTyped DEF IInv, TypeOK, Evt!TypeOK, Dmx!TypeOK, Count
  <1> QED
    BY <1>4, <1>5 DEF IInv

LEMMA FrontendKeeps ==
  ASSUME IInv, FendSignal \/ FendCallback \/ FendNobody
  PROVE  IInv'
  <1>1. /\ UNCHANGED <<life, mode, joiner, todo, batch, recv, over, stage, freqs, curr, ts, tses,
                       started, fid, armed, ctl, data, prog, pats, subs, st, call, asked, ends,
                       crashed>>
        /\ owner' \in {Fend, None} /\ owed' \in {owed, FALSE}
    BY DEF FendSignal, FendCallback, FendNobody, Evt!SignalBegin, Evt!SignalEnd, app, plan,
           tables, demux, history
  <1>2. \/ evt' = evt
        \/ Callback \in subs /\ evt' = evt \cup {"FEND"}
    BY DEF FendSignal, FendCallback, FendNobody
  <1>3. started \/ evt' \subseteq EarlyFlags
    BY <1>2 DEF IInv, Starting, TypeOK
  <1>4. Agenda' /\ Starting' /\ Living' /\ Filters'
    BY <1>1, <1>3, Idle
  <1>5. TypeOK'
    <2>1. evt' \in SUBSET (Tables \cup {"START", "FEND", "QUIT"})
      BY <1>2, Typed
    <2>2. owner' \in {Self, Fend} \cup {None} /\ owed' \in BOOLEAN
      BY <1>1 DEF IInv, TypeOK
    <2> QED
      BY <1>1, <2>1, <2>2 DEF IInv, TypeOK, Evt!TypeOK, Dmx!TypeOK, Count
  <1> QED
    BY <1>4, <1>5 DEF IInv

LEMMA CreateKeeps ==
  ASSUME IInv, NEW m \in Modes, Create(m)
  PROVE  IInv'
  <1>1. /\ UNCHANGED <<joiner, evt, batch, recv, over, stage, curr, ts, tses, started, fid, armed,
                       ctl, data, prog, pats, owner, subs, st, call, asked, ends, crashed, owed>>
        /\ life = "none" /\ life' = "live" /\ mode' = m /\ freqs' = m.freqs
        /\ todo' = TimeoutSteps({})
    BY DEF Create, tables, frontend, registry, demux, history
  <1>2. curr = -1 /\ ~started
    BY <1>1 DEF IInv, Living
  <1>3. /\ todo' \in Seq(Items) /\ Loose(todo') /\ Lacks(todo', Last) /\ Only(todo', Early)
    BY <1>1, TimeoutStepsIs DEF Fits
  <1>4. InOrder(todo', fid')
    BY <1>3, LooseInOrder
  <1>5. Agenda' /\ Starting' /\ Living' /\ Filters'
    BY <1>1, <1>2, <1>3, <1>4 DEF IInv, Agenda, Starting, Living, Filters, Dmx!Quiescence
  <1>6. TypeOK'
    <2>1. m.freqs \in Seq(Freqs)
      BY ScanAssumption DEF ScanAssumption
    <2>2. Count' \in Nat
      BY <1>1, <2>1 DEF Count
    <2>3. curr' \in -1..(Count' - 1)
      <3>1. PICK n \in Nat : n = Count'
        BY <2>2
      <3>2. -1 \in -1..(n - 1)
        OBVIOUS
      <3> QED
        BY <1>1, <1>2, <3>1, <3>2
    <2>4. freqs' \in FreqLists \cup {mode'.freqs, None} /\ mode' \in Modes \cup {NoMode}
      BY <1>1
    <2> QED
      BY <1>1, <2>3, <2>4 DEF IInv, TypeOK, Evt!TypeOK, Dmx!TypeOK
  <1> QED
    BY <1>5, <1>6 DEF IInv

LEMMA ApplicationKeeps ==
  ASSUME IInv, Start \/ Destroy \/ Join
  PROVE  IInv'
  <1>1. /\ UNCHANGED <<life, mode, todo, batch, recv, over, stage, freqs, curr, ts, tses,
                       started, fid, armed, ctl, data, prog, pats, owner, subs, st, call, asked,
                       ends, crashed, owed>>
        /\ joiner' \in {joiner, TRUE, FALSE} /\ evt' \in {evt, evt \cup {"START"}, evt \cup {"QUIT"}}
    BY DEF Start, Destroy, Join, app, plan, tables, frontend, registry, demux, history
  <1>2. started \/ evt' \subseteq EarlyFlags
    BY <1>1 DEF IInv, Starting, EarlyFlags, TypeOK
  <1>3. Agenda' /\ Starting' /\ Living' /\ Filters'
    BY <1>1, <1>2, Idle
  <1>4. TypeOK'
    <2>1. evt' \in SUBSET (Tables \cup {"START", "FEND", "QUIT"}) /\ joiner' \in BOOLEAN
      BY <1>1, Typed
    <2> QED
      BY <1>1, <2>1 DEF IInv, TypeOK, Evt!TypeOK, Dmx!TypeOK, Count
  <1> QED
    BY <1>3, <1>4 DEF IInv

LEMMA StutterKeeps ==
  ASSUME IInv, UNCHANGED vars
  PROVE  IInv'
  <1>1. UNCHANGED <<life, mode, joiner, todo, evt, batch, recv, over, stage, freqs, curr, ts, tses,
                    started, fid, armed, ctl, data, prog, pats, owner, subs, st, call, asked,
                    ends, crashed, owed>>
    BY DEF vars, app, plan, tables, frontend, registry, demux, history
  <1>2. Agenda' /\ Starting' /\ Living' /\ Filters'
    <2>1. started \/ evt' \subseteq EarlyFlags
      BY <1>1 DEF IInv, Starting, TypeOK
    <2> QED
      BY <1>1, <2>1, Idle
  <1>3. TypeOK'
    BY <1>1 DEF IInv, TypeOK, Evt!TypeOK, Dmx!TypeOK, Count
  <1> QED
    BY <1>2, <1>3 DEF IInv

LEMMA InitOK == Init => IInv
  <1> SUFFICES ASSUME Init PROVE IInv
    OBVIOUS
  <1>1. \A f \in FilterIds : st[Self][f] = "quiet"
    BY DEF Init, Dmx!Init
  <1>2. TypeOK
    <2>1. /\ fid \in [Tables -> FilterIds \cup {-1, 0}]
          /\ ctl \in [Tables -> Amount] /\ data \in [Tables -> Amount]
      BY DEF Init, Amount
    <2>2. Evt!TypeOK({Callback})
      BY DEF Init, Evt!Init, Evt!TypeOK
    <2>3. Dmx!TypeOK
      <3>1. [f \in FilterIds |-> "quiet"] \in [FilterIds -> Dmx!Status]
        BY DEF Dmx!Status
      <3>2. st \in [{Self} -> [FilterIds -> Dmx!Status]]
        BY <3>1 DEF Init, Dmx!Init
      <3> QED
        BY <3>2 DEF Init, Dmx!Init, Dmx!TypeOK
    <2>4. prog \in 0..Programs /\ curr \in -1..(Count - 1)
      BY ScanAssumption DEF ScanAssumption, Init, Count
    <2>5. /\ life = "none" /\ mode = NoMode /\ joiner = FALSE /\ evt = {} /\ batch = {} /\ recv = {}
          /\ over = {} /\ stage = "WAIT_START" /\ freqs = None /\ ts = None /\ tses = {}
          /\ armed = {} /\ pats = None /\ asked = {} /\ ends = 0
          /\ owed = FALSE /\ started = FALSE /\ crashed = FALSE
      BY DEF Init
    <2>6. /\ life \in {"none", "live", "gone"} /\ mode \in Modes \cup {NoMode} /\ joiner \in BOOLEAN
          /\ stage \in {"WAIT_START", "NIT", "TS", "DONE"}
          /\ freqs \in FreqLists \cup {mode.freqs, None}
          /\ ts \in Freqs \cup {None} /\ pats \in {None, 0, Programs}
      BY <2>5, Zenon
    <2>7. /\ evt \in SUBSET (Tables \cup {"START", "FEND", "QUIT"})
          /\ batch \in SUBSET (Tables \cup {"START", "FEND", "QUIT"})
          /\ recv \in SUBSET (Tables \cup {"fend"}) /\ over \in SUBSET Tables
          /\ tses \in SUBSET Freqs /\ armed \in SUBSET Tables /\ asked \in SUBSET (1..Programs)
      BY <2>5
    <2>8. ends \in 0..2
      BY <2>5
    <2>9. {owed, started, crashed} \subseteq BOOLEAN
      BY <2>5, Zenon
    <2> QED
      BY <2>1, <2>2, <2>3, <2>4, <2>6, <2>7, <2>8, <2>9, Zenon DEF TypeOK
  <1>3. Agenda /\ Starting /\ Living
    <2>1. InOrder(<<>>, fid)
      BY EmptyIs, LooseInOrder
    <2> QED
      BY <1>1, <2>1, EmptyIs DEF Init, Agenda, Starting, Living, Evt!Init
  <1>4. Filters
    <2>1. \A f \in FilterIds : None # <<f, Self>>
      BY ScanAssumption DEF ScanAssumption
    <2> QED
      BY <1>1, <2>1 DEF Init, Dmx!Init, Filters, Dmx!Quiescence
  <1> QED
    BY <1>2, <1>3, <1>4 DEF IInv

LEMMA NextStep == IInv /\ [Next]_vars => IInv'
  <1> SUFFICES ASSUME IInv, [Next]_vars PROVE IInv'
    OBVIOUS
  <1>1. CASE FreeFilter
    BY <1>1, FreeFilterKeeps
  <1>2. CASE Sync
    BY <1>2, SyncKeeps
  <1>3. CASE AllocateFilter
    BY <1>3, AllocateFilterKeeps
  <1>4. CASE SignalEvent
    BY <1>4, SignalEventKeeps
  <1>5. CASE NitDone \/ BatDone
    BY <1>5, NetworkKeeps
  <1>6. CASE PatDone \/ CatDone \/ SdtDone \/ MgtDone \/ VctDone
    BY <1>6, TableDonesKeep
  <1>7. CASE PmtDone \/ NextPmt
    BY <1>7, PmtKeeps
  <1>8. CASE TryNit \/ StartNextTs
    BY <1>8, StagesKeep
  <1>9. CASE LeaveTs
    BY <1>9, LeaveTsKeeps
  <1>10. CASE TuneNext \/ SetPara
    BY <1>10, TuneKeeps
  <1>11. CASE SolveFendEvt \/ Unlocked
    BY <1>11, FendKeeps
  <1>12. CASE LockedNit \/ LockedTs
    BY <1>12, LockedKeeps
  <1>13. CASE TablesDone \/ CheckTimeout
    BY <1>13, LoopsKeep
  <1>14. CASE TsComplete \/ Wake \/ SpuriousWake \/ WaitTimesOut \/ EndBatch
    BY <1>14, RoundsKeep
  <1>15. CASE Begin
    BY <1>15, BeginKeeps
  <1>16. CASE StartScan
    BY <1>16, StartScanKeeps
  <1>17. CASE Quit
    BY <1>17, QuitKeeps
  <1>18. CASE Unsubscribe
    BY <1>18, UnsubscribeKeeps
  <1>19. CASE FreeAll
    BY <1>19, FreeAllKeeps
  <1>20. CASE ExitSync
    BY <1>20, ExitSyncKeeps
  <1>21. CASE Release
    BY <1>21, ReleaseKeeps
  <1>22. ASSUME NEW f \in FilterIds, Deliver(f) PROVE IInv'
    BY <1>22, DeliverKeeps
  <1>23. CASE Handle
    BY <1>23, HandleKeeps
  <1>24. CASE FendSignal \/ FendCallback \/ FendNobody
    BY <1>24, FrontendKeeps
  <1>25. ASSUME NEW m \in Modes, Create(m) PROVE IInv'
    BY <1>25, CreateKeeps
  <1>26. CASE Start \/ Destroy \/ Join
    BY <1>26, ApplicationKeeps
  <1>27. CASE UNCHANGED vars
    BY <1>27, StutterKeeps
  <1> QED
    BY <1>1, <1>2, <1>3, <1>4, <1>5, <1>6, <1>7, <1>8, <1>9, <1>10, <1>11, <1>12, <1>13, <1>14,
       <1>15, <1>16, <1>17, <1>18, <1>19, <1>20, <1>21, <1>22, <1>23, <1>24, <1>25, <1>26, <1>27
       DEF Next, ThreadStep

--------------------------------------------------------------------------------
(* Every step of am_scan_thread, of its handlers and of the application      *)
(* keeps the inductive invariant: the types, the shape of the agenda, what a *)
(* scan that is not started or that leaves can do, and what filters there    *)
(* are.                                                                      *)
THEOREM Invariance == Spec => []IInv
  BY InitOK, NextStep, PTL DEF Spec

(* The variables of the scanner hold what the code gives them.               *)
THEOREM TypeCorrect == Spec => []TypeOK
  <1>1. IInv => TypeOK
    BY DEF IInv
  <1> QED
    BY <1>1, Invariance, PTL

(* The filters the scanner holds are the filters of its tables, each of one  *)
(* table (am_scan_request_section, am_scan_free_filter); and when            *)
(* AM_SCAN_Destroy is over it holds none, no section handler works on it and *)
(* the frontend does not call back into it.                                  *)
THEOREM NoFilterLost == Spec => []FiltersAccounted
  <1>1. IInv => FiltersAccounted
    <2> SUFFICES ASSUME IInv PROVE FiltersAccounted
      OBVIOUS
    <2>1. ASSUME started, life = "live", ~At("exitSync"), ~At("release")
          PROVE  /\ Held = {fid[t] : t \in Tables} \ {-1}
                 /\ \A t \in Tables : fid[t] # -1 => \A u \in Tables \ {t} : fid[u] # fid[t]
      <3>1. Accounted
        BY <2>1 DEF IInv, Filters
      <3>2. \A f : f \in Held <=> f \in {fid[t] : t \in Tables} \ {-1}
        BY <3>1, DemuxTyped DEF Accounted, Held
      <3>3. Held = {fid[t] : t \in Tables} \ {-1}
        BY <3>2
      <3> QED
        BY <3>1, <3>3 DEF Accounted
    <2>2. ASSUME life = "gone"
          PROVE  call = None /\ Held = {} /\ Callback \notin subs
      BY <2>2 DEF IInv, Living, Left, NoneHeld, Held
    <2> QED
      BY <2>1, <2>2 DEF FiltersAccounted, IInv
  <1> QED
    BY <1>1, Invariance, PTL

(* A scanner that was started gives back its own filters only: every fid     *)
(* that is not -1 is a filter it holds when am_scan_thread frees them.       *)
THEOREM OwnFiltersOnly == Spec => GivesBackOwn
  <1>1. IInv /\ [Next]_vars => [stolen' # stolen => ~started]_vars
    <2> SUFFICES ASSUME IInv, [Next]_vars, stolen' # stolen, started
                 PROVE  FALSE
      OBVIOUS
    <2>1. FreeAll
      BY DEF Next, ThreadStep, FreeFilter, Sync, AllocateFilter, SignalEvent, NitDone, BatDone,
             PatDone, CatDone, SdtDone, MgtDone, VctDone, TableDone, PmtDone, NextPmt, TryNit,
             StartNextTs, LeaveTs, TuneNext, SetPara, SolveFendEvt, Unlocked, LockedNit, LockedTs,
             TablesDone, CheckTimeout, TsComplete, Wake, SpuriousWake, WakeWhen, WaitTimesOut,
             EndBatch, Begin, StartScan, Quit, Unsubscribe, ExitSync, Release, Deliver, Handle,
             FendSignal, FendCallback, FendNobody, Create, Start, Destroy, Join, vars, history
    <2>2. /\ todo # <<>> /\ Head(todo)[1] = "freeAll" /\ "freeAll" \in Last
          /\ stolen' = stolen \cup (({fid[t] : t \in Checked} \ {-1}) \ Held)
      BY <2>1 DEF FreeAll, At, Last
    <2>3. life = "live"
      BY <2>2, LeavingIs
    <2>4. Accounted
      BY <2>2, <2>3 DEF IInv, Filters, At
    <2>5. \A t \in Checked : t \in Tables
      BY DEF Checked, Tables, TsTables
    <2>6. \A t \in Checked : fid[t] # -1 => fid[t] \in Held
      BY <2>4, <2>5 DEF Accounted, Held
    <2> QED
      BY <2>2, <2>6
  <1> QED
    BY <1>1, Invariance, PTL DEF Spec, GivesBackOwn

--------------------------------------------------------------------------------
(* How the scan goes from one frequency to the next.  The steps that lead    *)
(* there, and those before which the next one may have to wait:              *)
Movers == {"outcome", "nextTs", "tune", "setPara", "tryNit"}
Between == {"signal", "leaveTs"}
Calm == {q \in Items : q[1] \notin Movers}
Pauses == {q \in Items : q[1] \in Between}

(* One such step is to come at most, and soon.                               *)
OneMove(s) ==
  \A i \in 1..Len(s) : s[i][1] \in Movers => \A j \in 1..(i - 1) : s[j][1] \in Between

(* None leads on while the frontend's answer is waited for, but in the NIT   *)
(* stage.                                                                    *)
Awaited ==
  /\ OneMove(todo)
  /\ "fend" \in recv => Lacks(todo, {"outcome", "nextTs"})
  /\ "fend" \in recv /\ stage = "TS" => Lacks(todo, {"tune", "setPara"})

(* What a scan that tries no NIT does, but for the announcement of its end.  *)
Network == {"nit", "bat"}
End == S("signal", "SCAN_END")
Ordinary ==
  {q \in Items : /\ q[1] # "tryNit" /\ q # End
                 /\ q[1] \in TableSteps => q[2] \notin Network
                 /\ q[1] = "tables" => q[2] \cap Network = {}}
NoNetwork ==
  /\ recv \cap Network = {} /\ evt \cap Network = {} /\ batch \cap Network = {}
  /\ started => fid["nit"] = -1 /\ fid["bat"] = -1

(* Such a scan ends when the list is used up, and does not go on from there. *)
Onward == {"nextTs", "tune", "setPara"}
Ends ==
  \/ todo \in Seq(Ordinary) /\ ends = 0
  \/ todo \in Seq(Ordinary) /\ ends = 1 /\ stage = "DONE"
  \/ todo # <<>> /\ Head(todo) = End /\ Tail(todo) \in Seq(Ordinary) /\ ends = 0 /\ stage = "DONE"
Once ==
  ~mode.auto =>
    /\ NoNetwork /\ stage # "NIT"
    /\ stage = "DONE" => Lacks(todo, Onward)
    /\ Ends

(* The application gives a mode when it creates the scanner.                 *)
Fresh == life = "none" => mode = NoMode

MovesInv == IInv /\ Fresh /\ Awaited /\ Once

LEMMA Parts ==
  ASSUME NEW A \in SUBSET Items, NEW s \in Seq(A), NEW r \in Seq(A)
  PROVE  /\ s \in Seq(Items) /\ s \o r \in Seq(A) /\ <<>> \in Seq(A)
         /\ s # <<>> => Head(s) \in A /\ Tail(s) \in Seq(A)
         /\ \A i \in 1..Len(s) : s[i] \in A
         /\ \A q \in A : <<q>> \in Seq(A)
         /\ \A p, q \in A : <<p, q>> \in Seq(A)
  <1>1. s # <<>> => Head(s) \in A /\ Tail(s) \in Seq(A)
    BY HeadTailProperties
  <1>2. /\ \A q \in A : <<q>> \in Seq(A)
        /\ \A p, q \in A : <<p, q>> \in Seq(A)
    OBVIOUS
  <1>3. /\ s \in Seq(Items) /\ s \o r \in Seq(A) /\ <<>> \in Seq(A)
        /\ \A i \in 1..Len(s) : s[i] \in A
    OBVIOUS
  <1> QED
    BY <1>1, <1>2, <1>3

LEMMA CalmIs ==
  ASSUME NEW s \in Seq(Items)
  PROVE  /\ s \in Seq(Calm) => OneMove(s) /\ \A names \in SUBSET Movers : Lacks(s, names)
         /\ Lacks(s, Movers) => s \in Seq(Calm)
         /\ s \in Seq(Pauses) => s \in Seq(Calm)
  <1>1. Calm \subseteq Items /\ Pauses \subseteq Items /\ Between \cap Movers = {}
    BY DEF Calm, Pauses, Between, Movers
  <1>2. s \in Seq(Calm) => \A i \in 1..Len(s) : s[i] \in Calm
    BY <1>1, Parts
  <1>3. s \in Seq(Calm) => \A i \in 1..Len(s) : s[i][1] \notin Movers
    BY <1>2 DEF Calm
  <1>4. Lacks(s, Movers) => s \in Seq(Calm)
    <2> SUFFICES ASSUME Lacks(s, Movers) PROVE s \in Seq(Calm)
      OBVIOUS
    <2>1. \A i \in 1..Len(s) : s[i] \in Calm
      BY DEF Lacks, Calm
    <2> QED
      BY <2>1
  <1>5. s \in Seq(Pauses) => s \in Seq(Calm)
    <2> SUFFICES ASSUME s \in Seq(Pauses) PROVE Lacks(s, Movers)
      BY <1>4
    <2>1. \A i \in 1..Len(s) : s[i] \in Pauses
      BY <1>1, Parts
    <2> QED
      BY <1>1, <2>1 DEF Lacks, Pauses
  <1> QED
    BY <1>3, <1>4, <1>5 DEF OneMove, Lacks

LEMMA MovesJoined ==
  ASSUME NEW p \in Seq(Items), OneMove(p), NEW r \in Seq(Items), r \in Seq(Calm)
  PROVE  /\ p \o r \in Seq(Items) /\ OneMove(p \o r)
         /\ \A names \in SUBSET Movers : Lacks(p, names) => Lacks(p \o r, names)
  <1> DEFINE u == p \o r
  <1>1. /\ u \in Seq(Items) /\ Len(p) \in Nat
        /\ \A i \in 1..Len(p) : i \in 1..Len(u) /\ u[i] = p[i]
        /\ \A i \in 1..Len(u) : \/ i \in 1..Len(p) /\ u[i] = p[i]
                                \/ i - Len(p) \in 1..Len(r) /\ u[i] = r[i - Len(p)]
    BY JoinedIs
  <1> HIDE DEF u
  <1>2. \A names \in SUBSET Movers : Lacks(r, names)
    BY CalmIs
  <1>3. \A i \in 1..Len(r) : r[i][1] \notin Movers
    BY <1>2 DEF Lacks
  <1>4. ASSUME NEW i \in 1..Len(u), u[i][1] \in Movers, NEW j \in 1..(i - 1)
        PROVE  u[j][1] \in Between
    <2>1. i \in 1..Len(p) /\ u[i] = p[i]
      BY <1>1, <1>3, <1>4
    <2>2. j \in 1..Len(p)
      BY <1>1, <2>1
    <2> QED
      BY <1>1, <1>4, <2>1, <2>2 DEF OneMove
  <1>5. \A names \in SUBSET Movers : Lacks(p, names) => Lacks(u, names)
    BY <1>1, <1>2 DEF Lacks
  <1> QED
    BY <1>1, <1>4, <1>5 DEF u, OneMove

LEMMA OneStepMoves ==
  ASSUME NEW a \in Seq(Items), a \in Seq(Pauses), NEW q \in Items
  PROVE  /\ a \o <<q>> \in Seq(Items) /\ OneMove(a \o <<q>>)
         /\ \A names \in SUBSET Movers : q[1] \notin names => Lacks(a \o <<q>>, names)
  <1> DEFINE u == a \o <<q>>
  <1>1. <<q>> \in Seq(Items) /\ Len(<<q>>) = 1 /\ <<q>>[1] = q
    BY OneStep
  <1>2. /\ u \in Seq(Items) /\ Len(a) \in Nat
        /\ \A i \in 1..Len(a) : i \in 1..Len(u) /\ u[i] = a[i]
        /\ \A i \in 1..Len(u) : \/ i \in 1..Len(a) /\ u[i] = a[i]
                                \/ i - Len(a) \in 1..1 /\ u[i] = <<q>>[i - Len(a)]
    BY <1>1, JoinedIs
  <1> HIDE DEF u
  <1>3. /\ Pauses \subseteq Items /\ Between \cap Movers = {}
        /\ \A x \in Pauses : x[1] \in Between
    BY DEF Pauses, Between, Movers
  <1>4. \A i \in 1..Len(a) : a[i] \in Pauses
    BY <1>3, Parts
  <1>5. \A i \in 1..Len(a) : a[i][1] \in Between
    BY <1>3, <1>4
  <1>6. \A i \in 1..Len(u) : \/ i \in 1..Len(a) /\ u[i][1] \in Between
                             \/ i = Len(a) + 1 /\ u[i] = q
    BY <1>1, <1>2, <1>5
  <1>7. ASSUME NEW i \in 1..Len(u), u[i][1] \in Movers, NEW j \in 1..(i - 1)
        PROVE  u[j][1] \in Between
    <2>1. i = Len(a) + 1
      BY <1>3, <1>6, <1>7
    <2>2. j \in 1..Len(a)
      BY <1>2, <2>1
    <2> QED
      BY <1>2, <1>5, <2>2
  <1>8. \A names \in SUBSET Movers : q[1] \notin names => Lacks(u, names)
    BY <1>3, <1>6 DEF Lacks
  <1> QED
    BY <1>2, <1>7, <1>8 DEF u, OneMove

LEMMA TailMoves ==
  ASSUME NEW s \in Seq(Items), s # <<>>, OneMove(s)
  PROVE  /\ OneMove(Tail(s))
         /\ Head(s)[1] \notin Between => Tail(s) \in Seq(Calm)
  <1>1. /\ Head(s) = s[1] /\ Tail(s) \in Seq(Items) /\ Len(s) \in Nat \ {0}
        /\ \A i \in 1..Len(Tail(s)) : i + 1 \in 1..Len(s) /\ Tail(s)[i] = s[i + 1]
    BY TailIs
  <1>2. ASSUME NEW i \in 1..Len(Tail(s)), Tail(s)[i][1] \in Movers, NEW j \in 1..(i - 1)
        PROVE  Tail(s)[j][1] \in Between
    <2>1. j \in 1..Len(Tail(s)) /\ j + 1 \in 1..((i + 1) - 1)
      BY <1>1
    <2> QED
      BY <1>1, <1>2, <2>1 DEF OneMove
  <1>3. ASSUME Head(s)[1] \notin Between, NEW i \in 1..Len(Tail(s)), Tail(s)[i][1] \in Movers
        PROVE  FALSE
    <2>1. 1 \in 1..((i + 1) - 1) /\ i + 1 \in 1..Len(s) /\ s[i + 1][1] \in Movers
      BY <1>1, <1>3
    <2> QED
      BY <1>1, <1>3, <2>1 DEF OneMove
  <1>4. Head(s)[1] \notin Between => Lacks(Tail(s), Movers)
    BY <1>3 DEF Lacks
  <1> QED
    BY <1>1, <1>2, <1>4, CalmIs DEF OneMove

LEMMA StepIs ==
  ASSUME NEW name \in PlainSteps
  PROVE  /\ S(name, "") \in Items /\ S(name, "")[1] = name
         /\ name \notin Movers => S(name, "") \in Calm
         /\ name # "tryNit" => S(name, "") \in Ordinary
         /\ name = "leaveTs" => S(name, "") \in Pauses
  <1>1. S(name, "") \in Items /\ S(name, "")[1] = name
    BY DEF Items, S
  <1>2. name \notin TableSteps \cup {"signal", "tables"}
    BY DEF PlainSteps, Last, TableSteps
  <1>3. End[1] = "signal"
    BY DEF End, S
  <1>4. \A q \in Items : q[1] = name => q # End
    BY <1>2, <1>3
  <1>5. name # "tryNit" => S(name, "") \in Ordinary
    BY <1>1, <1>2, <1>4 DEF Ordinary
  <1> QED
    BY <1>1, <1>5 DEF Calm, Pauses, Between

LEMMA SeqIs ==
  ASSUME NEW A
  PROVE  /\ <<>> \in Seq(A)
         /\ \A q \in A : <<q>> \in Seq(A)
         /\ \A s, r \in Seq(A) : s \o r \in Seq(A)
  OBVIOUS

LEMMA PlainSeq ==
  ASSUME NEW name \in PlainSteps
  PROVE  /\ <<S(name, "")>> \in Seq(Items)
         /\ name \notin Movers => <<S(name, "")>> \in Seq(Calm)
         /\ name # "tryNit" => <<S(name, "")>> \in Seq(Ordinary)
         /\ name = "leaveTs" => <<S(name, "")>> \in Seq(Pauses)
  <1>1. PICK q : q = S(name, "")
    OBVIOUS
  <1>2. /\ q \in Items
        /\ name \notin Movers => q \in Calm
        /\ name # "tryNit" => q \in Ordinary
        /\ name = "leaveTs" => q \in Pauses
    BY <1>1, StepIs
  <1>3. /\ <<q>> \in Seq(Items)
        /\ name \notin Movers => <<q>> \in Seq(Calm)
        /\ name # "tryNit" => <<q>> \in Seq(Ordinary)
        /\ name = "leaveTs" => <<q>> \in Seq(Pauses)
    BY <1>2
  <1> QED
    BY <1>1, <1>3

LEMMA SignalIs ==
  ASSUME NEW e \in Events
  PROVE  /\ Signal(e) \in Seq(Pauses) /\ Signal(e) \in Seq(Calm) /\ Signal(e) \in Seq(Items)
         /\ e # "SCAN_END" => Signal(e) \in Seq(Ordinary)
         /\ \A b : /\ SignalIf(b, e) \in Seq(Pauses) /\ SignalIf(b, e) \in Seq(Items)
                   /\ e # "SCAN_END" => SignalIf(b, e) \in Seq(Ordinary)
  <1> DEFINE q == S("signal", e)
  <1>1. q \in Items /\ q[1] = "signal" /\ q[2] = e
    BY DEF Items, S
  <1>2. End[2] = "SCAN_END"
    BY DEF End, S
  <1>3. "signal" \notin TableSteps \cup {"tables", "tryNit"} \cup Movers /\ "signal" \in Between
    BY DEF TableSteps, Movers, Between
  <1> HIDE DEF q
  <1>4. q \in Pauses /\ q \in Calm /\ (e # "SCAN_END" => q \in Ordinary)
    BY <1>1, <1>2, <1>3 DEF Pauses, Calm, Ordinary
  <1>5. /\ <<q>> \in Seq(Pauses) /\ <<q>> \in Seq(Calm) /\ <<q>> \in Seq(Items)
        /\ e # "SCAN_END" => <<q>> \in Seq(Ordinary)
    BY <1>1, <1>4
  <1>6. <<>> \in Seq(Pauses) /\ <<>> \in Seq(Items) /\ <<>> \in Seq(Ordinary)
    OBVIOUS
  <1>7. Signal(e) = <<q>>
    BY DEF Signal, q
  <1> QED
    BY <1>5, <1>6, <1>7 DEF SignalIf

LEMMA LoopIs ==
  ASSUME NEW name \in LoopSteps, NEW U \in SUBSET Tables
  PROVE  /\ Loop(name, U) \in Seq(Calm)
         /\ name = "checks" \/ U \cap Network = {} => Loop(name, U) \in Seq(Ordinary)
  <1> DEFINE q == S(name, U)
  <1>1. U # {} => q \in Items
    BY DEF Items, LoopItems, S
  <1>2. q[1] = name /\ q[2] = U
    BY DEF S
  <1>3. name \notin TableSteps \cup {"tryNit", "signal"} \cup Movers
    BY DEF TableSteps, LoopSteps, Movers
  <1>4. End[1] = "signal"
    BY DEF End, S
  <1> HIDE DEF q
  <1>5. U # {} => /\ q \in Calm
                  /\ name = "checks" \/ U \cap Network = {} => q \in Ordinary
    BY <1>1, <1>2, <1>3, <1>4 DEF Calm, Ordinary
  <1>6. Loop(name, U) = IF U = {} THEN <<>> ELSE <<q>>
    BY DEF Loop, q
  <1> QED
    BY <1>5, <1>6

LEMMA TableIs ==
  ASSUME NEW t \in Tables
  PROVE  /\ Request(t) \in Seq(Calm) /\ DoneSteps(t) \in Seq(Calm)
         /\ t \notin Network => Request(t) \in Seq(Ordinary) /\ DoneSteps(t) \in Seq(Ordinary)
  <1>1. ASSUME NEW name \in TableSteps
        PROVE  S(name, t) \in Calm /\ (t \notin Network => S(name, t) \in Ordinary)
    <2> DEFINE q == S(name, t)
    <2>1. q \in Items /\ q[1] = name /\ q[2] = t
      BY DEF Items, S
    <2>2. name \notin Movers \cup {"tables", "tryNit", "signal"}
      BY DEF TableSteps, Movers
    <2>3. End[1] = "signal"
      BY DEF End, S
    <2> HIDE DEF q
    <2>4. q \in Calm /\ (t \notin Network => q \in Ordinary)
      BY <2>1, <2>2, <2>3 DEF Calm, Ordinary
    <2> QED
      BY <2>4 DEF q
  <1> DEFINE f == S("free", t)
             a == S("alloc", t)
             d == S("after", t)
  <1>2. /\ f \in Calm /\ a \in Calm /\ d \in Calm
        /\ t \notin Network => f \in Ordinary /\ a \in Ordinary /\ d \in Ordinary
    BY <1>1 DEF TableSteps
  <1> HIDE DEF f, a, d
  <1>3. /\ <<f, a>> \in Seq(Calm) /\ <<f, d>> \in Seq(Calm)
        /\ t \notin Network => <<f, a>> \in Seq(Ordinary) /\ <<f, d>> \in Seq(Ordinary)
    BY <1>2
  <1> QED
    BY <1>3 DEF Request, DoneSteps, f, a, d

(* What is left of the agenda after its first step.                          *)
LEMMA AfterHead ==
  ASSUME MovesInv, todo # <<>>
  PROVE  /\ todo \in Seq(Items) /\ Rest \in Seq(Items) /\ Rest = Tail(todo)
         /\ todo[1] = Head(todo) /\ 1 \in 1..Len(todo) /\ Head(todo) \in Items
         /\ OneMove(Rest)
         /\ Head(todo)[1] \notin Between => Rest \in Seq(Calm)
         /\ \A names : Lacks(todo, names) => Lacks(Rest, names)
         /\ ~mode.auto =>
              /\ Rest \in Seq(Ordinary)
              /\ Head(todo)[1] # "signal" =>
                   /\ Head(todo) \in Ordinary
                   /\ ends = 0 \/ (ends = 1 /\ stage = "DONE")
  <1>1. /\ todo \in Seq(Items) /\ Rest \in Seq(Items) /\ Rest = Tail(todo)
        /\ todo[1] = Head(todo) /\ 1 \in 1..Len(todo) /\ Head(todo) \in Items
        /\ \A names : Lacks(todo, names) => Lacks(Rest, names)
    BY TailIs DEF MovesInv, IInv, Agenda, Rest
  <1>2. OneMove(Rest) /\ (Head(todo)[1] \notin Between => Rest \in Seq(Calm))
    BY <1>1, TailMoves DEF MovesInv, Awaited
  <1>3. ASSUME ~mode.auto
        PROVE  /\ Rest \in Seq(Ordinary)
               /\ Head(todo)[1] # "signal" =>
                    /\ Head(todo) \in Ordinary
                    /\ ends = 0 \/ (ends = 1 /\ stage = "DONE")
    <2>1. Ends
      BY <1>3 DEF MovesInv, Once
    <2>2. Ordinary \subseteq Items /\ End[1] = "signal"
      BY DEF Ordinary, End, S
    <2>3. CASE todo \in Seq(Ordinary)
      <3>1. Head(todo) \in Ordinary /\ Tail(todo) \in Seq(Ordinary)
        BY <2>2, <2>3, Parts
      <3> QED
        BY <1>1, <2>1, <2>2, <3>1 DEF Ends
    <2>4. CASE /\ Head(todo) = End /\ Tail(todo) \in Seq(Ordinary)
               /\ ends = 0 /\ stage = "DONE"
      BY <1>1, <2>2, <2>4
    <2> QED
      BY <2>1, <2>3, <2>4 DEF Ends
  <1> QED
    BY <1>1, <1>2, <1>3

(* Steps that are put in front of calm ones.                                 *)
LEMMA AwaitedAgain ==
  ASSUME NEW p \in Seq(Items), NEW r \in Seq(Items), r \in Seq(Calm), todo' = p \o r, OneMove(p),
         "fend" \in recv' => Lacks(p, {"outcome", "nextTs"}),
         "fend" \in recv' /\ stage' = "TS" => Lacks(p, {"tune", "setPara"})
  PROVE  Awaited'
  <1>1. {"outcome", "nextTs"} \in SUBSET Movers /\ {"tune", "setPara"} \in SUBSET Movers
    BY DEF Movers
  <1>2. OneMove(todo') /\ \A names \in SUBSET Movers : Lacks(p, names) => Lacks(todo', names)
    BY MovesJoined
  <1> QED
    BY <1>1, <1>2 DEF Awaited

LEMMA OnceAgain ==
  ASSUME Once, mode' = mode, ends' = ends, todo' \in Seq(Items),
         ~mode.auto => /\ NoNetwork' /\ stage' # "NIT"
                       /\ todo' \in Seq(Ordinary)
                       /\ stage' = "DONE" => Lacks(todo', Onward)
                       /\ ends = 0 \/ (ends = 1 /\ stage' = "DONE")
  PROVE  Once'
  BY DEF Once, Ends

(* Calm steps, put in front of the rest or in its place.                     *)
LEMMA CalmPushed ==
  ASSUME MovesInv, NEW p \in Seq(Items), p \in Seq(Calm), ~mode.auto => p \in Seq(Ordinary),
         \/ todo # <<>> /\ Head(todo)[1] \notin Between /\ todo' = p \o Rest
         \/ todo # <<>> /\ Head(todo)[1] # "signal" /\ todo' = p
         \/ todo = <<>> /\ todo' = p,
         "fend" \in recv' => "fend" \in recv, stage' = stage, mode' = mode, ends' = ends,
         ~mode.auto => NoNetwork'
  PROVE  Awaited' /\ Once'
  <1>1. PICK r \in Seq(Items) : /\ r \in Seq(Calm) /\ (~mode.auto => r \in Seq(Ordinary))
                                /\ todo' = p \o r
                                /\ ~mode.auto => ends = 0 \/ (ends = 1 /\ stage = "DONE")
    <2>1. CASE todo # <<>> /\ Head(todo)[1] \notin Between /\ todo' = p \o Rest
      BY <2>1, AfterHead DEF Between
    <2>2. <<>> \in Seq(Items) /\ <<>> \in Seq(Calm) /\ <<>> \in Seq(Ordinary) /\ p \o <<>> = p
      OBVIOUS
    <2>3. CASE todo # <<>> /\ Head(todo)[1] # "signal" /\ todo' = p
      BY <2>2, <2>3, AfterHead
    <2>4. CASE todo = <<>> /\ todo' = p
      <3>1. ~mode.auto => ends = 0 \/ (ends = 1 /\ stage = "DONE")
        BY <2>4 DEF MovesInv, Once, Ends
      <3> QED
        BY <2>2, <2>4, <3>1
    <2> QED
      BY <2>1, <2>3, <2>4
  <1>2. OneMove(p) /\ \A names \in SUBSET Movers : Lacks(p, names) /\ Lacks(r, names)
    BY <1>1, CalmIs
  <1>3. /\ {"outcome", "nextTs"} \in SUBSET Movers /\ {"tune", "setPara"} \in SUBSET Movers
        /\ Onward \in SUBSET Movers
    BY DEF Movers, Onward
  <1>4. Awaited'
    BY <1>1, <1>2, <1>3, AwaitedAgain
  <1>5. todo' \in Seq(Items) /\ Lacks(todo', Onward)
    BY <1>1, <1>2, <1>3, MovesJoined
  <1>6. ~mode.auto => todo' \in Seq(Ordinary)
    BY <1>1
  <1>7. Once'
    <2>1. ~mode.auto => stage # "NIT"
      BY DEF MovesInv, Once
    <2>2. Once
      BY DEF MovesInv
    <2> QED
      BY <1>1, <1>5, <1>6, <2>1, <2>2, OnceAgain
  <1> QED
    BY <1>4, <1>7

(* Steps that are done, or of others.                                        *)
LEMMA StepDone ==
  ASSUME MovesInv,
         \/ todo' = todo
         \/ todo # <<>> /\ Head(todo)[1] # "signal" /\ todo' = Rest
         \/ todo # <<>> /\ Head(todo)[1] # "signal" /\ todo' = <<>>,
         "fend" \in recv' => "fend" \in recv, stage' = stage, mode' = mode, ends' = ends,
         ~mode.auto => NoNetwork'
  PROVE  Awaited' /\ Once'
  <1>1. CASE todo' = todo
    BY <1>1 DEF MovesInv, Awaited, Once, Ends
  <1>2. CASE todo # <<>> /\ Head(todo)[1] # "signal" /\ todo' = Rest
    <2>1. /\ todo' \in Seq(Items) /\ OneMove(todo')
          /\ \A names : Lacks(todo, names) => Lacks(todo', names)
          /\ ~mode.auto => todo' \in Seq(Ordinary) /\ (ends = 0 \/ (ends = 1 /\ stage = "DONE"))
      BY <1>2, AfterHead
    <2>2. Awaited'
      BY <2>1 DEF MovesInv, Awaited
    <2>3. Once'
      BY <2>1 DEF MovesInv, Once, Ends
    <2> QED
      BY <2>2, <2>3
  <1>3. CASE todo # <<>> /\ Head(todo)[1] # "signal" /\ todo' = <<>>
    <2>1. <<>> \in Seq(Items) /\ <<>> \in Seq(Calm) /\ <<>> \in Seq(Ordinary)
      OBVIOUS
    <2> QED
      BY <1>3, <2>1, CalmPushed
  <1> QED
    BY <1>1, <1>2, <1>3

--------------------------------------------------------------------------------
(* The steps that do not move on.                                            *)

LEMMA FiltersMove ==
  ASSUME MovesInv, FreeFilter \/ Sync \/ AllocateFilter
  PROVE  Awaited' /\ Once'
  <1>1. /\ todo # <<>> /\ Head(todo)[1] \in {"free", "sync", "alloc"} /\ stage' = stage /\ mode' = mode
        /\ ends' = ends /\ UNCHANGED <<evt, batch, started>>
    BY DEF FreeFilter, Sync, AllocateFilter, At, plan, app, history
  <1>2. /\ Head(todo)[1] # "sync" => Arg \in Tables
        /\ {"free", "sync", "alloc"} \cap (Between \cup Movers) = {} /\ "fend" \notin Tables
    BY <1>1, HeadIs DEF MovesInv, IInv, TableSteps, Between, Movers, Tables, TsTables
  <1>3. /\ todo' = Rest \/ todo' = <<S("sync", "")>> \o Rest
        /\ recv' = recv \/ (Head(todo)[1] = "alloc" /\ recv' = recv \cup {Arg})
        /\ \/ fid' = fid
           \/ fid' = [fid EXCEPT ![Arg] = -1]
           \/ Head(todo)[1] = "alloc" /\ \E f \in FilterIds : fid' = [fid EXCEPT ![Arg] = f]
    BY Zenon DEF FreeFilter, Sync, AllocateFilter, At, tables, Then
  <1>4. "fend" \in recv' => "fend" \in recv
    BY <1>2, <1>3, <1>1
  <1>5. ~mode.auto => NoNetwork'
    <2> SUFFICES ASSUME ~mode.auto PROVE NoNetwork'
      OBVIOUS
    <2>1. NoNetwork /\ fid \in [Tables -> FilterIds \cup {-1, 0}]
      BY DemuxTyped DEF MovesInv, Once
    <2>2. Head(todo)[1] = "alloc" => Arg \notin Network
      <3>1. Head(todo) \in Ordinary
        BY <1>1, AfterHead
      <3> QED
        BY <3>1 DEF Ordinary, Arg, TableSteps
    <2>3. "nit" \in Tables /\ "bat" \in Tables /\ Network = {"nit", "bat"}
      BY DEF Tables, Network
    <2>4. recv' \cap Network = {}
      BY <1>3, <2>1, <2>2 DEF NoNetwork
    <2>5. started => fid'["nit"] = -1 /\ fid'["bat"] = -1
      <3>1. CASE fid' = fid
        BY <2>1, <3>1 DEF NoNetwork
      <3>2. CASE fid' = [fid EXCEPT ![Arg] = -1]
        BY <2>1, <2>3, <3>2 DEF NoNetwork
      <3>3. CASE Head(todo)[1] = "alloc" /\ \E f \in FilterIds : fid' = [fid EXCEPT ![Arg] = f]
        BY <2>1, <2>2, <2>3, <3>3 DEF NoNetwork
      <3> QED
        BY <1>3, <3>1, <3>2, <3>3
    <2> QED
      BY <1>1, <2>1, <2>4, <2>5 DEF NoNetwork
  <1>6. CASE todo' = Rest
    <2>1. Head(todo)[1] # "signal"
      BY <1>1
    <2> QED
      BY <1>1, <1>4, <1>5, <1>6, <2>1, StepDone
  <1>7. CASE todo' = <<S("sync", "")>> \o Rest
    <2>1. "sync" \in PlainSteps /\ "sync" \notin Movers \cup {"tryNit"}
      BY DEF PlainSteps, Movers
    <2>2. PICK p : p = <<S("sync", "")>>
      OBVIOUS
    <2>3. p \in Seq(Items) /\ p \in Seq(Calm) /\ p \in Seq(Ordinary)
      BY <2>1, <2>2, PlainSeq
    <2>4. todo' = p \o Rest /\ Head(todo)[1] \notin Between
      BY <1>1, <1>2, <1>7, <2>2
    <2> QED
      BY <1>1, <1>4, <1>5, <2>3, <2>4, CalmPushed
  <1> QED
    BY <1>3, <1>6, <1>7

LEMMA SignalMoves ==
  ASSUME MovesInv, SignalEvent
  PROVE  Awaited' /\ Once'
  <1>1. /\ todo # <<>> /\ Head(todo)[1] = "signal" /\ stage' = stage /\ mode' = mode
        /\ UNCHANGED <<batch, started, recv, fid>> /\ todo' = Rest
        /\ evt' \in {evt, evt \cup {"QUIT"}}
        /\ ends' = IF Arg = "SCAN_END" /\ ends < 2 THEN ends + 1 ELSE ends
    BY DEF SignalEvent, At, plan, app, tables
  <1>2. /\ todo' \in Seq(Items) /\ OneMove(todo')
        /\ \A names : Lacks(todo, names) => Lacks(todo', names)
        /\ ~mode.auto => todo' \in Seq(Ordinary)
    BY <1>1, AfterHead
  <1>3. Awaited'
    BY <1>1, <1>2 DEF MovesInv, Awaited
  <1>4. Once'
    <2> SUFFICES ASSUME ~mode.auto PROVE Once'
      BY <1>1 DEF Once
    <2>1. Ends /\ NoNetwork /\ stage # "NIT" /\ (stage = "DONE" => Lacks(todo, Onward))
      BY DEF MovesInv, Once
    <2>2. NoNetwork'
      BY <1>1, <2>1 DEF NoNetwork, Network
    <2>3. End[2] = "SCAN_END"
      BY DEF End, S
    <2>4. CASE todo \in Seq(Ordinary)
      <3>1. Head(todo) \in Ordinary /\ Head(todo) \in Items
        BY <1>1, <2>4, Parts, AfterHead DEF Ordinary
      <3>2. Arg # "SCAN_END"
        <4>1. Head(todo) = S("signal", Arg)
          <5>1. Head(todo) \in {"signal"} \X Events
            BY <1>1, <3>1 DEF Items, TableSteps, LoopItems, LoopSteps, PlainSteps, Last
          <5> QED
            BY <5>1 DEF Arg, S
        <4> QED
          BY <3>1, <4>1 DEF Ordinary, End
      <3> QED
        BY <1>1, <1>2, <2>1, <2>2, <2>4, <3>2, AfterHead DEF Once, Ends
    <2>5. CASE Head(todo) = End /\ ends = 0 /\ stage = "DONE"
      <3>1. ends' = 1
        BY <1>1, <2>3, <2>5 DEF Arg
      <3> QED
        BY <1>1, <1>2, <2>1, <2>2, <2>5, <3>1 DEF Once, Ends
    <2> QED
      BY <2>1, <2>4, <2>5 DEF Ends
  <1> QED
    BY <1>3, <1>4

LEMMA TablesMove ==
  ASSUME MovesInv,
         \/ PatDone \/ CatDone \/ SdtDone \/ MgtDone \/ VctDone \/ PmtDone \/ NextPmt
         \/ LockedNit \/ LockedTs \/ TablesDone \/ CheckTimeout
  PROVE  Awaited' /\ Once'
  <1>1. /\ todo # <<>>
        /\ Head(todo)[1] \in {"after", "nextPmt", "outcome", "tables", "checks"}
        /\ stage' = stage /\ mode' = mode /\ ends' = ends
        /\ UNCHANGED <<evt, batch, started, fid>> /\ recv' \subseteq recv
    BY DEF PatDone, CatDone, SdtDone, MgtDone, VctDone, TableDone, After, NotWaiting, PmtDone, NextPmt,
           LockedNit, LockedTs, TablesDone, CheckTimeout, At, plan, app, tables, history
  <1>2. {"after", "nextPmt", "outcome", "tables", "checks"} \cap Between = {}
    BY DEF Between
  <1>3. ~mode.auto => NoNetwork'
    BY <1>1 DEF MovesInv, Once, NoNetwork
  <1>4. /\ \A e \in Events : /\ Signal(e) \in Seq(Calm)
                             /\ e # "SCAN_END" => Signal(e) \in Seq(Ordinary)
        /\ "TABLE_DONE" \in Events /\ "PMT_DONE" \in Events
    BY SignalIs DEF Events
  <1>5. /\ <<>> \in Seq(Calm) /\ <<>> \in Seq(Ordinary)
        /\ <<S("nextPmt", "")>> \in Seq(Calm) /\ <<S("nextPmt", "")>> \in Seq(Ordinary)
    <2>1. "nextPmt" \in PlainSteps /\ "nextPmt" \notin Movers \cup {"tryNit"}
      BY DEF PlainSteps, Movers
    <2>2. <<S("nextPmt", "")>> \in Seq(Calm) /\ <<S("nextPmt", "")>> \in Seq(Ordinary)
      BY <2>1, PlainSeq
    <2> QED
      BY <2>2, SeqIs
  <1>6. \A t \in {"vct", "pmt", "pat", "cat", "mgt", "sdt"} :
          Request(t) \in Seq(Calm) /\ Request(t) \in Seq(Ordinary)
    BY TableIs DEF Network, Tables, TsTables
  <1>7. Request("nit") \in Seq(Calm) /\ Request("bat") \in Seq(Calm)
    BY TableIs DEF Tables
  <1>8. \A s, r : /\ s \in Seq(Calm) /\ r \in Seq(Calm) => s \o r \in Seq(Calm)
                  /\ s \in Seq(Ordinary) /\ r \in Seq(Ordinary) => s \o r \in Seq(Ordinary)
    OBVIOUS
  <1>9. \/ todo' = Rest
        \/ \E p : /\ p \in Seq(Calm) /\ (~mode.auto => p \in Seq(Ordinary)) /\ todo' = p \o Rest
    <2>1. ASSUME NEW next, next \in Seq(Calm), next \in Seq(Ordinary),
                 todo' = (Signal("TABLE_DONE") \o next) \o Rest
          PROVE  \E p : /\ p \in Seq(Calm) /\ (~mode.auto => p \in Seq(Ordinary)) /\ todo' = p \o Rest
      <3>1. PICK s : s = Signal("TABLE_DONE")
        OBVIOUS
      <3>2. s \in Seq(Calm) /\ s \in Seq(Ordinary)
        BY <1>4, <3>1
      <3> QED
        BY <1>8, <2>1, <3>1, <3>2
    <2>2. CASE PatDone
      BY <1>5, <2>1, <2>2 DEF PatDone, TableDone, Then
    <2>3. CASE CatDone \/ SdtDone \/ VctDone
      BY <1>5, <2>1, <2>3 DEF CatDone, SdtDone, VctDone, TableDone, Then
    <2>4. CASE MgtDone
      <3>1. PICK next : /\ next = IF data["mgt"] = "none" THEN <<>> ELSE Request("vct")
                        /\ todo' = (Signal("TABLE_DONE") \o next) \o Rest
        BY <2>4 DEF MgtDone, TableDone, Then
      <3>2. next \in Seq(Calm) /\ next \in Seq(Ordinary)
        BY <1>5, <1>6, <3>1
      <3> QED
        BY <2>1, <3>1, <3>2
    <2>5. CASE PmtDone
      BY <1>5, <2>5 DEF PmtDone, Then
    <2>6. CASE NextPmt
      <3>1. todo' = Rest \/ todo' = Signal("PMT_DONE") \o Rest \/ todo' = Request("pmt") \o Rest
        BY <2>6 DEF NextPmt, Then
      <3> QED
        BY <1>4, <1>6, <3>1
    <2>7. CASE LockedNit
      <3>1. \/ todo' = Rest
            \/ stage = "NIT" /\ todo' = (Request("nit") \o (IF mode.bat THEN Request("bat") ELSE <<>>)) \o Rest
        BY <2>7 DEF LockedNit, Then
      <3>2. ~mode.auto => stage # "NIT"
        BY DEF MovesInv, Once
      <3>3. PICK s, r : s = Request("nit") /\ r = IF mode.bat THEN Request("bat") ELSE <<>>
        OBVIOUS
      <3>4. s \in Seq(Calm) /\ r \in Seq(Calm)
        BY <1>5, <1>7, <3>3
      <3> QED
        BY <1>8, <3>1, <3>2, <3>3, <3>4
    <2>8. CASE LockedTs
      <3>1. PICK own \in {"mgt", "sdt"} : todo' = ((Request("pat") \o Request("cat")) \o Request(own)) \o Rest
        BY <2>8 DEF LockedTs, Then
      <3>2. PICK x, y, z : x = Request("pat") /\ y = Request("cat") /\ z = Request(own)
        OBVIOUS
      <3>3. /\ x \in Seq(Calm) /\ y \in Seq(Calm) /\ z \in Seq(Calm)
            /\ x \in Seq(Ordinary) /\ y \in Seq(Ordinary) /\ z \in Seq(Ordinary)
        BY <1>6, <3>1, <3>2
      <3>4. x \o y \in Seq(Calm) /\ x \o y \in Seq(Ordinary)
        BY <1>8, <3>3
      <3>5. (x \o y) \o z \in Seq(Calm) /\ (x \o y) \o z \in Seq(Ordinary)
        BY <1>8, <3>3, <3>4
      <3> QED
        BY <3>1, <3>2, <3>5
    <2>9. CASE TablesDone \/ CheckTimeout
      <3>1. /\ Head(todo)[1] \in LoopSteps /\ Head(todo) = S(Head(todo)[1], Arg)
            /\ Arg \in (SUBSET Tables) \ {{}}
        <4>1. Head(todo)[1] \in LoopSteps
          BY <2>9 DEF TablesDone, CheckTimeout, At, LoopSteps
        <4>2. Head(todo) \in Items /\ Arg \in (SUBSET Tables) \ {{}}
          BY <1>1, <4>1, HeadIs DEF MovesInv, IInv
        <4>3. Head(todo) \in LoopItems
          BY <4>1, <4>2 DEF Items, TableSteps, LoopSteps, PlainSteps, Last
        <4> QED
          BY <4>1, <4>2, <4>3 DEF LoopItems, S, Arg
      <3>2. PICK U \in SUBSET Tables : U = Arg /\ U # {}
        BY <3>1
      <3>3. PICK t \in U : t = First(U)
        BY <3>2, FirstTable
      <3>4. PICK d, l, k : d = DoneSteps(t) /\ l = Loop("tables", U \ {t}) /\ k = Loop("checks", U \ {t})
        OBVIOUS
      <3>5. d \in Seq(Calm) /\ l \in Seq(Calm) /\ k \in Seq(Calm) /\ k \in Seq(Ordinary)
        BY <3>4, TableIs, LoopIs DEF LoopSteps
      <3>6. CASE TablesDone
        <4>1. todo' = (d \o l) \o Rest
          BY <3>2, <3>3, <3>4, <3>6 DEF TablesDone, Then
        <4>2. ~mode.auto => U \cap Network = {}
          <5>1. Head(todo)[1] = "tables" /\ Head(todo)[2] = U
            BY <3>2, <3>6 DEF TablesDone, At, Arg
          <5>2. ~mode.auto => Head(todo) \in Ordinary
            BY <1>1, <5>1, AfterHead
          <5> QED
            BY <5>1, <5>2 DEF Ordinary
        <4>3. ~mode.auto => d \in Seq(Ordinary) /\ l \in Seq(Ordinary)
          BY <3>4, <4>2, TableIs, LoopIs DEF LoopSteps
        <4> QED
          BY <1>8, <3>5, <4>1, <4>3
      <3>7. CASE CheckTimeout
        <4>1. PICK e : /\ e = (IF Expires(t) THEN d ELSE <<>>)
                       /\ todo' = (e \o k) \o Rest
          BY <3>2, <3>3, <3>4, <3>7 DEF CheckTimeout, Then
        <4>2. ~mode.auto /\ Expires(t) => t \notin Network
          BY DEF Expires, MovesInv, Once, NoNetwork
        <4>3. ~mode.auto /\ Expires(t) => d \in Seq(Ordinary)
          BY <3>4, <4>2, TableIs
        <4>4. e \in Seq(Calm) /\ (~mode.auto => e \in Seq(Ordinary))
          BY <1>5, <3>5, <4>1, <4>3
        <4> QED
          BY <1>8, <3>5, <4>1, <4>4
      <3> QED
        BY <2>9, <3>6, <3>7
    <2> QED
      BY <2>2, <2>3, <2>4, <2>5, <2>6, <2>7, <2>8, <2>9
  <1>10. CASE todo' = Rest
    <2>1. Head(todo)[1] # "signal"
      BY <1>1
    <2> QED
      BY <1>1, <1>3, <1>10, <2>1, StepDone
  <1>11. CASE \E p : /\ p \in Seq(Calm) /\ (~mode.auto => p \in Seq(Ordinary)) /\ todo' = p \o Rest
    <2>1. PICK p : /\ p \in Seq(Calm) /\ (~mode.auto => p \in Seq(Ordinary)) /\ todo' = p \o Rest
      BY <1>11
    <2>2. p \in Seq(Items)
      BY <2>1, Parts DEF Calm
    <2>3. Head(todo)[1] \notin Between
      BY <1>1, <1>2
    <2> QED
      BY <1>1, <1>3, <2>1, <2>2, <2>3, CalmPushed
  <1> QED
    BY <1>9, <1>10, <1>11

--------------------------------------------------------------------------------
(* The steps that move on.                                                   *)

(* One step that leads on, after signals, in front of calm ones.             *)
LEMMA MovePushed ==
  ASSUME MovesInv, todo # <<>>, Head(todo)[1] # "signal",
         NEW a \in Seq(Items), a \in Seq(Pauses), NEW name \in Movers,
         NEW r \in Seq(Items), r \in Seq(Calm), todo' = (a \o <<S(name, "")>>) \o r,
         "fend" \in recv' => name \notin {"outcome", "nextTs"},
         "fend" \in recv' /\ stage' = "TS" => name \notin {"tune", "setPara"},
         mode' = mode, ends' = ends,
         ~mode.auto => /\ a \in Seq(Ordinary) /\ r \in Seq(Ordinary) /\ name # "tryNit"
                       /\ NoNetwork' /\ stage' # "NIT" /\ (stage = "DONE" => stage' = "DONE")
                       /\ stage' = "DONE" => name \notin Onward
  PROVE  Awaited' /\ Once'
  <1>1. PICK q : q = S(name, "")
    OBVIOUS
  <1>2. q \in Items /\ q[1] = name /\ (name # "tryNit" => q \in Ordinary)
    <2>1. name \in PlainSteps
      BY DEF Movers, PlainSteps
    <2> QED
      BY <1>1, <2>1, StepIs
  <1>3. PICK p : p = a \o <<q>>
    OBVIOUS
  <1>4. /\ p \in Seq(Items) /\ OneMove(p)
        /\ \A names \in SUBSET Movers : name \notin names => Lacks(p, names)
    BY <1>2, <1>3, OneStepMoves
  <1>5. todo' = p \o r
    BY <1>1, <1>3
  <1>6. /\ {"outcome", "nextTs"} \in SUBSET Movers /\ {"tune", "setPara"} \in SUBSET Movers
        /\ Onward \in SUBSET Movers
    BY DEF Movers, Onward
  <1>7. Awaited'
    BY <1>4, <1>5, <1>6, AwaitedAgain
  <1>8. /\ todo' \in Seq(Items)
        /\ \A names \in SUBSET Movers : Lacks(p, names) => Lacks(todo', names)
    BY <1>4, <1>5, MovesJoined
  <1>9. ASSUME ~mode.auto PROVE todo' \in Seq(Ordinary)
    <2>1. q \in Ordinary /\ a \in Seq(Ordinary) /\ r \in Seq(Ordinary)
      BY <1>2, <1>9
    <2>2. p \in Seq(Ordinary)
      BY <1>3, <2>1, SeqIs, Zenon
    <2> QED
      BY <1>5, <2>1, <2>2, SeqIs, Zenon
  <1>10. ~mode.auto => ends = 0 \/ (ends = 1 /\ stage' = "DONE")
    BY AfterHead
  <1>11. ~mode.auto /\ stage' = "DONE" => Lacks(todo', Onward)
    BY <1>4, <1>6, <1>8
  <1>12. Once
    BY DEF MovesInv
  <1>13. ~mode.auto => NoNetwork' /\ stage' # "NIT"
    OBVIOUS
  <1>14. Once'
    BY <1>8, <1>9, <1>10, <1>11, <1>12, <1>13, OnceAgain
  <1> QED
    BY <1>7, <1>14

(* The same in front of the rest of the agenda.                              *)
LEMMA MoveThen ==
  ASSUME MovesInv, todo # <<>>, Head(todo)[1] \notin Between,
         NEW a \in Seq(Items), a \in Seq(Pauses), NEW name \in Movers,
         todo' = (a \o <<S(name, "")>>) \o Rest,
         "fend" \in recv' => name \notin {"outcome", "nextTs"},
         "fend" \in recv' /\ stage' = "TS" => name \notin {"tune", "setPara"},
         mode' = mode, ends' = ends,
         ~mode.auto => /\ a \in Seq(Ordinary) /\ name # "tryNit"
                       /\ NoNetwork' /\ stage' # "NIT" /\ (stage = "DONE" => stage' = "DONE")
                       /\ stage' = "DONE" => name \notin Onward
  PROVE  Awaited' /\ Once'
  <1>1. PICK r : r = Rest
    OBVIOUS
  <1>2. r \in Seq(Items) /\ r \in Seq(Calm) /\ (~mode.auto => r \in Seq(Ordinary))
    BY <1>1, AfterHead
  <1>3. Head(todo)[1] # "signal"
    BY DEF Between
  <1>4. todo' = (a \o <<S(name, "")>>) \o r
    BY <1>1
  <1> QED
    BY <1>2, <1>3, <1>4, MovePushed

LEMMA NoSteps ==
  /\ <<>> \in Seq(Items) /\ <<>> \in Seq(Pauses) /\ <<>> \in Seq(Calm) /\ <<>> \in Seq(Ordinary)
  /\ \A name \in PlainSteps : <<>> \o <<S(name, "")>> = <<S(name, "")>>
  <1>1. ASSUME NEW name \in PlainSteps PROVE <<>> \o <<S(name, "")>> = <<S(name, "")>>
    <2>1. PICK s \in Seq(Items) : s = <<S(name, "")>>
      BY PlainSeq
    <2> QED
      BY <2>1, EmptyIs
  <1>2. <<>> \in Seq(Items) /\ <<>> \in Seq(Pauses) /\ <<>> \in Seq(Calm) /\ <<>> \in Seq(Ordinary)
    OBVIOUS
  <1> QED
    BY <1>1, <1>2

LEMMA NetworkMoves ==
  ASSUME MovesInv, NitDone \/ BatDone
  PROVE  Awaited' /\ Once'
  <1>1. /\ todo # <<>> /\ Head(todo)[1] = "after" /\ Head(todo)[2] \in Network
        /\ "after" \notin Between /\ "after" \in TableSteps
    BY DEF NitDone, BatDone, After, At, Arg, Network, Between, TableSteps
  <1>2. mode.auto /\ mode' = mode /\ ends' = ends /\ stage' = stage
    <2>1. mode' = mode /\ ends' = ends /\ stage' = stage
      BY DEF NitDone, BatDone, app, plan, history
    <2>2. ~mode.auto => Head(todo) \in Ordinary
      BY <1>1, AfterHead DEF Between
    <2> QED
      BY <1>1, <2>1, <2>2 DEF Ordinary
  <1>3. /\ recv' \subseteq recv
        /\ \/ todo' = <<S("tryNit", "")>> \o Rest
           \/ todo' = NetworkDone \o Rest /\ recv' = {}
           \/ todo' = <<>> \o Rest
    BY DEF NitDone, BatDone, NotWaiting, Then
  <1>4. CASE todo' = <<S("tryNit", "")>> \o Rest
    <2>1. "tryNit" \in PlainSteps /\ "tryNit" \in Movers
      BY DEF PlainSteps, Movers
    <2>2. todo' = (<<>> \o <<S("tryNit", "")>>) \o Rest
      BY <1>4, <2>1, NoSteps
    <2> QED
      BY <1>1, <1>2, <2>1, <2>2, NoSteps, MoveThen
  <1>5. CASE todo' = NetworkDone \o Rest /\ recv' = {}
    <2>1. PICK x, y : x = Signal("TS_END") /\ y = Signal("NIT_END")
      OBVIOUS
    <2>2. x \in Seq(Pauses) /\ y \in Seq(Pauses)
      BY <2>1, SignalIs DEF Events
    <2>3. PICK a : a = x \o y
      OBVIOUS
    <2>4. a \in Seq(Pauses)
      BY <2>2, <2>3
    <2>5. a \in Seq(Items)
      BY <2>4, Parts DEF Pauses
    <2>6. todo' = (a \o <<S("nextTs", "")>>) \o Rest
      BY <1>5, <2>1, <2>3, Zenon DEF NetworkDone, NextTs
    <2>7. "nextTs" \in Movers /\ "fend" \notin recv'
      BY <1>5 DEF Movers
    <2> QED
      BY <1>1, <1>2, <2>4, <2>5, <2>6, <2>7, MoveThen
  <1>6. CASE todo' = <<>> \o Rest
    <2>1. Rest \in Seq(Items) /\ Head(todo)[1] # "signal"
      BY <1>1, AfterHead
    <2>2. todo' = Rest
      BY <1>6, <2>1, EmptyIs
    <2> QED
      BY <1>1, <1>2, <1>3, <2>1, <2>2, StepDone
  <1> QED
    BY <1>3, <1>4, <1>5, <1>6

LEMMA StagesMove ==
  ASSUME MovesInv, TryNit \/ StartNextTs
  PROVE  Awaited' /\ Once'
  <1>1. /\ todo # <<>> /\ Head(todo)[1] \in {"tryNit", "nextTs"}
        /\ {"tryNit", "nextTs"} \cap Between = {} /\ "tune" \in Movers
    BY DEF TryNit, StartNextTs, At, Between, Movers
  <1>2. mode' = mode /\ ends' = ends /\ recv' = recv /\ UNCHANGED <<evt, batch, started, fid>>
    BY DEF TryNit, StartNextTs, app, history, tables
  <1>3. PICK x, y : x = SignalIf(stage # "NIT", "NIT_BEGIN") /\ y = SignalIf(curr >= 0, "TS_END")
    OBVIOUS
  <1>4. /\ x \in Seq(Pauses) /\ y \in Seq(Pauses) /\ x \in Seq(Items) /\ y \in Seq(Items)
        /\ y \in Seq(Ordinary)
    BY <1>3, SignalIs DEF Events
  <1>5. CASE TryNit
    <2>1. mode.auto
      <3>1. ~mode.auto => Head(todo) \in Ordinary
        BY <1>1, AfterHead DEF Between
      <3> QED
        BY <1>5, <3>1 DEF TryNit, At, Ordinary
    <2>2. PICK a : a = x \o y
      OBVIOUS
    <2>3. a \in Seq(Pauses) /\ a \in Seq(Items)
      BY <1>4, <2>2
    <2>4. todo' = (a \o <<S("tune", "")>>) \o Rest
      BY <1>3, <1>5, <2>2, Zenon DEF TryNit, Then
    <2>5. stage' = "NIT"
      BY <1>5 DEF TryNit
    <2>6. Head(todo)[1] \notin Between
      BY <1>1
    <2> QED
      BY <1>1, <1>2, <2>1, <2>3, <2>4, <2>5, <2>6, MoveThen
  <1>6. CASE StartNextTs
    <2>1. PICK l, n \in Items : l = S("leaveTs", "") /\ n = S("tune", "")
      <3>1. "leaveTs" \in PlainSteps /\ "tune" \in PlainSteps
        BY DEF PlainSteps
      <3>2. S("leaveTs", "") \in Items /\ S("tune", "") \in Items
        BY <3>1, StepIs
      <3> QED
        BY <3>2
    <2>2. l \in Pauses /\ l \in Ordinary
      <3>1. "leaveTs" \in PlainSteps
        BY DEF PlainSteps
      <3> QED
        BY <2>1, <3>1, StepIs
    <2>3. PICK u, v : u = <<l>> /\ v = <<n>>
      OBVIOUS
    <2>4. u \in Seq(Items) /\ v \in Seq(Items) /\ u \in Seq(Pauses) /\ u \in Seq(Ordinary)
      BY <2>1, <2>2, <2>3, SeqIs, Zenon
    <2>5. <<l, n>> = u \o v
      BY <2>3, PairIs
    <2>6. y \o (u \o v) = (y \o u) \o v
      BY <1>4, <2>4, ConcatAssociative
    <2>7. PICK a : a = y \o u
      OBVIOUS
    <2>8. a \in Seq(Pauses) /\ a \in Seq(Items) /\ a \in Seq(Ordinary)
      BY <1>4, <2>4, <2>7
    <2>9. todo' = (y \o <<l, n>>) \o Rest
      BY <1>3, <1>6, <2>1, Zenon DEF StartNextTs, Then
    <2>10. todo' = (a \o <<S("tune", "")>>) \o Rest
      BY <2>1, <2>3, <2>5, <2>6, <2>7, <2>9
    <2>11. Head(todo)[1] = "nextTs" /\ 1 \in 1..Len(todo) /\ todo[1][1] = "nextTs"
      BY <1>1, <1>6, AfterHead DEF StartNextTs, At
    <2>12. "fend" \notin recv
      BY <2>11 DEF MovesInv, Awaited, Lacks
    <2>13. ~mode.auto => stage # "DONE" /\ NoNetwork'
      BY <1>2, <2>11 DEF MovesInv, Once, Lacks, Onward, NoNetwork
    <2>14. stage' = "TS" /\ Head(todo)[1] \notin Between
      BY <1>1, <1>6 DEF StartNextTs
    <2> QED
      BY <1>1, <1>2, <2>8, <2>10, <2>12, <2>13, <2>14, MoveThen
  <1> QED
    BY <1>5, <1>6

LEMMA TuneMoves ==
  ASSUME MovesInv, TuneNext
  PROVE  Awaited' /\ Once'
  <1>1. /\ todo # <<>> /\ Head(todo)[1] = "tune" /\ "tune" \notin Between /\ "tune" # "signal"
        /\ mode' = mode /\ ends' = ends /\ recv' = recv /\ UNCHANGED <<evt, batch, started, fid>>
    BY DEF TuneNext, At, Between, app, history, tables
  <1>2. 1 \in 1..Len(todo) /\ todo[1][1] = "tune"
    BY <1>1, AfterHead
  <1>3. ~mode.auto => stage # "DONE" /\ NoNetwork' /\ stage # "NIT" /\ ends = 0
    <2>1. ~mode.auto => stage # "DONE" /\ NoNetwork' /\ stage # "NIT"
      BY <1>1, <1>2 DEF MovesInv, Once, Lacks, Onward, NoNetwork
    <2> QED
      BY <1>1, <2>1, AfterHead
  <1>4. "fend" \in recv => stage # "TS"
    BY <1>2 DEF MovesInv, Awaited, Lacks
  <1>5. /\ Rest \in Seq(Items) /\ Rest \in Seq(Calm) /\ (~mode.auto => Rest \in Seq(Ordinary))
    BY <1>1, AfterHead
  <1>6. \/ stage' = "DONE" /\ todo' = Signal("SCAN_END") \o Rest
        \/ stage' = stage /\ todo' = (Signal("TS_BEGIN") \o <<S("setPara", "")>>) \o Rest
    BY DEF TuneNext, Then
  <1>7. CASE stage' = "DONE" /\ todo' = Signal("SCAN_END") \o Rest
    <2>1. PICK e \in Items : e = End
      <3>1. End \in Items
        BY DEF End, S, Items, Events
      <3> QED
        BY <3>1
    <2>2. PICK p : p = <<e>>
      OBVIOUS
    <2>3. p \in Seq(Items) /\ p \in Seq(Calm) /\ todo' = p \o Rest
      <3>1. Signal("SCAN_END") = p
        BY <2>1, <2>2 DEF Signal, End
      <3>2. "SCAN_END" \in Events
        BY DEF Events
      <3> QED
        BY <1>7, <3>1, <3>2, SignalIs
    <2>4. /\ todo' # <<>> /\ Head(todo') = e /\ Tail(todo') = Rest
      BY <1>5, <2>2, <2>3, FirstStep
    <2>5. /\ OneMove(p) /\ \A names \in SUBSET Movers : Lacks(p, names)
      BY <2>3, CalmIs
    <2>6. /\ {"outcome", "nextTs"} \in SUBSET Movers /\ {"tune", "setPara"} \in SUBSET Movers
          /\ Onward \in SUBSET Movers
      BY DEF Movers, Onward
    <2>7. Awaited'
      BY <1>5, <2>3, <2>5, <2>6, AwaitedAgain
    <2>8. Lacks(todo', Onward)
      BY <1>5, <2>3, <2>5, <2>6, MovesJoined
    <2>9. ~mode.auto => Ends'
      <3>1. ~mode.auto => ends' = 0 /\ stage' = "DONE" /\ Tail(todo') \in Seq(Ordinary)
        BY <1>1, <1>3, <1>5, <1>7, <2>4
      <3> QED
        BY <2>1, <2>4, <3>1 DEF Ends, End
    <2> QED
      BY <1>1, <1>3, <1>7, <2>7, <2>8, <2>9 DEF Once
  <1>8. CASE stage' = stage /\ todo' = (Signal("TS_BEGIN") \o <<S("setPara", "")>>) \o Rest
    <2>1. PICK a : a = Signal("TS_BEGIN")
      OBVIOUS
    <2>2. a \in Seq(Items) /\ a \in Seq(Pauses) /\ a \in Seq(Ordinary)
      BY <2>1, SignalIs DEF Events
    <2>3. "setPara" \in Movers
      BY DEF Movers
    <2>4. todo' = (a \o <<S("setPara", "")>>) \o Rest
      BY <1>8, <2>1
    <2> QED
      BY <1>1, <1>3, <1>4, <1>8, <2>2, <2>3, <2>4, MoveThen
  <1> QED
    BY <1>6, <1>7, <1>8

LEMMA SetParaMoves ==
  ASSUME MovesInv, SetPara
  PROVE  Awaited' /\ Once'
  <1>1. /\ todo # <<>> /\ Head(todo)[1] = "setPara" /\ "setPara" \notin Between
        /\ mode' = mode /\ ends' = ends /\ stage' = stage /\ UNCHANGED <<evt, batch, started, fid>>
    BY DEF SetPara, At, Between, app, history, tables, plan
  <1>2. 1 \in 1..Len(todo) /\ todo[1][1] = "setPara"
    BY <1>1, AfterHead
  <1>3. ~mode.auto => stage # "DONE" /\ NoNetwork /\ stage # "NIT" /\ ends = 0
    <2>1. ~mode.auto => stage # "DONE" /\ NoNetwork /\ stage # "NIT"
      BY <1>2 DEF MovesInv, Once, Lacks, Onward
    <2>2. Head(todo)[1] # "signal"
      BY <1>1
    <2> QED
      BY <1>1, <2>1, <2>2, AfterHead
  <1>4. "fend" \in recv => stage # "TS"
    BY <1>2 DEF MovesInv, Awaited, Lacks
  <1>5. /\ Rest \in Seq(Items) /\ Rest \in Seq(Calm) /\ (~mode.auto => Rest \in Seq(Ordinary))
    BY <1>1, AfterHead
  <1>6. \/ recv' = recv \cup {"fend"} /\ todo' = Rest
        \/ recv' = recv /\ todo' = (Signal("TS_END") \o <<S("tune", "")>>) \o Rest
    BY DEF SetPara, Then
  <1>7. ~mode.auto => NoNetwork'
    <2>1. recv' \cap Network = recv \cap Network
      BY <1>6 DEF Network
    <2> QED
      BY <1>1, <1>3, <2>1 DEF NoNetwork
  <1>8. CASE recv' = recv \cup {"fend"} /\ todo' = Rest
    <2>1. todo' \in Seq(Items) /\ todo' \in Seq(Calm) /\ (~mode.auto => todo' \in Seq(Ordinary))
      BY <1>5, <1>8
    <2>2. OneMove(todo') /\ \A names \in SUBSET Movers : Lacks(todo', names)
      BY <2>1, CalmIs
    <2>3. /\ {"outcome", "nextTs"} \in SUBSET Movers /\ {"tune", "setPara"} \in SUBSET Movers
          /\ Onward \in SUBSET Movers
      BY DEF Movers, Onward
    <2>4. Awaited'
      BY <2>2, <2>3 DEF Awaited
    <2>5. Once
      BY DEF MovesInv
    <2>6. Once'
      BY <1>1, <1>3, <1>7, <2>1, <2>2, <2>3, <2>5, OnceAgain
    <2> QED
      BY <2>4, <2>6
  <1>9. CASE recv' = recv /\ todo' = (Signal("TS_END") \o <<S("tune", "")>>) \o Rest
    <2>1. PICK a : a = Signal("TS_END")
      OBVIOUS
    <2>2. a \in Seq(Items) /\ a \in Seq(Pauses) /\ a \in Seq(Ordinary)
      BY <2>1, SignalIs DEF Events
    <2>3. "tune" \in Movers
      BY DEF Movers
    <2>4. todo' = (a \o <<S("tune", "")>>) \o Rest
      BY <1>9, <2>1
    <2> QED
      BY <1>1, <1>3, <1>4, <1>7, <1>9, <2>2, <2>3, <2>4, MoveThen
  <1> QED
    BY <1>6, <1>8, <1>9

LEMMA FendMoves ==
  ASSUME MovesInv, SolveFendEvt \/ Unlocked
  PROVE  Awaited' /\ Once'
  <1>1. /\ todo # <<>> /\ Head(todo)[1] \in {"fend", "outcome"} /\ {"fend", "outcome"} \cap Between = {}
        /\ mode' = mode /\ ends' = ends /\ stage' = stage /\ UNCHANGED <<evt, batch, started, fid>>
        /\ recv' \in {recv, recv \ {"fend"}}
    BY DEF SolveFendEvt, Unlocked, At, Between, app, history, tables, plan
  <1>2. ~mode.auto => NoNetwork' /\ stage # "NIT"
    BY <1>1 DEF MovesInv, Once, NoNetwork
  <1>3. Head(todo)[1] \notin Between /\ Head(todo)[1] # "signal" /\ Rest \in Seq(Items)
    BY <1>1, AfterHead
  <1>4. CASE todo' = Rest
    BY <1>1, <1>2, <1>3, <1>4, StepDone
  <1>5. CASE SolveFendEvt /\ todo' # Rest
    <2>1. recv' = recv \ {"fend"} /\ todo' = (Signal("SIGNAL") \o <<S("outcome", "")>>) \o Rest
      BY <1>5 DEF SolveFendEvt, Then
    <2>2. PICK a : a = Signal("SIGNAL")
      OBVIOUS
    <2>3. a \in Seq(Items) /\ a \in Seq(Pauses) /\ a \in Seq(Ordinary)
      BY <2>2, SignalIs DEF Events
    <2>4. "outcome" \in Movers /\ "outcome" \notin Onward /\ "fend" \notin recv'
      BY <2>1 DEF Movers, Onward
    <2>5. todo' = (a \o <<S("outcome", "")>>) \o Rest
      BY <2>1, <2>2
    <2> QED
      BY <1>1, <1>2, <1>3, <2>3, <2>4, <2>5, MoveThen
  <1>6. CASE Unlocked
    <2>1. todo' = (CASE stage = "NIT" -> <<S("tryNit", "")>>
                     [] stage = "TS" -> NextTs
                     [] OTHER -> <<>>) \o Rest
      BY <1>6 DEF Unlocked, Then
    <2>2. "fend" \notin recv
      <3>1. todo[1][1] = "outcome" /\ 1 \in 1..Len(todo)
        BY <1>1, <1>6, AfterHead DEF Unlocked, At
      <3> QED
        BY <3>1 DEF MovesInv, Awaited, Lacks
    <2>3. "fend" \notin recv' /\ {"tryNit", "nextTs"} \subseteq Movers \cap PlainSteps
      BY <1>1, <2>2 DEF Movers, PlainSteps
    <2>4. CASE stage = "NIT"
      <3>1. todo' = (<<>> \o <<S("tryNit", "")>>) \o Rest
        BY <2>1, <2>3, <2>4, NoSteps
      <3>2. mode.auto
        BY <1>2, <2>4
      <3> QED
        BY <1>1, <1>3, <2>3, <3>1, <3>2, NoSteps, MoveThen
    <2>5. CASE stage = "TS"
      <3>1. todo' = (<<>> \o <<S("nextTs", "")>>) \o Rest
        BY <2>1, <2>3, <2>5, NoSteps DEF NextTs
      <3> QED
        BY <1>1, <1>2, <1>3, <2>3, <2>5, <3>1, NoSteps, MoveThen
    <2>6. CASE stage \notin {"NIT", "TS"}
      <3>1. todo' = <<>> \o Rest
        BY <2>1, <2>6
      <3> QED
        BY <1>3, <1>4, <3>1, EmptyIs
    <2> QED
      BY <2>4, <2>5, <2>6
  <1> QED
    BY <1>4, <1>5, <1>6

LEMMA StartScanMoves ==
  ASSUME MovesInv, StartScan
  PROVE  Awaited' /\ Once'
  <1>1. /\ todo # <<>> /\ Head(todo)[1] = "start" /\ "start" \notin Between
        /\ mode' = mode /\ ends' = ends /\ stage' = stage /\ recv' = recv
        /\ UNCHANGED <<evt, batch>> /\ fid' = [t \in Tables |-> -1]
    BY DEF StartScan, At, Between, app, history, plan
  <1>2. 1 \in 1..Len(todo) /\ todo[1][1] = "start"
    BY <1>1, AfterHead
  <1>3. ~started
    BY <1>2 DEF MovesInv, IInv, Starting, Lacks, TypeOK
  <1>4. stage = "WAIT_START" /\ recv = {}
    BY <1>3 DEF MovesInv, IInv, Starting
  <1>5. ~mode.auto => NoNetwork'
    <2>1. fid'["nit"] = -1 /\ fid'["bat"] = -1
      BY <1>1 DEF Tables
    <2> QED
      BY <1>1, <2>1 DEF MovesInv, Once, NoNetwork
  <1>6. {"tryNit", "nextTs"} \subseteq Movers \cap PlainSteps
    BY DEF Movers, PlainSteps
  <1>7. PICK name \in {"tryNit", "nextTs"} : /\ todo' = <<S(name, "")>> \o Rest
                                             /\ name = "tryNit" => mode.auto
    BY DEF StartScan, Then, NextTs
  <1>8. todo' = (<<>> \o <<S(name, "")>>) \o Rest
    BY <1>6, <1>7, NoSteps
  <1> QED
    BY <1>1, <1>4, <1>5, <1>6, <1>7, <1>8, NoSteps, MoveThen

--------------------------------------------------------------------------------
(* The rounds of am_scan_thread.                                             *)

LEMMA OrdinaryIs ==
  ASSUME NEW s \in Seq(Items), Only(s, PlainSteps \ Movers)
  PROVE  s \in Seq(Calm) /\ s \in Seq(Ordinary)
  <1>1. ASSUME NEW q \in Items, q[1] \in PlainSteps \ Movers PROVE q \in Calm /\ q \in Ordinary
    <2>1. q[1] \notin TableSteps \cup {"signal", "tables"} /\ q[1] # "tryNit" /\ q[1] \notin Movers
      BY <1>1 DEF PlainSteps, Last, TableSteps, Movers
    <2>2. End[1] = "signal"
      BY DEF End, S
    <2>3. q # End
      BY <2>1, <2>2
    <2> QED
      BY <2>1, <2>3 DEF Calm, Ordinary
  <1>2. \A i \in 1..Len(s) : s[i] \in Calm /\ s[i] \in Ordinary
    BY <1>1 DEF Only
  <1> QED
    BY <1>2

LEMMA TimeoutsCalm ==
  ASSUME NEW o \in SUBSET Tables
  PROVE  /\ TimeoutSteps(o) \in Seq(Items)
         /\ TimeoutSteps(o) \in Seq(Calm) /\ TimeoutSteps(o) \in Seq(Ordinary)
  <1>1. "tsComplete" \in PlainSteps /\ "tsComplete" \notin Movers \cup {"tryNit"}
    BY DEF PlainSteps, Movers
  <1>2. PICK x, y : x = Loop("checks", o \cap Checked) /\ y = <<S("tsComplete", "")>>
    OBVIOUS
  <1>3. x \in Seq(Calm) /\ x \in Seq(Ordinary)
    BY <1>2, LoopIs DEF LoopSteps
  <1>4. y \in Seq(Calm) /\ y \in Seq(Ordinary)
    BY <1>1, <1>2, PlainSeq
  <1>5. x \o y \in Seq(Calm) /\ x \o y \in Seq(Ordinary)
    BY <1>3, <1>4
  <1>6. TimeoutSteps(o) \in Seq(Items)
    BY TimeoutStepsIs DEF Fits
  <1> QED
    BY <1>2, <1>5, <1>6 DEF TimeoutSteps

LEMMA ServiceCalm ==
  ASSUME NEW b \in SUBSET (Tables \cup {"START", "FEND", "QUIT"})
  PROVE  /\ ServiceOf(b) \in Seq(Items) /\ ServiceOf(b) \in Seq(Calm)
         /\ b \cap Network = {} => ServiceOf(b) \in Seq(Ordinary)
  <1> DEFINE If(flag, step) == IF flag \in b THEN <<S(step, "")>> ELSE <<>>
             p1 == If("START", "begin")
             p2 == If("FEND", "fend")
             p3 == Loop("tables", b \cap Tables)
             p4 == <<S(IF "QUIT" \in b THEN "quit" ELSE "endBatch", "")>>
  <1>1. ServiceOf(b) = ((p1 \o p2) \o p3) \o p4
    BY Zenon DEF ServiceOf
  <1>2. {"begin", "fend", "quit", "endBatch"} \subseteq PlainSteps \ Movers
    BY DEF PlainSteps, Movers
  <1>3. \A name \in {"begin", "fend", "quit", "endBatch"} :
          <<S(name, "")>> \in Seq(Calm) /\ <<S(name, "")>> \in Seq(Ordinary)
    <2>1. "tryNit" \in Movers
      BY DEF Movers
    <2> QED
      BY <1>2, <2>1, PlainSeq
  <1>4. /\ p1 \in Seq(Calm) /\ p1 \in Seq(Ordinary)
        /\ p2 \in Seq(Calm) /\ p2 \in Seq(Ordinary)
    BY <1>3, NoSteps
  <1>5. p4 \in Seq(Calm) /\ p4 \in Seq(Ordinary)
    BY <1>3
  <1>6. p3 \in Seq(Calm) /\ (b \cap Network = {} => p3 \in Seq(Ordinary))
    BY LoopIs DEF LoopSteps
  <1> HIDE DEF p1, p2, p3, p4
  <1>7. PICK x : x = p1 \o p2
    OBVIOUS
  <1>8. x \in Seq(Calm) /\ x \in Seq(Ordinary)
    BY <1>4, <1>7
  <1>9. PICK y : y = x \o p3
    OBVIOUS
  <1>10. y \in Seq(Calm) /\ (b \cap Network = {} => y \in Seq(Ordinary))
    BY <1>6, <1>8, <1>9
  <1>11. y \o p4 \in Seq(Calm) /\ (b \cap Network = {} => y \o p4 \in Seq(Ordinary))
    BY <1>5, <1>10
  <1>12. ServiceOf(b) \in Seq(Items)
    BY ServiceOfIs DEF Resumes
  <1> QED
    BY <1>1, <1>7, <1>9, <1>11, <1>12

LEMMA RoundsMove ==
  ASSUME MovesInv, TsComplete \/ Wake \/ SpuriousWake \/ WaitTimesOut \/ EndBatch
  PROVE  Awaited' /\ Once'
  <1>1. /\ todo # <<>> /\ Head(todo)[1] \in {"tsComplete", "wait", "endBatch"}
        /\ {"tsComplete", "wait", "endBatch"} \cap (Between \cup {"signal"}) = {}
        /\ mode' = mode /\ ends' = ends /\ stage' = stage /\ recv' = recv /\ UNCHANGED <<started, fid>>
    BY DEF TsComplete, Wake, SpuriousWake, WakeWhen, WaitTimesOut, EndBatch, At, Between, app, plan,
           tables, history
  <1>2. Head(todo)[1] # "signal" /\ Head(todo)[1] \notin Between
    BY <1>1
  <1>3. /\ evt' \subseteq evt /\ batch' \subseteq evt \cup batch
        /\ over' \in SUBSET Tables
    BY Typed DEF TsComplete, Wake, SpuriousWake, WakeWhen, Serve, WaitTimesOut, EndBatch, MovesInv
  <1>4. ~mode.auto => NoNetwork'
    BY <1>1, <1>3 DEF MovesInv, Once, NoNetwork
  <1>5. ASSUME NEW b \in SUBSET evt, todo' = ServiceOf(b) PROVE Awaited' /\ Once'
    <2>1. b \in SUBSET (Tables \cup {"START", "FEND", "QUIT"})
      BY Typed DEF MovesInv
    <2>2. ~mode.auto => b \cap Network = {}
      BY DEF MovesInv, Once, NoNetwork
    <2>3. PICK p : p = ServiceOf(b)
      OBVIOUS
    <2>4. p \in Seq(Items) /\ p \in Seq(Calm) /\ (~mode.auto => p \in Seq(Ordinary))
      BY <2>1, <2>2, <2>3, ServiceCalm
    <2> QED
      BY <1>1, <1>2, <1>4, <1>5, <2>3, <2>4, CalmPushed
  <1>6. ASSUME todo' = TimeoutSteps(over') PROVE Awaited' /\ Once'
    <2>1. PICK p : p = TimeoutSteps(over')
      OBVIOUS
    <2>2. p \in Seq(Items) /\ p \in Seq(Calm) /\ p \in Seq(Ordinary)
      BY <1>3, <2>1, TimeoutsCalm
    <2> QED
      BY <1>1, <1>2, <1>4, <1>6, <2>1, <2>2, CalmPushed
  <1>7. CASE TsComplete
    <2>1. PICK w : w = <<S("wait", "")>>
      OBVIOUS
    <2>2. w \in Seq(Items) /\ w \in Seq(Calm) /\ w \in Seq(Ordinary)
      <3>1. "wait" \in PlainSteps /\ "wait" \notin Movers \cup {"tryNit"}
        BY DEF PlainSteps, Movers
      <3> QED
        BY <2>1, <3>1, PlainSeq
    <2>3. \/ todo' = w
          \/ todo' = NextTs \o w /\ stage = "TS" /\ recv = {}
      BY <1>7, <2>1 DEF TsComplete
    <2>4. CASE todo' = w
      BY <1>1, <1>2, <1>4, <2>2, <2>4, CalmPushed
    <2>5. CASE todo' = NextTs \o w /\ stage = "TS" /\ recv = {}
      <3>1. "nextTs" \in Movers \cap PlainSteps
        BY DEF Movers, PlainSteps
      <3>2. todo' = (<<>> \o <<S("nextTs", "")>>) \o w
        BY <2>5, <3>1, NoSteps DEF NextTs
      <3> QED
        BY <1>1, <1>2, <1>4, <2>2, <2>5, <3>1, <3>2, NoSteps, MovePushed
    <2> QED
      BY <2>3, <2>4, <2>5
  <1>8. CASE Wake \/ SpuriousWake
    <2>1. todo' = ServiceOf(evt)
      BY <1>8 DEF Wake, SpuriousWake, WakeWhen, Serve
    <2> QED
      BY <1>5, <2>1
  <1>9. CASE WaitTimesOut
    BY <1>6, <1>9 DEF WaitTimesOut
  <1>10. CASE EndBatch
    <2>1. todo' = TimeoutSteps(over') \/ todo' = ServiceOf(evt')
      BY <1>10 DEF EndBatch
    <2> QED
      BY <1>3, <1>5, <1>6, <2>1
  <1> QED
    BY <1>7, <1>8, <1>9, <1>10

LEMMA BeginMoves ==
  ASSUME MovesInv, Begin
  PROVE  Awaited' /\ Once'
  <1>1. /\ todo # <<>> /\ Head(todo)[1] = "begin" /\ "begin" \notin Between \cup {"signal"}
        /\ mode' = mode /\ ends' = ends /\ stage' = stage /\ recv' = recv
        /\ UNCHANGED <<evt, batch, started, fid>>
    BY DEF Begin, At, Between, app, plan, tables, history
  <1>2. ~mode.auto => NoNetwork'
    BY <1>1 DEF MovesInv, Once, NoNetwork
  <1>3. \/ todo' = <<>> \o Rest
        \/ todo' = (Signal("SCAN_BEGIN") \o <<S("start", "")>>) \o Rest
    BY DEF Begin, Then
  <1>4. CASE todo' = <<>> \o Rest
    <2>1. Rest \in Seq(Items)
      BY <1>1, AfterHead
    <2>2. todo' = Rest
      BY <1>4, <2>1, EmptyIs
    <2> QED
      BY <1>1, <1>2, <2>2, StepDone
  <1>5. CASE todo' = (Signal("SCAN_BEGIN") \o <<S("start", "")>>) \o Rest
    <2>1. PICK x, y : x = Signal("SCAN_BEGIN") /\ y = <<S("start", "")>>
      OBVIOUS
    <2>2. x \in Seq(Calm) /\ x \in Seq(Ordinary)
      BY <2>1, SignalIs DEF Events
    <2>3. y \in Seq(Calm) /\ y \in Seq(Ordinary)
      <3>1. "start" \in PlainSteps /\ "start" \notin Movers \cup {"tryNit"}
        BY DEF PlainSteps, Movers
      <3> QED
        BY <2>1, <3>1, PlainSeq
    <2>4. PICK p : p = x \o y
      OBVIOUS
    <2>5. p \in Seq(Calm) /\ p \in Seq(Ordinary)
      BY <2>2, <2>3, <2>4
    <2>6. p \in Seq(Items)
      BY <2>5, Parts DEF Calm
    <2>7. todo' = p \o Rest
      BY <1>5, <2>1, <2>4
    <2> QED
      BY <1>1, <1>2, <2>5, <2>6, <2>7, CalmPushed
  <1> QED
    BY <1>3, <1>4, <1>5

LEMMA QuitMoves ==
  ASSUME MovesInv, Quit
  PROVE  Awaited' /\ Once'
  <1>1. /\ todo # <<>> /\ Head(todo)[1] = "quit" /\ "quit" \notin Between \cup {"signal"}
        /\ mode' = mode /\ ends' = ends /\ stage' = stage /\ recv' = recv
        /\ UNCHANGED <<evt, batch, started, fid>>
    BY DEF Quit, At, Between, app, plan, tables, history
  <1>2. ~mode.auto => NoNetwork'
    BY <1>1 DEF MovesInv, Once, NoNetwork
  <1>3. CleanUp \in Seq(Items) /\ CleanUp \in Seq(Calm) /\ CleanUp \in Seq(Ordinary)
    <2>1. Last \subseteq PlainSteps \ Movers
      BY DEF Last, PlainSteps, Movers
    <2>2. Only(CleanUp, PlainSteps \ Movers)
      BY <2>1, CleanUpIs DEF Only
    <2> QED
      BY <2>2, CleanUpIs, OrdinaryIs
  <1>4. PICK c : c = CleanUp
    OBVIOUS
  <1>5. PICK b, e \in Items : b = S("signal", "STORE_BEGIN") /\ e = S("signal", "STORE_END")
    <2>1. S("signal", "STORE_BEGIN") \in Items /\ S("signal", "STORE_END") \in Items
      BY DEF S, Items, Events
    <2> QED
      BY <2>1
  <1>6. b \in Calm /\ e \in Calm /\ b \in Ordinary /\ e \in Ordinary
    <2>1. /\ b[1] = "signal" /\ e[1] = "signal" /\ b[2] = "STORE_BEGIN" /\ e[2] = "STORE_END"
          /\ End[2] = "SCAN_END"
      BY <1>5 DEF S, End
    <2>2. "signal" \notin TableSteps \cup {"tables", "tryNit"} \cup Movers
      BY DEF TableSteps, Movers
    <2>3. b # End /\ e # End
      BY <2>1
    <2> QED
      BY <2>1, <2>2, <2>3 DEF Calm, Ordinary
  <1>7. PICK p : p = <<b, e>>
    OBVIOUS
  <1>8. p \in Seq(Calm) /\ p \in Seq(Ordinary)
    BY <1>6, <1>7
  <1>9. todo' = c \/ todo' = p \o c
    BY <1>4, <1>5, <1>7 DEF Quit
  <1>10. PICK s : s = p \o c
    OBVIOUS
  <1>11. s \in Seq(Calm) /\ s \in Seq(Ordinary)
    BY <1>3, <1>4, <1>8, <1>10
  <1>12. s \in Seq(Items)
    BY <1>11, Parts DEF Calm
  <1>13. Head(todo)[1] # "signal"
    BY <1>1
  <1>14. CASE todo' = c
    BY <1>1, <1>2, <1>3, <1>4, <1>13, <1>14, CalmPushed
  <1>15. CASE todo' = s
    BY <1>1, <1>2, <1>11, <1>12, <1>13, <1>15, CalmPushed
  <1> QED
    BY <1>9, <1>10, <1>14, <1>15

LEMMA LeavesMove ==
  ASSUME MovesInv, LeaveTs \/ Unsubscribe \/ FreeAll \/ ExitSync \/ Release
  PROVE  Awaited' /\ Once'
  <1>1. /\ todo # <<>>
        /\ Head(todo)[1] \in {"leaveTs", "unsubscribe", "freeAll", "exitSync", "release"}
        /\ todo' = Rest \/ todo' = <<>>
        /\ mode' = mode /\ ends' = ends /\ stage' = stage /\ recv' = recv
        /\ UNCHANGED <<evt, batch, started, fid>>
    BY DEF LeaveTs, Unsubscribe, FreeAll, ExitSync, Release, At, app, plan, tables, history
  <1>2. ~mode.auto => NoNetwork'
    BY <1>1 DEF MovesInv, Once, NoNetwork
  <1>3. Head(todo)[1] # "signal"
    BY <1>1
  <1> QED
    BY <1>1, <1>2, <1>3, StepDone

(* The handlers, the application and the frontend put nothing on the agenda. *)
LEMMA OthersMove ==
  ASSUME MovesInv,
         \/ \E f \in FilterIds : Deliver(f)
         \/ Handle \/ FendSignal \/ FendCallback \/ FendNobody \/ Start \/ Destroy \/ Join
         \/ UNCHANGED vars
  PROVE  Awaited' /\ Once'
  <1>1. /\ todo' = todo /\ mode' = mode /\ ends' = ends /\ stage' = stage /\ recv' = recv
        /\ UNCHANGED <<batch, started, fid>>
    BY DEF Deliver, Handle, FendSignal, FendCallback, FendNobody, Start, Destroy, Join, vars, app,
           plan, tables, history
  <1>2. ASSUME ~mode.auto PROVE NoNetwork'
    <2>1. NoNetwork
      BY <1>2 DEF MovesInv, Once
    <2>2. evt' \cap Network = {}
      <3>1. CASE \/ \E f \in FilterIds : Deliver(f)
                 \/ FendSignal \/ FendCallback \/ FendNobody \/ Start \/ Destroy \/ Join
                 \/ UNCHANGED vars
        <4>1. evt' \subseteq evt \cup {"FEND", "START", "QUIT"}
          BY <3>1 DEF Deliver, FendSignal, FendCallback, FendNobody, Start, Destroy, Join, vars
        <4> QED
          BY <2>1, <4>1 DEF NoNetwork, Network
      <3>2. CASE Handle
        <4>1. PICK f \in FilterIds : call = <<f, Self>>
          BY <3>2, DemuxTyped DEF Handle, MovesInv
        <4>2. call[1] = f /\ f # -1
          BY <4>1, DemuxTyped DEF MovesInv
        <4>3. started
          <5>1. st[Self][f] # "quiet"
            BY <4>1, DemuxTyped DEF MovesInv
          <5> QED
            BY <5>1 DEF MovesInv, IInv, Starting, TypeOK
        <4>4. \A t \in Owners(call[1]) : t \notin Network
          <5>1. \A t \in Owners(call[1]) : fid[t] = f
            BY <4>2 DEF Owners
          <5> QED
            BY <2>1, <4>2, <4>3, <5>1 DEF NoNetwork, Network
        <4>5. \/ UNCHANGED evt
              \/ \E t \in Owners(call[1]) : evt' \in {evt, evt \cup {t}}
          <5>1. \/ UNCHANGED evt
                \/ \E t \in Owners(call[1]) :
                     \/ t = "bat" /\ CollectBat
                     \/ CollectSection(t)
            BY <3>2, Zenon DEF Handle
          <5>2. \A t : t = "bat" /\ CollectBat => evt' \in {evt, evt \cup {t}}
            BY DEF CollectBat
          <5>3. \A t \in Tables : CollectSection(t) => evt' \in {evt, evt \cup {t}}
            BY SectionCollected DEF MovesInv
          <5>4. Owners(call[1]) \subseteq Tables
            BY DEF Owners
          <5> QED
            BY <5>1, <5>2, <5>3, <5>4
        <4> QED
          BY <2>1, <4>4, <4>5 DEF NoNetwork
      <3> QED
        BY <3>1, <3>2
    <2> QED
      BY <1>1, <2>1, <2>2 DEF NoNetwork
  <1> QED
    BY <1>1, <1>2, StepDone

LEMMA CreateMoves ==
  ASSUME MovesInv, NEW m \in Modes, Create(m)
  PROVE  Awaited' /\ Once'
  <1>1. /\ life = "none" /\ mode' = m /\ todo' = TimeoutSteps({})
        /\ UNCHANGED <<evt, batch, recv, stage, started, fid, ends>>
    BY DEF Create, plan, tables, history
  <1>2. ~mode.auto
    BY <1>1 DEF MovesInv, Fresh, NoMode
  <1>3. NoNetwork /\ ~started /\ stage = "WAIT_START"
    <2>1. NoNetwork /\ ~started
      BY <1>1, <1>2 DEF MovesInv, Once, IInv, Living
    <2> QED
      BY <2>1 DEF MovesInv, IInv, Starting
  <1>4. todo = <<>> /\ ends = 0
    <2>1. todo = <<>>
      BY <1>1 DEF MovesInv, IInv, Living
    <2> QED
      BY <1>2, <1>3, <2>1 DEF MovesInv, Once, Ends
  <1>5. PICK p : p = TimeoutSteps({})
    OBVIOUS
  <1>6. p \in Seq(Items) /\ p \in Seq(Calm) /\ p \in Seq(Ordinary)
    BY <1>5, TimeoutsCalm
  <1>7. OneMove(todo') /\ \A names \in SUBSET Movers : Lacks(todo', names)
    BY <1>1, <1>5, <1>6, CalmIs
  <1>8. /\ {"outcome", "nextTs"} \in SUBSET Movers /\ {"tune", "setPara"} \in SUBSET Movers
        /\ Onward \in SUBSET Movers
    BY DEF Movers, Onward
  <1>9. Awaited'
    BY <1>7, <1>8 DEF Awaited
  <1>10. NoNetwork'
    BY <1>1, <1>3 DEF NoNetwork
  <1>11. Ends'
    BY <1>1, <1>4, <1>5, <1>6 DEF Ends
  <1> QED
    BY <1>1, <1>3, <1>7, <1>8, <1>9, <1>10, <1>11 DEF Once

LEMMA FreshStays ==
  ASSUME Fresh, [Next]_vars
  PROVE  Fresh'
  <1>1. \/ UNCHANGED <<life, mode>>
        \/ life' # "none"
    BY DEF Next, ThreadStep, FreeFilter, Sync, AllocateFilter, SignalEvent, NitDone, BatDone, PatDone,
           CatDone, SdtDone, MgtDone, VctDone, TableDone, PmtDone, NextPmt, TryNit, StartNextTs,
           LeaveTs, TuneNext, SetPara, SolveFendEvt, Unlocked, LockedNit, LockedTs, TablesDone,
           CheckTimeout, TsComplete, Wake, SpuriousWake, WakeWhen, WaitTimesOut, EndBatch, Begin,
           StartScan, Quit, Unsubscribe, FreeAll, ExitSync, Release, Deliver, Handle, FendSignal,
           FendCallback, FendNobody, Create, Start, Destroy, Join, vars, app
  <1> QED
    BY <1>1 DEF Fresh

LEMMA MovesInit == Init => MovesInv
  <1> SUFFICES ASSUME Init PROVE MovesInv
    OBVIOUS
  <1>1. Fresh /\ todo = <<>> /\ recv = {} /\ evt = {} /\ batch = {} /\ ~started /\ ends = 0
    BY DEF Init, Fresh
  <1>2. stage = "WAIT_START"
    BY DEF Init
  <1>3. OneMove(<<>>) /\ \A names : Lacks(<<>>, names)
    BY EmptyIs DEF OneMove
  <1>4. Awaited
    BY <1>1, <1>3 DEF Awaited
  <1>5. NoNetwork
    BY <1>1 DEF NoNetwork
  <1>6. Ends
    BY <1>1 DEF Ends
  <1> QED
    BY <1>1, <1>2, <1>3, <1>4, <1>5, <1>6, InitOK DEF MovesInv, Once

LEMMA MovesStep == MovesInv /\ [Next]_vars => MovesInv'
  <1> SUFFICES ASSUME MovesInv, [Next]_vars PROVE Awaited' /\ Once'
    BY NextStep, FreshStays DEF MovesInv
  <1>1. CASE FreeFilter \/ Sync \/ AllocateFilter
    BY <1>1, FiltersMove
  <1>2. CASE SignalEvent
    BY <1>2, SignalMoves
  <1>3. CASE NitDone \/ BatDone
    BY <1>3, NetworkMoves
  <1>4. CASE \/ PatDone \/ CatDone \/ SdtDone \/ MgtDone \/ VctDone \/ PmtDone \/ NextPmt
             \/ LockedNit \/ LockedTs \/ TablesDone \/ CheckTimeout
    BY <1>4, TablesMove
  <1>5. CASE TryNit \/ StartNextTs
    BY <1>5, StagesMove
  <1>6. CASE TuneNext
    BY <1>6, TuneMoves
  <1>7. CASE SetPara
    BY <1>7, SetParaMoves
  <1>8. CASE SolveFendEvt \/ Unlocked
    BY <1>8, FendMoves
  <1>9. CASE TsComplete \/ Wake \/ SpuriousWake \/ WaitTimesOut \/ EndBatch
    BY <1>9, RoundsMove
  <1>10. CASE Begin
    BY <1>10, BeginMoves
  <1>11. CASE StartScan
    BY <1>11, StartScanMoves
  <1>12. CASE Quit
    BY <1>12, QuitMoves
  <1>13. CASE LeaveTs \/ Unsubscribe \/ FreeAll \/ ExitSync \/ Release
    BY <1>13, LeavesMove
  <1>14. CASE \/ \E f \in FilterIds : Deliver(f)
              \/ Handle \/ FendSignal \/ FendCallback \/ FendNobody \/ Start \/ Destroy \/ Join
              \/ UNCHANGED vars
    BY <1>14, OthersMove
  <1>15. ASSUME NEW m \in Modes, Create(m) PROVE Awaited' /\ Once'
    BY <1>15, CreateMoves
  <1> QED
    BY <1>1, <1>2, <1>3, <1>4, <1>5, <1>6, <1>7, <1>8, <1>9, <1>10, <1>11, <1>12, <1>13, <1>14, <1>15
       DEF Next, ThreadStep

(* How the scan goes on: one step that leads to another frequency is to come *)
(* at most, none of them while the frontend's answer is waited for, and no   *)
(* more when the end of the list has been announced.                         *)
THEOREM MovesInvariance == Spec => []MovesInv
  BY MovesInit, MovesStep, PTL DEF Spec

(* While transport streams are scanned AM_FEND_SetPara is called only after  *)
(* the frontend's answer about the frequency before has been looked at.      *)
THEOREM TuneIsAwaited == Spec => TuneAwaited
  <1>1. MovesInv /\ [Next]_vars => [stage = "TS" /\ SetPara => "fend" \notin recv]_vars
    <2> SUFFICES ASSUME MovesInv, stage = "TS", SetPara PROVE "fend" \notin recv
      OBVIOUS
    <2>1. todo # <<>> /\ Head(todo)[1] = "setPara"
      BY DEF SetPara, At
    <2>2. 1 \in 1..Len(todo) /\ todo[1][1] = "setPara"
      BY <2>1, AfterHead
    <2> QED
      BY <2>2 DEF MovesInv, Awaited, Lacks
  <1> QED
    BY <1>1, MovesInvariance, PTL DEF Spec, TuneAwaited

(* The end of a scan that tries no NIT is announced at most once, whatever   *)
(* goes wrong on the way: without any hypothesis about faults.               *)
THEOREM EndsAreSingle == Spec => []EndsOnce
  <1>1. MovesInv => EndsOnce
    BY DEF MovesInv, Once, Ends, EndsOnce
  <1> QED
    BY <1>1, MovesInvariance, PTL

--------------------------------------------------------------------------------
(* What is collected for a transport stream is its own.  The steps of the    *)
(* agenda, and which of them may come before which:                          *)
Steps(s) == {s[i] : i \in 1..Len(s)}
Pending == Steps(todo)
Short == {"free", "alloc", "sync", "signal"}
PatPmt == {"pat", "pmt"}
Precedes(p, q) ==
  /\ q[1] = "alloc" => /\ p[1] \in Short
                       /\ p[1] = "alloc" => p[2] \notin PatPmt \/ q[2] \notin PatPmt
  /\ q[1] \in {"nextPmt", "leaveTs"} => p[1] = "signal"
  /\ q[1] = "after" => p[1] = "sync" \/ (p[1] = "free" /\ p[2] = q[2])
  /\ q[1] \in LoopSteps => p[1] \notin LoopSteps
  /\ q[1] = "tables" /\ p[1] = "after" => p[2] \notin q[2]
Paired(s) == \A i, j \in 1..Len(s) : i < j => Precedes(s[i], s[j])

(* The rest of a done function finds the filter freed.                       *)
AfterFree ==
  \A q \in Pending : q[1] = "after" => fid[q[2]] = -1 \/ (At("free") /\ Arg = q[2])

(* A filter that was given back is waited for at once; nothing is in the     *)
(* batch while the thread waits.                                             *)
Synced == \A f \in FilterIds : st[Self][f] = "freed" => At("sync") \/ At("exitSync")
Rested ==
  /\ \A q \in Pending : q[1] \in {"wait", "tsComplete", "checks"} => batch = {}
  /\ life = "none" => batch = {}

OrderInv == MovesInv /\ Paired(todo) /\ AfterFree /\ Synced /\ Rested

(* Steps that leave nothing to be put before them but calls of done functions. *)
Tame(q) == q[1] \notin {"alloc", "nextPmt", "leaveTs", "after"} \cup Movers

LEMMA StepsJoined ==
  ASSUME NEW s \in Seq(Items), NEW r \in Seq(Items)
  PROVE  /\ s \o r \in Seq(Items) /\ Steps(s \o r) = Steps(s) \cup Steps(r)
         /\ Steps(s) \subseteq Items
         /\ Paired(s) /\ Paired(r) /\ (\A p \in Steps(s), q \in Steps(r) : Precedes(p, q))
              => Paired(s \o r)
  <1> DEFINE u == s \o r
  <1>1. /\ u \in Seq(Items) /\ Len(u) = Len(s) + Len(r)
        /\ \A i \in 1..(Len(s) + Len(r)) : u[i] = IF i <= Len(s) THEN s[i] ELSE r[i - Len(s)]
    BY ConcatProperties
  <1>2. Len(s) \in Nat /\ Len(r) \in Nat
    OBVIOUS
  <1> HIDE DEF u
  <1>3. \A i \in 1..Len(s) : i \in 1..Len(u) /\ u[i] = s[i]
    BY <1>1, <1>2
  <1>4. ASSUME NEW i \in 1..Len(r) PROVE i + Len(s) \in 1..Len(u) /\ u[i + Len(s)] = r[i]
    <2>1. /\ i + Len(s) \in 1..(Len(s) + Len(r)) /\ ~(i + Len(s) <= Len(s))
          /\ (i + Len(s)) - Len(s) = i
      BY <1>2
    <2> QED
      BY <1>1, <2>1
  <1>5. \A i \in 1..Len(u) : \/ i \in 1..Len(s) /\ u[i] = s[i]
                             \/ i > Len(s) /\ i - Len(s) \in 1..Len(r) /\ u[i] = r[i - Len(s)]
    BY <1>1, <1>2
  <1>6. Steps(u) = Steps(s) \cup Steps(r)
    <2>1. Steps(u) \subseteq Steps(s) \cup Steps(r)
      BY <1>5 DEF Steps
    <2>2. Steps(s) \subseteq Steps(u)
      BY <1>3 DEF Steps
    <2>3. Steps(r) \subseteq Steps(u)
      BY <1>4 DEF Steps
    <2> QED
      BY <2>1, <2>2, <2>3
  <1>7. ASSUME Paired(s), Paired(r), \A p \in Steps(s), q \in Steps(r) : Precedes(p, q)
        PROVE  Paired(u)
    <2> SUFFICES ASSUME NEW i \in 1..Len(u), NEW j \in 1..Len(u), i < j
                 PROVE  Precedes(u[i], u[j])
      BY DEF Paired
    <2>1. CASE j \in 1..Len(s) /\ u[j] = s[j]
      <3>1. i \in 1..Len(s) /\ u[i] = s[i]
        BY <1>2, <1>3, <2>1
      <3> QED
        BY <1>7, <2>1, <3>1 DEF Paired
    <2>2. CASE j > Len(s) /\ j - Len(s) \in 1..Len(r) /\ u[j] = r[j - Len(s)]
      <3>1. CASE i \in 1..Len(s) /\ u[i] = s[i]
        BY <1>7, <2>2, <3>1 DEF Steps
      <3>2. CASE i > Len(s) /\ i - Len(s) \in 1..Len(r) /\ u[i] = r[i - Len(s)]
        <4>1. i - Len(s) < j - Len(s)
          BY <1>2
        <4> QED
          BY <1>7, <2>2, <3>2, <4>1 DEF Paired
      <3> QED
        BY <1>5, <3>1, <3>2
    <2> QED
      BY <1>5, <2>1, <2>2
  <1>8. Steps(s) \subseteq Items
    BY DEF Steps
  <1> QED
    BY <1>1, <1>6, <1>7, <1>8 DEF u

LEMMA StepsTail ==
  ASSUME NEW s \in Seq(Items), s # <<>>
  PROVE  /\ Steps(s) = {Head(s)} \cup Steps(Tail(s)) /\ Steps(s) \subseteq Items
         /\ Paired(s) => Paired(Tail(s)) /\ \A q \in Steps(Tail(s)) : Precedes(Head(s), q)
  <1> DEFINE u == Tail(s)
  <1>1. /\ Head(s) = s[1] /\ u \in Seq(Items) /\ 1 \in 1..Len(s)
        /\ Len(u) = Len(s) - 1 /\ Len(s) \in Nat \ {0}
        /\ \A i \in 1..Len(u) : i + 1 \in 1..Len(s) /\ u[i] = s[i + 1]
    BY TailIs
  <1> HIDE DEF u
  <1>2. Steps(s) \subseteq {Head(s)} \cup Steps(u)
    <2>1. ASSUME NEW i \in 1..Len(s) PROVE s[i] \in {Head(s)} \cup Steps(u)
      <3>1. i = 1 \/ i - 1 \in 1..Len(u)
        BY <1>1
      <3>2. i - 1 \in 1..Len(u) => u[i - 1] = s[i]
        BY <1>1
      <3> QED
        BY <1>1, <3>1, <3>2 DEF Steps
    <2> QED
      BY <2>1 DEF Steps
  <1>3. {Head(s)} \cup Steps(u) \subseteq Steps(s)
    BY <1>1 DEF Steps
  <1>4. ASSUME Paired(s)
        PROVE  Paired(u) /\ \A q \in Steps(u) : Precedes(Head(s), q)
    <2>1. \A i \in 1..Len(u) : 1 < i + 1
      BY <1>1
    <2>2. \A i \in 1..Len(u) : Precedes(s[1], u[i])
      BY <1>1, <1>4, <2>1 DEF Paired
    <2>3. \A i, j \in 1..Len(u) : i < j => i + 1 < j + 1
      BY <1>1
    <2>4. Paired(u)
      BY <1>1, <1>4, <2>3 DEF Paired
    <2> QED
      BY <1>1, <2>2, <2>4 DEF Steps
  <1>5. Steps(s) \subseteq Items
    BY DEF Steps
  <1> QED
    BY <1>2, <1>3, <1>4, <1>5 DEF u

LEMMA StepsFew ==
  /\ Steps(<<>>) = {} /\ Paired(<<>>) /\ <<>> \in Seq(Items)
  /\ \A q \in Items : Steps(<<q>>) = {q} /\ Paired(<<q>>) /\ <<q>> \in Seq(Items)
  /\ \A p, q \in Items : /\ Steps(<<p, q>>) = {p, q} /\ <<p, q>> \in Seq(Items)
                         /\ Precedes(p, q) => Paired(<<p, q>>)
  <1>1. Steps(<<>>) = {} /\ Paired(<<>>) /\ <<>> \in Seq(Items)
    BY DEF Steps, Paired
  <1>2. ASSUME NEW q \in Items
        PROVE  Steps(<<q>>) = {q} /\ Paired(<<q>>) /\ <<q>> \in Seq(Items)
    <2>1. Len(<<q>>) = 1 /\ <<q>>[1] = q /\ <<q>> \in Seq(Items) /\ 1..1 = {1}
      OBVIOUS
    <2> QED
      BY <2>1 DEF Steps, Paired
  <1>3. ASSUME NEW p \in Items, NEW q \in Items
        PROVE  /\ Steps(<<p, q>>) = {p, q} /\ <<p, q>> \in Seq(Items)
               /\ Precedes(p, q) => Paired(<<p, q>>)
    <2>0. <<p, q>> \in Seq(Items) /\ Len(<<p, q>>) = 2 /\ <<p, q>>[1] = p /\ <<p, q>>[2] = q
      BY TwoSteps
    <2>1. PICK s \in Seq(Items) : s = <<p, q>> /\ Len(s) = 2 /\ s[1] = p /\ s[2] = q
      BY <2>0
    <2>2. 1..2 = {1, 2}
      OBVIOUS
    <2>3. Steps(s) = {p, q}
      BY <2>1, <2>2 DEF Steps
    <2>4. Precedes(p, q) => Paired(s)
      <3>1. \A i, j \in 1..Len(s) : i < j => i = 1 /\ j = 2
        BY <2>1, <2>2
      <3> QED
        BY <2>1, <3>1 DEF Paired
    <2> QED
      BY <2>1, <2>3, <2>4
  <1> QED
    BY <1>1, <1>2, <1>3

(* What may be put in front of the rest of an agenda.                        *)
Led(x, names) ==
  /\ x \in Seq(Items) /\ Paired(x)
  /\ \A q \in Steps(x) : q \in Items /\ q[1] \in names
Asks(x, T) == Led(x, {"free", "alloc"}) /\ \A q \in Steps(x) : q[2] \in T

LEMMA LedSignal ==
  ASSUME NEW e \in Events
  PROVE  Led(Signal(e), {"signal"}) /\ \A b : Led(SignalIf(b, e), {"signal"})
  <1>1. S("signal", e) \in Items /\ S("signal", e)[1] = "signal"
    BY DEF Items, S
  <1>2. PICK q \in Items : q = S("signal", e) /\ q[1] = "signal"
    BY <1>1
  <1>3. Led(<<q>>, {"signal"}) /\ Led(<<>>, {"signal"})
    BY <1>2, StepsFew DEF Led
  <1> QED
    BY <1>2, <1>3 DEF Signal, SignalIf

LEMMA LedStep ==
  ASSUME NEW name \in PlainSteps
  PROVE  Led(<<S(name, "")>>, {name})
  <1>1. S(name, "") \in Items /\ S(name, "")[1] = name
    BY StepIs
  <1>2. PICK q \in Items : q = S(name, "") /\ q[1] = name
    BY <1>1
  <1>3. Led(<<q>>, {name})
    BY <1>2, StepsFew DEF Led
  <1> QED
    BY <1>2, <1>3

LEMMA LedFirst ==
  ASSUME NEW x, NEW y, NEW names, Led(x, {"signal"}), Led(y, names), "after" \notin names
  PROVE  Led(x \o y, names \cup {"signal"})
  <1>1. \A p \in Steps(x), q \in Steps(y) : Precedes(p, q)
    BY DEF Led, Precedes, Short, LoopSteps
  <1>2. x \in Seq(Items) /\ y \in Seq(Items) /\ Paired(x) /\ Paired(y)
    BY DEF Led
  <1>3. x \o y \in Seq(Items) /\ Paired(x \o y) /\ Steps(x \o y) = Steps(x) \cup Steps(y)
    BY <1>1, <1>2, StepsJoined
  <1> QED
    BY <1>3 DEF Led

LEMMA TableStepIs ==
  ASSUME NEW t \in Tables, NEW name \in TableSteps
  PROVE  S(name, t) \in Items /\ S(name, t)[1] = name /\ S(name, t)[2] = t
  BY DEF Items, S

LEMMA AsksFor ==
  /\ \A t \in Tables : Asks(Request(t), {t})
  /\ \A x, y, A, B : /\ Asks(x, A) /\ Asks(y, B) /\ (A \cap PatPmt = {} \/ B \cap PatPmt = {})
                     => Asks(x \o y, A \cup B)
  /\ \A A : Asks(<<>>, A)
  <1>1. ASSUME NEW t \in Tables PROVE Asks(Request(t), {t})
    <2>1. PICK f, a \in Items : /\ f = S("free", t) /\ a = S("alloc", t)
                                /\ f[1] = "free" /\ a[1] = "alloc" /\ f[2] = t /\ a[2] = t
      BY TableStepIs DEF TableSteps
    <2>2. Precedes(f, a)
      BY <2>1 DEF Precedes, Short, LoopSteps
    <2>3. <<f, a>> \in Seq(Items) /\ Paired(<<f, a>>) /\ Steps(<<f, a>>) = {f, a}
      BY <2>2, StepsFew
    <2>4. Asks(<<f, a>>, {t})
      BY <2>1, <2>3 DEF Asks, Led
    <2> QED
      BY <2>1, <2>4 DEF Request
  <1>2. ASSUME NEW x, NEW y, NEW A, NEW B, Asks(x, A), Asks(y, B),
               A \cap PatPmt = {} \/ B \cap PatPmt = {}
        PROVE  Asks(x \o y, A \cup B)
    <2>1. \A p \in Steps(x), q \in Steps(y) : Precedes(p, q)
      BY <1>2 DEF Asks, Led, Precedes, Short, LoopSteps
    <2>2. x \in Seq(Items) /\ y \in Seq(Items) /\ Paired(x) /\ Paired(y)
      BY <1>2 DEF Asks, Led
    <2>3. x \o y \in Seq(Items) /\ Paired(x \o y) /\ Steps(x \o y) = Steps(x) \cup Steps(y)
      BY <2>1, <2>2, StepsJoined
    <2> QED
      BY <1>2, <2>3 DEF Asks, Led
  <1>3. ASSUME NEW A PROVE Asks(<<>>, A)
    BY StepsFew DEF Asks, Led
  <1> QED
    BY <1>1, <1>2, <1>3

(* What the invariant says of the rest.                                      *)
LEMMA RestIs ==
  ASSUME OrderInv, todo # <<>>
  PROVE  /\ Rest \in Seq(Items) /\ Rest = Tail(todo) /\ Paired(Rest)
         /\ Pending = {Head(todo)} \cup Steps(Rest) /\ Pending \subseteq Items
         /\ \A q \in Steps(Rest) : Precedes(Head(todo), q)
         /\ Head(todo)[1] \notin Short \cup {"leaveTs"} => \A q \in Steps(Rest) : Tame(q)
  <1>1. todo \in Seq(Items) /\ Rest = Tail(todo) /\ Rest \in Seq(Items)
    BY AfterHead DEF OrderInv
  <1>2. /\ Paired(Rest) /\ Pending = {Head(todo)} \cup Steps(Rest) /\ Pending \subseteq Items
        /\ \A q \in Steps(Rest) : Precedes(Head(todo), q)
    BY <1>1, StepsTail DEF OrderInv, Pending
  <1>3. ASSUME Head(todo)[1] \notin Short \cup {"leaveTs"}, NEW q \in Steps(Rest)
        PROVE  Tame(q)
    <2>1. Rest \in Seq(Calm)
      BY <1>3, AfterHead DEF OrderInv, Between, Short
    <2>2. Calm \subseteq Items
      BY DEF Calm
    <2>3. q \in Calm
      BY <2>1, <2>2, Parts DEF Steps
    <2> QED
      BY <1>2, <1>3, <2>3 DEF Tame, Precedes, Short, Calm
  <1> QED
    BY <1>1, <1>2, <1>3

(* The agenda after a step: some of what was still to come, and what is new. *)
New(names) == \A q \in Steps(todo') : q \in Items /\ (q \in Steps(Rest) \/ q[1] \in names)
NewFor(names, T) ==
  \A q \in Steps(todo') :
    /\ q \in Items
    /\ q \in Steps(Rest) \/ (q[1] \in names /\ (q[1] \in TableSteps => q[2] \in T))

Waits == {"wait", "tsComplete", "checks"}

LEMMA Push ==
  ASSUME OrderInv, todo # <<>>, Head(todo)[1] \notin Short \cup {"leaveTs"},
         NEW x \in Seq(Items), Paired(x), todo' = x \o Rest,
         Head(todo)[1] \in LoopSteps \/ \A p \in Steps(x) : p[1] \notin LoopSteps \cup {"after"}
  PROVE  Paired(todo') /\ Steps(todo') = Steps(x) \cup Steps(Rest) /\ Steps(todo') \subseteq Items
  <1>1. /\ Rest \in Seq(Items) /\ Paired(Rest)
        /\ \A q \in Steps(Rest) : Precedes(Head(todo), q) /\ Tame(q)
    BY RestIs
  <1>2. ASSUME NEW p \in Steps(x), NEW q \in Steps(Rest)
        PROVE  Precedes(p, q)
    <2>1. Tame(q) /\ Precedes(Head(todo), q)
      BY <1>1
    <2>2. Head(todo)[1] \in LoopSteps => q[1] \notin LoopSteps
      BY <2>1 DEF Precedes
    <2>3. q[1] = "tables" => q[1] \in LoopSteps
      BY DEF LoopSteps
    <2>4. q[1] \in LoopSteps => p[1] \notin LoopSteps \cup {"after"}
      BY <2>2
    <2> QED
      BY <2>1, <2>3, <2>4 DEF Precedes, Tame
  <1>3. Paired(todo') /\ Steps(todo') = Steps(x) \cup Steps(Rest)
    BY <1>1, <1>2, StepsJoined
  <1> QED
    BY <1>1, <1>3, StepsJoined

LEMMA OrderStays ==
  ASSUME OrderInv, MovesInv', todo # <<>>, Head(todo)[1] \notin {"free", "sync", "exitSync"},
         Paired(todo'), UNCHANGED <<fid, st, batch, life>>,
         \A q \in Steps(todo') : \/ q \in Steps(Rest)
                                 \/ /\ q[1] # "after"
                                    /\ q[1] \in Waits => Head(todo)[1] \in Waits
  PROVE  OrderInv'
  <1>1. Pending = {Head(todo)} \cup Steps(Rest)
    BY RestIs
  <1>2. AfterFree'
    <2> SUFFICES ASSUME NEW q \in Steps(todo'), q[1] = "after"
                 PROVE  fid[q[2]] = -1
      BY DEF AfterFree, Pending
    <2>1. q \in Pending
      BY <1>1
    <2> QED
      BY <2>1 DEF OrderInv, AfterFree, At
  <1>3. Synced'
    BY DEF OrderInv, Synced, At
  <1>4. Rested'
    <2>1. ASSUME NEW q \in Steps(todo'), q[1] \in Waits PROVE batch' = {}
      <3>1. q \in Pending \/ Head(todo)[1] \in Waits
        BY <1>1, <2>1
      <3>2. \E p \in Pending : p[1] \in Waits
        BY <1>1, <2>1, <3>1
      <3> QED
        BY <3>2 DEF OrderInv, Rested, Waits
    <2> QED
      BY <2>1 DEF OrderInv, Rested, Pending, Waits
  <1> QED
    BY <1>2, <1>3, <1>4 DEF OrderInv

LEMMA Pushed ==
  ASSUME OrderInv, MovesInv', todo # <<>>,
         Head(todo)[1] \notin Short \cup {"leaveTs", "exitSync"},
         NEW x, NEW names, Led(x, names), names \cap (LoopSteps \cup Waits \cup {"after"}) = {},
         todo' = x \o Rest, UNCHANGED <<fid, st, batch, life>>
  PROVE  OrderInv' /\ New(names) /\ Steps(todo') = Steps(x) \cup Steps(Rest)
  <1>1. \A p \in Steps(x) : p[1] \notin LoopSteps \cup {"after"}
    BY DEF Led
  <1>2. x \in Seq(Items) /\ Paired(x)
    BY DEF Led
  <1>3. Paired(todo') /\ Steps(todo') = Steps(x) \cup Steps(Rest) /\ Steps(todo') \subseteq Items
    BY <1>1, <1>2, Push
  <1>4. OrderInv'
    BY <1>3, OrderStays DEF Led, Short
  <1> QED
    BY <1>3, <1>4 DEF New, Led

LEMMA Dropped ==
  ASSUME OrderInv, MovesInv', todo # <<>>, todo' = Rest,
         Head(todo)[1] \notin {"free", "sync", "exitSync"}, UNCHANGED <<fid, st, batch, life>>
  PROVE  OrderInv' /\ New({})
  <1>1. Paired(todo') /\ Steps(todo') = Steps(Rest) /\ Steps(todo') \subseteq Items
    BY RestIs
  <1> QED
    BY <1>1, OrderStays DEF New

(* The done functions.                                                       *)
LEMMA TableDoneOrder ==
  ASSUME OrderInv, MovesInv', NEW t \in Tables, NEW next, NEW names, TableDone(t, next),
         Led(next, names), names \cap (LoopSteps \cup Waits \cup {"after"}) = {}
  PROVE  /\ OrderInv' /\ New(names \cup {"signal"})
         /\ Steps(todo') = Steps(Signal("TABLE_DONE") \o next) \cup Steps(Rest)
  <1>1. /\ todo # <<>> /\ Head(todo)[1] = "after" /\ UNCHANGED <<fid, st, batch, life>>
        /\ todo' = (Signal("TABLE_DONE") \o next) \o Rest
    BY DEF TableDone, After, At, Then, tables, demux, app
  <1>2. PICK x : x = Signal("TABLE_DONE") \o next
    OBVIOUS
  <1>3. Led(x, names \cup {"signal"})
    BY <1>2, LedSignal, LedFirst DEF Events
  <1>4. (names \cup {"signal"}) \cap (LoopSteps \cup Waits \cup {"after"}) = {}
    BY DEF LoopSteps, Waits
  <1>5. Head(todo)[1] \notin Short \cup {"leaveTs", "exitSync"}
    BY <1>1 DEF Short
  <1> QED
    BY <1>1, <1>2, <1>3, <1>4, <1>5, Pushed

LEMMA DonesOrder ==
  ASSUME OrderInv, MovesInv'
  PROVE  /\ CatDone \/ SdtDone \/ VctDone => OrderInv' /\ New({"signal"})
         /\ PatDone => OrderInv' /\ New({"signal", "nextPmt"})
         /\ PmtDone => OrderInv' /\ New({"nextPmt"})
         /\ MgtDone => OrderInv' /\ NewFor({"signal", "free", "alloc"}, {"vct"})
  <1>1. Led(<<>>, {}) /\ Led(<<S("nextPmt", "")>>, {"nextPmt"})
    <2>1. "nextPmt" \in PlainSteps
      BY DEF PlainSteps
    <2>2. Led(<<S("nextPmt", "")>>, {"nextPmt"})
      BY <2>1, LedStep
    <2>3. Led(<<>>, {})
      BY StepsFew DEF Led
    <2> QED
      BY <2>2, <2>3
  <1>2. /\ {"nextPmt"} \cap (LoopSteps \cup Waits \cup {"after"}) = {}
        /\ {"free", "alloc"} \cap (LoopSteps \cup Waits \cup {"after"}) = {}
        /\ {"cat", "sdt", "vct", "pat", "mgt"} \subseteq Tables
    BY DEF LoopSteps, Waits, Tables, TsTables
  <1>3. CatDone \/ SdtDone \/ VctDone => OrderInv' /\ New({"signal"})
    <2>1. \A t \in Tables : TableDone(t, <<>>) => OrderInv' /\ New({} \cup {"signal"})
      BY <1>1, TableDoneOrder
    <2> QED
      BY <1>2, <2>1 DEF CatDone, SdtDone, VctDone
  <1>4. PatDone => OrderInv' /\ New({"signal", "nextPmt"})
    <2>1. PatDone => OrderInv' /\ New({"nextPmt"} \cup {"signal"})
      BY <1>1, <1>2, TableDoneOrder DEF PatDone
    <2>2. {"nextPmt"} \cup {"signal"} = {"signal", "nextPmt"}
      OBVIOUS
    <2> QED
      BY <2>1, <2>2
  <1>5. PmtDone => OrderInv' /\ New({"nextPmt"})
    <2> SUFFICES ASSUME PmtDone PROVE OrderInv' /\ New({"nextPmt"})
      OBVIOUS
    <2>1. /\ todo # <<>> /\ Head(todo)[1] = "after" /\ UNCHANGED <<fid, st, batch, life>>
          /\ todo' = <<S("nextPmt", "")>> \o Rest
      BY DEF PmtDone, After, At, Then, tables, demux, app
    <2>2. Head(todo)[1] \notin Short \cup {"leaveTs", "exitSync"}
      BY <2>1 DEF Short
    <2>3. PICK x : x = <<S("nextPmt", "")>>
      OBVIOUS
    <2> QED
      BY <1>1, <1>2, <2>1, <2>2, <2>3, Pushed
  <1>6. MgtDone => OrderInv' /\ NewFor({"signal", "free", "alloc"}, {"vct"})
    <2> SUFFICES ASSUME MgtDone PROVE OrderInv' /\ NewFor({"signal", "free", "alloc"}, {"vct"})
      OBVIOUS
    <2>1. PICK next : /\ next = IF data["mgt"] = "none" THEN <<>> ELSE Request("vct")
                      /\ TableDone("mgt", next)
      BY DEF MgtDone
    <2>2. Asks(next, {"vct"})
      BY <1>2, <2>1, AsksFor
    <2>3. /\ OrderInv' /\ New({"free", "alloc"} \cup {"signal"})
          /\ Steps(todo') = Steps(Signal("TABLE_DONE") \o next) \cup Steps(Rest)
      BY <1>2, <2>1, <2>2, TableDoneOrder DEF Asks
    <2>4. PICK y : y = Signal("TABLE_DONE")
      OBVIOUS
    <2>5. Led(y, {"signal"})
      BY <2>4, LedSignal DEF Events
    <2>6. Steps(y \o next) = Steps(y) \cup Steps(next)
      BY <2>2, <2>5, StepsJoined DEF Asks, Led
    <2>7. \A q \in Steps(y) : q[1] \notin TableSteps
      BY <2>5 DEF Led, TableSteps
    <2> QED
      BY <2>2, <2>3, <2>4, <2>6, <2>7 DEF New, NewFor, Asks
  <1> QED
    BY <1>3, <1>4, <1>5, <1>6

LEMMA NextPmtOrder ==
  ASSUME OrderInv, MovesInv', NextPmt
  PROVE  /\ OrderInv' /\ NewFor({"signal", "free", "alloc"}, {"pmt"})
         /\ ts = None => New({"signal"})
  <1>1. /\ todo # <<>> /\ Head(todo)[1] = "nextPmt" /\ UNCHANGED <<fid, st, batch, life>>
        /\ \/ todo' = Rest
           \/ todo' = Signal("PMT_DONE") \o Rest
           \/ ts # None /\ todo' = Request("pmt") \o Rest
    BY DEF NextPmt, At, Then, app, demux
  <1>2. Head(todo)[1] \notin Short \cup {"leaveTs", "exitSync", "sync", "free"}
    BY <1>1 DEF Short
  <1>3. CASE todo' = Rest
    BY <1>1, <1>2, <1>3, Dropped DEF New, NewFor
  <1>4. {"signal", "free", "alloc"} \cap (LoopSteps \cup Waits \cup {"after"}) = {}
    BY DEF LoopSteps, Waits
  <1>5. CASE todo' = Signal("PMT_DONE") \o Rest
    <2>1. PICK x : x = Signal("PMT_DONE")
      OBVIOUS
    <2>2. Led(x, {"signal"})
      BY <2>1, LedSignal DEF Events
    <2>3. OrderInv' /\ New({"signal"})
      BY <1>1, <1>2, <1>4, <1>5, <2>1, <2>2, Pushed
    <2> QED
      BY <2>3 DEF New, NewFor, TableSteps
  <1>6. CASE ts # None /\ todo' = Request("pmt") \o Rest
    <2>1. PICK x : x = Request("pmt")
      OBVIOUS
    <2>2. Asks(x, {"pmt"})
      BY <2>1, AsksFor DEF Tables, TsTables
    <2>3. OrderInv' /\ Steps(todo') = Steps(x) \cup Steps(Rest) /\ New({"free", "alloc"})
      BY <1>1, <1>2, <1>4, <1>6, <2>1, <2>2, Pushed DEF Asks
    <2> QED
      BY <1>6, <2>2, <2>3 DEF New, NewFor, Asks
  <1> QED
    BY <1>1, <1>3, <1>5, <1>6

LEMMA NetworkOrder ==
  ASSUME OrderInv, MovesInv', NitDone \/ BatDone
  PROVE  /\ OrderInv'
         /\ \/ NitDone /\ New({"tryNit"})
            \/ recv' = {} /\ New({"signal", "nextTs"})
            \/ New({})
  <1>1. /\ todo # <<>> /\ Head(todo)[1] = "after" /\ UNCHANGED <<fid, st, batch, life>>
        /\ \/ NitDone /\ todo' = <<S("tryNit", "")>> \o Rest
           \/ todo' = NetworkDone \o Rest /\ recv' = {}
           \/ todo' = <<>> \o Rest
    BY DEF NitDone, BatDone, After, At, NotWaiting, Then, tables, demux, app
  <1>2. Head(todo)[1] \notin Short \cup {"leaveTs", "exitSync"}
    BY <1>1 DEF Short
  <1>3. {"tryNit", "nextTs", "signal"} \cap (LoopSteps \cup Waits \cup {"after"}) = {}
    BY DEF LoopSteps, Waits
  <1>4. "tryNit" \in PlainSteps /\ "nextTs" \in PlainSteps
    BY DEF PlainSteps
  <1>5. CASE NitDone /\ todo' = <<S("tryNit", "")>> \o Rest
    <2>1. PICK x : x = <<S("tryNit", "")>>
      OBVIOUS
    <2>2. Led(x, {"tryNit"})
      BY <1>4, <2>1, LedStep
    <2> QED
      BY <1>1, <1>2, <1>3, <1>5, <2>1, <2>2, Pushed
  <1>6. CASE todo' = NetworkDone \o Rest /\ recv' = {}
    <2>1. PICK x, y, z : x = Signal("TS_END") /\ y = Signal("NIT_END") /\ z = NextTs
      OBVIOUS
    <2>2. Led(x, {"signal"}) /\ Led(y, {"signal"}) /\ Led(z, {"nextTs"})
      BY <1>4, <2>1, LedSignal, LedStep DEF Events, NextTs
    <2>3. Led(x \o y, {"signal"} \cup {"signal"})
      BY <2>2, LedFirst
    <2>4. Led((x \o y) \o z, {"nextTs"} \cup {"signal"})
      BY <2>2, <2>3, LedFirst
    <2>5. todo' = ((x \o y) \o z) \o Rest /\ {"nextTs"} \cup {"signal"} = {"signal", "nextTs"}
      BY <1>6, <2>1, Zenon DEF NetworkDone
    <2>6. PICK u : u = (x \o y) \o z
      OBVIOUS
    <2>7. Led(u, {"signal", "nextTs"}) /\ todo' = u \o Rest
      BY <2>4, <2>5, <2>6
    <2> QED
      BY <1>1, <1>2, <1>3, <1>6, <2>7, Pushed
  <1>7. CASE todo' = <<>> \o Rest
    <2>1. Led(<<>>, {})
      BY StepsFew DEF Led
    <2> QED
      BY <1>1, <1>2, <1>7, <2>1, Pushed
  <1> QED
    BY <1>1, <1>5, <1>6, <1>7

(* The steps that move on.                                                   *)
LEMMA StagesOrder ==
  ASSUME OrderInv, MovesInv'
  PROVE  /\ TryNit => OrderInv' /\ New({"signal", "tune"})
         /\ StartNextTs => /\ OrderInv' /\ New({"signal", "leaveTs", "tune"})
                           /\ \E q \in Steps(todo') : q[1] = "leaveTs"
         /\ LeaveTs => OrderInv' /\ New({})
  <1>0. "tune" \in PlainSteps /\ "leaveTs" \in PlainSteps
    BY DEF PlainSteps
  <1>1. {"tune", "leaveTs", "signal"} \cap (LoopSteps \cup Waits \cup {"after"}) = {}
    BY DEF LoopSteps, Waits
  <1>2. PICK x, y : x = SignalIf(stage # "NIT", "NIT_BEGIN") /\ y = SignalIf(curr >= 0, "TS_END")
    OBVIOUS
  <1>3. Led(x, {"signal"}) /\ Led(y, {"signal"})
    BY <1>2, LedSignal DEF Events
  <1>4. ASSUME TryNit PROVE OrderInv' /\ New({"signal", "tune"})
    <2>1. /\ todo # <<>> /\ Head(todo)[1] = "tryNit" /\ UNCHANGED <<fid, st, batch, life>>
          /\ todo' = ((x \o y) \o <<S("tune", "")>>) \o Rest
      BY <1>2, <1>4, Zenon DEF TryNit, At, Then, tables, demux, app
    <2>2. Head(todo)[1] \notin Short \cup {"leaveTs", "exitSync"}
      BY <2>1 DEF Short
    <2>3. PICK z : z = <<S("tune", "")>>
      OBVIOUS
    <2>4. Led(z, {"tune"})
      BY <1>0, <2>3, LedStep
    <2>5. Led(x \o y, {"signal"} \cup {"signal"})
      BY <1>3, LedFirst
    <2>6. Led((x \o y) \o z, {"tune"} \cup {"signal"})
      BY <2>4, <2>5, LedFirst
    <2>7. PICK u : u = (x \o y) \o z
      OBVIOUS
    <2>8. Led(u, {"signal", "tune"}) /\ todo' = u \o Rest
      <3>1. {"tune"} \cup {"signal"} = {"signal", "tune"}
        OBVIOUS
      <3> QED
        BY <2>1, <2>3, <2>6, <2>7, <3>1
    <2> QED
      BY <1>1, <2>1, <2>2, <2>8, Pushed
  <1>5. ASSUME StartNextTs
        PROVE  /\ OrderInv' /\ New({"signal", "leaveTs", "tune"})
               /\ \E q \in Steps(todo') : q[1] = "leaveTs"
    <2>1. /\ todo # <<>> /\ Head(todo)[1] = "nextTs" /\ UNCHANGED <<fid, st, batch, life>>
          /\ todo' = (y \o <<S("leaveTs", ""), S("tune", "")>>) \o Rest
      BY <1>2, <1>5, Zenon DEF StartNextTs, At, Then, tables, demux, app
    <2>2. Head(todo)[1] \notin Short \cup {"leaveTs", "exitSync"}
      BY <2>1 DEF Short
    <2>3. PICK p, q \in Items : p = S("leaveTs", "") /\ q = S("tune", "") /\ p[1] = "leaveTs" /\ q[1] = "tune"
      <3>1. \A name \in PlainSteps : S(name, "") \in Items /\ S(name, "")[1] = name
        BY StepIs
      <3> QED
        BY <1>0, <3>1
    <2>4. PICK z : z = <<p, q>>
      OBVIOUS
    <2>5. Led(z, {"leaveTs", "tune"}) /\ Steps(z) = {p, q}
      <3>1. p[1] = "leaveTs" /\ q[1] = "tune"
        BY <2>3
      <3>2. Precedes(p, q)
        BY <3>1 DEF Precedes, LoopSteps
      <3>3. z \in Seq(Items) /\ Paired(z) /\ Steps(z) = {p, q}
        BY <2>4, <3>2, StepsFew
      <3> QED
        BY <3>1, <3>3 DEF Led
    <2>6. Led(y \o z, {"leaveTs", "tune"} \cup {"signal"}) /\ Steps(y \o z) = Steps(y) \cup Steps(z)
      BY <1>3, <2>5, LedFirst, StepsJoined DEF Led
    <2>7. PICK u : u = y \o z
      OBVIOUS
    <2>8. Led(u, {"signal", "leaveTs", "tune"}) /\ todo' = u \o Rest /\ p \in Steps(u)
      <3>1. {"leaveTs", "tune"} \cup {"signal"} = {"signal", "leaveTs", "tune"}
        OBVIOUS
      <3> QED
        BY <2>1, <2>3, <2>4, <2>5, <2>6, <2>7, <3>1
    <2>9. OrderInv' /\ New({"signal", "leaveTs", "tune"}) /\ p \in Steps(todo')
      BY <1>1, <2>1, <2>2, <2>8, Pushed
    <2> QED
      BY <2>3, <2>9
  <1>6. ASSUME LeaveTs PROVE OrderInv' /\ New({})
    <2>1. /\ todo # <<>> /\ Head(todo)[1] = "leaveTs" /\ UNCHANGED <<fid, st, batch, life>>
          /\ todo' = Rest
      BY <1>6 DEF LeaveTs, At, tables, demux, app
    <2> QED
      BY <2>1, Dropped
  <1> QED
    BY <1>4, <1>5, <1>6

LEMMA TuneOrder ==
  ASSUME OrderInv, MovesInv'
  PROVE  /\ TuneNext => /\ OrderInv' /\ New({"signal", "setPara"})
                        /\ curr + 1 >= Count => New({"signal"})
         /\ SetPara => /\ OrderInv' /\ New({"signal", "tune"})
                       /\ tuned' # tuned \/ recv' # recv => New({})
  <1>1. "tune" \in PlainSteps /\ "setPara" \in PlainSteps
    BY DEF PlainSteps
  <1>2. {"tune", "setPara", "signal"} \cap (LoopSteps \cup Waits \cup {"after"}) = {}
    BY DEF LoopSteps, Waits
  <1>3. ASSUME NEW e \in Events, NEW name \in {"tune", "setPara"}
        PROVE  Led(Signal(e) \o <<S(name, "")>>, {"signal", name})
    <2>1. PICK x, z : x = Signal(e) /\ z = <<S(name, "")>>
      OBVIOUS
    <2>2. Led(x, {"signal"}) /\ Led(z, {name})
      BY <1>1, <2>1, LedSignal, LedStep
    <2>3. Led(x \o z, {name} \cup {"signal"}) /\ {name} \cup {"signal"} = {"signal", name}
      BY <2>2, LedFirst
    <2> QED
      BY <2>1, <2>3
  <1>4. ASSUME TuneNext
        PROVE  /\ OrderInv' /\ New({"signal", "setPara"})
               /\ curr + 1 >= Count => New({"signal"})
    <2>1. /\ todo # <<>> /\ Head(todo)[1] = "tune" /\ UNCHANGED <<fid, st, batch, life>>
          /\ \/ todo' = Signal("SCAN_END") \o Rest
             \/ ~(curr + 1 >= Count) /\ todo' = (Signal("TS_BEGIN") \o <<S("setPara", "")>>) \o Rest
      BY <1>4, Zenon DEF TuneNext, At, Then, tables, demux, app
    <2>2. Head(todo)[1] \notin Short \cup {"leaveTs", "exitSync"}
      BY <2>1 DEF Short
    <2>3. CASE todo' = Signal("SCAN_END") \o Rest
      <3>1. Led(Signal("SCAN_END"), {"signal"})
        BY LedSignal DEF Events
      <3>2. OrderInv' /\ New({"signal"})
        BY <1>2, <2>1, <2>2, <2>3, <3>1, Pushed
      <3> QED
        BY <3>2 DEF New
    <2>4. CASE ~(curr + 1 >= Count) /\ todo' = (Signal("TS_BEGIN") \o <<S("setPara", "")>>) \o Rest
      <3>1. PICK x : x = Signal("TS_BEGIN") \o <<S("setPara", "")>>
        OBVIOUS
      <3>2. Led(x, {"signal", "setPara"}) /\ todo' = x \o Rest
        BY <1>3, <2>4, <3>1 DEF Events
      <3> QED
        BY <1>2, <2>1, <2>2, <2>4, <3>2, Pushed
    <2> QED
      BY <2>1, <2>3, <2>4
  <1>5. ASSUME SetPara
        PROVE  /\ OrderInv' /\ New({"signal", "tune"})
               /\ tuned' # tuned \/ recv' # recv => New({})
    <2>1. /\ todo # <<>> /\ Head(todo)[1] = "setPara" /\ UNCHANGED <<fid, st, batch, life>>
          /\ \/ todo' = Rest
             \/ /\ todo' = (Signal("TS_END") \o <<S("tune", "")>>) \o Rest
                /\ tuned' = tuned /\ recv' = recv
      BY <1>5, Zenon DEF SetPara, At, Then, tables, demux, app
    <2>2. Head(todo)[1] \notin Short \cup {"leaveTs", "exitSync", "sync", "free"}
      BY <2>1 DEF Short
    <2>3. CASE todo' = Rest
      BY <2>1, <2>2, <2>3, Dropped DEF New
    <2>4. CASE /\ todo' = (Signal("TS_END") \o <<S("tune", "")>>) \o Rest
               /\ tuned' = tuned /\ recv' = recv
      <3>1. PICK x : x = Signal("TS_END") \o <<S("tune", "")>>
        OBVIOUS
      <3>2. Led(x, {"signal", "tune"}) /\ todo' = x \o Rest
        BY <1>3, <2>4, <3>1 DEF Events
      <3> QED
        BY <1>2, <2>1, <2>2, <2>4, <3>2, Pushed
    <2> QED
      BY <2>1, <2>3, <2>4
  <1> QED
    BY <1>4, <1>5

LEMMA FendOrder ==
  ASSUME OrderInv, MovesInv'
  PROVE  /\ SolveFendEvt => /\ OrderInv' /\ New({"signal", "outcome"})
                            /\ "fend" \in recv \/ New({})
         /\ Unlocked => /\ OrderInv' /\ New({"tryNit", "nextTs"})
                        /\ stage = "TS" => New({"nextTs"})
                        /\ stage # "TS" => New({"tryNit"})
         /\ LockedNit => /\ OrderInv' /\ NewFor({"free", "alloc"}, {"nit", "bat"})
         /\ LockedTs => /\ OrderInv' /\ NewFor({"free", "alloc"}, {"pat", "cat", "sdt", "mgt"})
  <1>1. "outcome" \in PlainSteps /\ "tryNit" \in PlainSteps /\ "nextTs" \in PlainSteps
    BY DEF PlainSteps
  <1>2. {"outcome", "tryNit", "nextTs", "signal", "free", "alloc"} \cap (LoopSteps \cup Waits \cup {"after"}) = {}
    BY DEF LoopSteps, Waits
  <1>3. ASSUME SolveFendEvt
        PROVE  /\ OrderInv' /\ New({"signal", "outcome"})
               /\ "fend" \in recv \/ New({})
    <2>1. /\ todo # <<>> /\ Head(todo)[1] = "fend" /\ UNCHANGED <<fid, st, batch, life>>
          /\ \/ todo' = Rest
             \/ "fend" \in recv /\ todo' = (Signal("SIGNAL") \o <<S("outcome", "")>>) \o Rest
      BY <1>3, Zenon DEF SolveFendEvt, At, Then, tables, demux, app
    <2>2. Head(todo)[1] \notin Short \cup {"leaveTs", "exitSync", "sync", "free"}
      BY <2>1 DEF Short
    <2>3. CASE todo' = Rest
      BY <2>1, <2>2, <2>3, Dropped DEF New
    <2>4. CASE "fend" \in recv /\ todo' = (Signal("SIGNAL") \o <<S("outcome", "")>>) \o Rest
      <3>1. PICK x, z : x = Signal("SIGNAL") /\ z = <<S("outcome", "")>>
        OBVIOUS
      <3>2. Led(x, {"signal"}) /\ Led(z, {"outcome"})
        BY <1>1, <3>1, LedSignal, LedStep DEF Events
      <3>3. PICK y : y = x \o z
        OBVIOUS
      <3>4. Led(y, {"signal", "outcome"}) /\ todo' = y \o Rest
        <4>1. Led(y, {"outcome"} \cup {"signal"}) /\ {"outcome"} \cup {"signal"} = {"signal", "outcome"}
          BY <3>2, <3>3, LedFirst
        <4> QED
          BY <2>4, <3>1, <3>3, <4>1
      <3> QED
        BY <1>2, <2>1, <2>2, <2>4, <3>4, Pushed
    <2> QED
      BY <2>1, <2>3, <2>4
  <1>4. ASSUME Unlocked
        PROVE  /\ OrderInv' /\ New({"tryNit", "nextTs"})
               /\ stage = "TS" => New({"nextTs"})
               /\ stage # "TS" => New({"tryNit"})
    <2>1. /\ todo # <<>> /\ Head(todo)[1] = "outcome" /\ UNCHANGED <<fid, st, batch, life>>
          /\ \/ todo' = <<>> \o Rest
             \/ stage # "TS" /\ todo' = <<S("tryNit", "")>> \o Rest
             \/ stage = "TS" /\ todo' = <<S("nextTs", "")>> \o Rest
      <3>1. /\ todo # <<>> /\ Head(todo)[1] = "outcome" /\ UNCHANGED <<fid, st, batch, life>>
            /\ todo' = (CASE stage = "NIT" -> <<S("tryNit", "")>>
                          [] stage = "TS" -> NextTs
                          [] OTHER -> <<>>) \o Rest
        BY <1>4, Zenon DEF Unlocked, At, Then, tables, demux, app
      <3>2. PICK a, b : a = <<S("tryNit", "")>> /\ b = <<S("nextTs", "")>>
        OBVIOUS
      <3>3. todo' = (CASE stage = "NIT" -> a [] stage = "TS" -> b [] OTHER -> <<>>) \o Rest
        BY <3>1, <3>2 DEF NextTs
      <3>4. \/ todo' = <<>> \o Rest
            \/ stage # "TS" /\ todo' = a \o Rest
            \/ stage = "TS" /\ todo' = b \o Rest
        BY <3>3
      <3> QED
        BY <3>1, <3>2, <3>4
    <2>2. Head(todo)[1] \notin Short \cup {"leaveTs", "exitSync"}
      BY <2>1 DEF Short
    <2>3. CASE todo' = <<>> \o Rest
      <3>1. Led(<<>>, {}) /\ {} \cap (LoopSteps \cup Waits \cup {"after"}) = {}
        BY StepsFew DEF Led
      <3>2. OrderInv' /\ New({})
        BY <2>1, <2>2, <2>3, <3>1, Pushed
      <3> QED
        BY <3>2 DEF New
    <2>4. CASE stage # "TS" /\ todo' = <<S("tryNit", "")>> \o Rest
      <3>1. PICK x : x = <<S("tryNit", "")>>
        OBVIOUS
      <3>2. Led(x, {"tryNit"})
        BY <1>1, <3>1, LedStep
      <3>3. OrderInv' /\ New({"tryNit"})
        BY <1>2, <2>1, <2>2, <2>4, <3>1, <3>2, Pushed
      <3> QED
        BY <2>4, <3>3 DEF New
    <2>5. CASE stage = "TS" /\ todo' = <<S("nextTs", "")>> \o Rest
      <3>1. PICK x : x = <<S("nextTs", "")>>
        OBVIOUS
      <3>2. Led(x, {"nextTs"})
        BY <1>1, <3>1, LedStep
      <3>3. OrderInv' /\ New({"nextTs"})
        BY <1>2, <2>1, <2>2, <2>5, <3>1, <3>2, Pushed
      <3> QED
        BY <2>5, <3>3 DEF New
    <2> QED
      BY <2>1, <2>3, <2>4, <2>5
  <1>5. ASSUME NEW x, NEW T, Asks(x, T), todo # <<>>, Head(todo)[1] = "outcome",
               UNCHANGED <<fid, st, batch, life>>, todo' = x \o Rest
        PROVE  OrderInv' /\ NewFor({"free", "alloc"}, T)
    <2>1. Head(todo)[1] \notin Short \cup {"leaveTs", "exitSync"}
      BY <1>5 DEF Short
    <2>2. {"free", "alloc"} \cap (LoopSteps \cup Waits \cup {"after"}) = {}
      BY <1>2
    <2>3. OrderInv' /\ New({"free", "alloc"}) /\ Steps(todo') = Steps(x) \cup Steps(Rest)
      BY <1>5, <2>1, <2>2, Pushed DEF Asks
    <2> QED
      BY <1>5, <2>3 DEF New, NewFor, Asks
  <1>6. ASSUME LockedNit PROVE OrderInv' /\ NewFor({"free", "alloc"}, {"nit", "bat"})
    <2>1. /\ todo # <<>> /\ Head(todo)[1] = "outcome" /\ UNCHANGED <<fid, st, batch, life>>
          /\ \/ todo' = Rest
             \/ todo' = (Request("nit") \o (IF mode.bat THEN Request("bat") ELSE <<>>)) \o Rest
      BY <1>6, Zenon DEF LockedNit, At, Then, tables, demux, app
    <2>2. CASE todo' = Rest
      BY <2>1, <2>2, Dropped DEF New, NewFor
    <2>3. CASE todo' = (Request("nit") \o (IF mode.bat THEN Request("bat") ELSE <<>>)) \o Rest
      <3>1. PICK x, y : x = Request("nit") /\ y = (IF mode.bat THEN Request("bat") ELSE <<>>)
        OBVIOUS
      <3>2. Asks(x, {"nit"}) /\ Asks(y, {"bat"})
        BY <3>1, AsksFor DEF Tables
      <3>3. PICK z : z = x \o y
        OBVIOUS
      <3>4. Asks(z, {"nit"} \cup {"bat"}) /\ {"nit"} \cup {"bat"} = {"nit", "bat"}
        BY <3>2, <3>3, AsksFor DEF PatPmt
      <3> QED
        BY <1>5, <2>1, <2>3, <3>1, <3>3, <3>4
    <2> QED
      BY <2>1, <2>2, <2>3
  <1>7. ASSUME LockedTs
        PROVE  OrderInv' /\ NewFor({"free", "alloc"}, {"pat", "cat", "sdt", "mgt"})
    <2>1. PICK own \in {"mgt", "sdt"} :
            /\ todo # <<>> /\ Head(todo)[1] = "outcome" /\ UNCHANGED <<fid, st, batch, life>>
            /\ todo' = ((Request("pat") \o Request("cat")) \o Request(own)) \o Rest
      BY <1>7, Zenon DEF LockedTs, At, Then, tables, demux, app
    <2>2. PICK x, y, z : x = Request("pat") /\ y = Request("cat") /\ z = Request(own)
      OBVIOUS
    <2>3. Asks(x, {"pat"}) /\ Asks(y, {"cat"}) /\ Asks(z, {own})
      BY <2>1, <2>2, AsksFor DEF Tables, TsTables
    <2>4. Asks(x \o y, {"pat"} \cup {"cat"})
      BY <2>3, AsksFor DEF PatPmt
    <2>5. PICK u : u = (x \o y) \o z
      OBVIOUS
    <2>6. Asks(u, ({"pat"} \cup {"cat"}) \cup {own})
      BY <2>1, <2>3, <2>4, <2>5, AsksFor DEF PatPmt
    <2>7. Asks(u, {"pat", "cat", "sdt", "mgt"})
      BY <2>1, <2>6 DEF Asks
    <2>8. todo' = u \o Rest
      BY <2>1, <2>2, <2>5
    <2> QED
      BY <1>5, <2>1, <2>7, <2>8
  <1> QED
    BY <1>3, <1>4, <1>6, <1>7

(* The loops over tables.                                                    *)
Done(d, t) ==
  /\ d \in Seq(Items) /\ Paired(d)
  /\ \A p \in Steps(d) : p[1] \in {"free", "after"} /\ p[2] = t
  /\ Steps(d) # {} => d # <<>> /\ d[1] = S("free", t)

LEMMA DoneIs ==
  ASSUME NEW t \in Tables
  PROVE  Done(DoneSteps(t), t) /\ Done(<<>>, t) /\ DoneSteps(t) # <<>>
  <1>1. PICK f, a \in Items : /\ f = S("free", t) /\ a = S("after", t)
                              /\ f[1] = "free" /\ a[1] = "after" /\ f[2] = t /\ a[2] = t
    <2>1. \A n \in TableSteps : S(n, t) \in Items /\ S(n, t)[1] = n /\ S(n, t)[2] = t
      BY TableStepIs
    <2>2. "free" \in TableSteps /\ "after" \in TableSteps
      BY DEF TableSteps
    <2> QED
      BY <2>1, <2>2
  <1>2. <<f, a>> \in Seq(Items) /\ Paired(<<f, a>>) /\ Steps(<<f, a>>) = {f, a}
    <2>1. Precedes(f, a)
      BY <1>1 DEF Precedes, LoopSteps
    <2> QED
      BY <2>1, StepsFew
  <1>3. <<f, a>> # <<>> /\ <<f, a>>[1] = f
    OBVIOUS
  <1>4. Done(<<f, a>>, t)
    BY <1>1, <1>2, <1>3 DEF Done
  <1>5. Done(<<>>, t)
    BY StepsFew DEF Done
  <1> QED
    BY <1>1, <1>3, <1>4, <1>5 DEF DoneSteps

LEMMA LoopAlone ==
  ASSUME NEW name \in LoopSteps, NEW U \in SUBSET Tables
  PROVE  /\ Loop(name, U) \in Seq(Items) /\ Paired(Loop(name, U))
         /\ \A q \in Steps(Loop(name, U)) : q \in Items /\ q[1] = name /\ q[2] = U
  <1>1. CASE U = {}
    BY <1>1, StepsFew DEF Loop
  <1>2. CASE U # {}
    <2>1. S(name, U) \in Items /\ S(name, U)[1] = name /\ S(name, U)[2] = U
      BY <1>2 DEF Items, LoopItems, S
    <2>2. PICK q \in Items : q = S(name, U) /\ q[1] = name /\ q[2] = U
      BY <2>1
    <2>3. Loop(name, U) = <<q>>
      BY <1>2, <2>2 DEF Loop
    <2>4. Steps(<<q>>) = {q} /\ Paired(<<q>>) /\ <<q>> \in Seq(Items)
      BY StepsFew
    <2> QED
      BY <2>2, <2>3, <2>4
  <1> QED
    BY <1>1, <1>2

LEMMA LoopOrder ==
  ASSUME OrderInv, MovesInv', NEW name \in LoopSteps, NEW U \in SUBSET Tables, NEW t \in U,
         todo # <<>>, Head(todo)[1] = name, UNCHANGED <<fid, st, batch, life>>,
         NEW d, Done(d, t), todo' = (d \o Loop(name, U \ {t})) \o Rest
  PROVE  /\ OrderInv'
         /\ \A q \in Steps(todo') :
              /\ q \in Items
              /\ \/ q \in Steps(Rest)
                 \/ q[1] = "free"
                 \/ q[1] = "after" /\ q[2] = t /\ q \in Steps(d)
                 \/ q[1] = name /\ q[2] \subseteq U
  <1>3. /\ d \in Seq(Items) /\ Paired(d)
        /\ \A p \in Steps(d) : p[1] \in {"free", "after"} /\ p[2] = t
    BY DEF Done
  <1>4. PICK l : l = Loop(name, U \ {t})
    OBVIOUS
  <1>5. /\ l \in Seq(Items) /\ Paired(l)
        /\ \A q \in Steps(l) : q \in Items /\ q[1] = name /\ q[2] = U \ {t}
    BY <1>4, LoopAlone
  <1>6. \A p \in Steps(d), q \in Steps(l) : Precedes(p, q)
    <2>1. name \notin {"alloc", "nextPmt", "leaveTs", "after", "free"}
      BY DEF LoopSteps
    <2> QED
      BY <1>3, <1>5, <2>1 DEF Precedes, LoopSteps
  <1>7. PICK x : x = d \o l
    OBVIOUS
  <1>8. x \in Seq(Items) /\ Paired(x) /\ Steps(x) = Steps(d) \cup Steps(l)
    BY <1>3, <1>5, <1>6, <1>7, StepsJoined
  <1>9. todo' = x \o Rest /\ Head(todo)[1] \notin Short \cup {"leaveTs", "free", "sync", "exitSync"}
    BY <1>4, <1>7 DEF LoopSteps, Short
  <1>10. Paired(todo') /\ Steps(todo') = Steps(x) \cup Steps(Rest) /\ Steps(todo') \subseteq Items
    BY <1>8, <1>9, Push
  <1>11. \A q \in Steps(todo') :
           /\ q \in Items
           /\ \/ q \in Steps(Rest)
              \/ q[1] = "free"
              \/ q[1] = "after" /\ q[2] = t /\ q \in Steps(d)
              \/ q[1] = name /\ q[2] \subseteq U
    BY <1>3, <1>5, <1>8, <1>10
  <1>12. \A q \in Steps(Rest) : q[1] # "after"
    BY <1>9, RestIs DEF Tame
  <1>13. AfterFree'
    <2> SUFFICES ASSUME NEW q \in Steps(todo'), q[1] = "after"
                 PROVE  At("free")' /\ Arg' = q[2]
      BY DEF AfterFree, Pending
    <2>1. q[2] = t /\ d # <<>> /\ d[1] = S("free", t)
      BY <1>11, <1>12 DEF LoopSteps, Done
    <2>2. PICK f : f = S("free", t) /\ f[1] = "free" /\ f[2] = t
      <3>1. S("free", t)[1] = "free" /\ S("free", t)[2] = t
        BY DEF S
      <3> QED
        BY <3>1
    <2>20. 1 \in 1..Len(d) /\ d[1] = f
      BY <1>3, <2>1, <2>2, TailIs
    <2>3. /\ Rest \in Seq(Items) /\ x \in Seq(Items) /\ todo' \in Seq(Items)
      BY <1>8, <1>9, RestIs, StepsJoined
    <2>4. 1 \in 1..Len(x) /\ x[1] = f
      BY <1>3, <1>5, <1>7, <2>20, JoinedIs
    <2>5. 1 \in 1..Len(todo') /\ todo'[1] = f
      <3>1. PICK r \in Seq(Items) : r = Rest
        BY <2>3
      <3>2. 1 \in 1..Len(x \o r) /\ (x \o r)[1] = f
        BY <2>3, <2>4, JoinedIs
      <3> QED
        BY <1>9, <3>1, <3>2
    <2>6. todo' # <<>> /\ Head(todo') = f
      BY <2>3, <2>5
    <2> QED
      BY <2>1, <2>2, <2>6 DEF At, Arg
  <1>14. Synced'
    BY <1>9 DEF OrderInv, Synced, At
  <1>15. Rested'
    <2>1. Head(todo) \in Pending /\ Steps(Rest) \subseteq Pending
      BY RestIs
    <2>2. ASSUME NEW q \in Steps(todo'), q[1] \in Waits PROVE \E p \in Pending : p[1] \in Waits
      BY <1>11, <2>1, <2>2 DEF Waits
    <2> QED
      BY <2>2 DEF OrderInv, Rested, Waits, Pending
  <1> QED
    BY <1>10, <1>11, <1>13, <1>14, <1>15 DEF OrderInv

LEMMA LoopsOrder ==
  ASSUME OrderInv, MovesInv'
  PROVE  /\ TablesDone =>
              /\ OrderInv' /\ Arg \in SUBSET Tables
              /\ \A q \in Steps(todo') :
                   /\ q \in Items
                   /\ \/ q \in Steps(Rest)
                      \/ q[1] = "free"
                      \/ q[1] = "after" /\ q[2] \in Arg
                      \/ q[1] = "tables" /\ q[2] \subseteq Arg
         /\ CheckTimeout =>
              /\ OrderInv' /\ Arg \in SUBSET Tables
              /\ \A q \in Steps(todo') :
                   /\ q \in Items
                   /\ \/ q \in Steps(Rest)
                      \/ q[1] = "free"
                      \/ q[1] = "after" /\ q[2] \in Arg /\ Expires(q[2])
                      \/ q[1] = "checks"
  <1>1. ASSUME TablesDone \/ CheckTimeout
        PROVE  /\ todo # <<>> /\ Arg \in (SUBSET Tables) \ {{}}
               /\ UNCHANGED <<fid, st, batch, life>> /\ First(Arg) \in Arg
    <2>1. todo # <<>> /\ Head(todo)[1] \in LoopSteps /\ UNCHANGED <<fid, st, batch, life>>
      BY <1>1 DEF TablesDone, CheckTimeout, At, LoopSteps, tables, demux, app
    <2>2. Arg \in (SUBSET Tables) \ {{}}
      BY <2>1, HeadIs DEF OrderInv, MovesInv, IInv
    <2>3. PICK U \in SUBSET Tables : U = Arg /\ U # {}
      BY <2>2
    <2>4. First(U) \in U
      BY <2>3, FirstTable
    <2> QED
      BY <2>1, <2>2, <2>3, <2>4
  <1>2. "tables" \in LoopSteps /\ "checks" \in LoopSteps
    BY DEF LoopSteps
  <1>3. ASSUME TablesDone
        PROVE  /\ OrderInv' /\ Arg \in SUBSET Tables
               /\ \A q \in Steps(todo') :
                    /\ q \in Items
                    /\ \/ q \in Steps(Rest)
                       \/ q[1] = "free"
                       \/ q[1] = "after" /\ q[2] \in Arg
                       \/ q[1] = "tables" /\ q[2] \subseteq Arg
    <2>1. PICK U \in SUBSET Tables : U = Arg
      BY <1>1, <1>3
    <2>2. PICK t \in U : t = First(U)
      BY <1>1, <1>3, <2>1
    <2>3. Head(todo)[1] = "tables" /\ todo' = (DoneSteps(t) \o Loop("tables", U \ {t})) \o Rest
      BY <1>3, <2>1, <2>2 DEF TablesDone, At, Then
    <2>4. PICK d : d = DoneSteps(t) /\ Done(d, t)
      BY DoneIs
    <2>5. todo' = (d \o Loop("tables", U \ {t})) \o Rest /\ todo # <<>> /\ UNCHANGED <<fid, st, batch, life>>
      BY <1>1, <1>3, <2>3, <2>4
    <2>6. /\ OrderInv'
          /\ \A q \in Steps(todo') :
               /\ q \in Items
               /\ \/ q \in Steps(Rest)
                  \/ q[1] = "free"
                  \/ q[1] = "after" /\ q[2] = t /\ q \in Steps(d)
                  \/ q[1] = "tables" /\ q[2] \subseteq U
      BY <1>2, <2>3, <2>4, <2>5, LoopOrder
    <2> QED
      BY <2>1, <2>6
  <1>4. ASSUME CheckTimeout
        PROVE  /\ OrderInv' /\ Arg \in SUBSET Tables
               /\ \A q \in Steps(todo') :
                    /\ q \in Items
                    /\ \/ q \in Steps(Rest)
                       \/ q[1] = "free"
                       \/ q[1] = "after" /\ q[2] \in Arg /\ Expires(q[2])
                       \/ q[1] = "checks"
    <2>1. PICK U \in SUBSET Tables : U = Arg
      BY <1>1, <1>4
    <2>2. PICK t \in U : t = First(U)
      BY <1>1, <1>4, <2>1
    <2>3. PICK d : /\ d = (IF Expires(t) THEN DoneSteps(t) ELSE <<>>)
                   /\ Head(todo)[1] = "checks" /\ todo' = (d \o Loop("checks", U \ {t})) \o Rest
      BY <1>4, <2>1, <2>2 DEF CheckTimeout, At, Then
    <2>4. Done(d, t)
      BY <2>3, DoneIs
    <2>5. Steps(d) # {} => Expires(t)
      BY <2>3, StepsFew
    <2>6. /\ OrderInv'
          /\ \A q \in Steps(todo') :
               /\ q \in Items
               /\ \/ q \in Steps(Rest)
                  \/ q[1] = "free"
                  \/ q[1] = "after" /\ q[2] = t /\ q \in Steps(d)
                  \/ q[1] = "checks" /\ q[2] \subseteq U
      <3>1. todo # <<>> /\ UNCHANGED <<fid, st, batch, life>>
        BY <1>1, <1>4
      <3>2. Head(todo)[1] = "checks" /\ todo' = (d \o Loop("checks", U \ {t})) \o Rest
        BY <2>3
      <3> QED
        BY <1>2, <2>4, <3>1, <3>2, LoopOrder
    <2> QED
      BY <2>1, <2>5, <2>6
  <1> QED
    BY <1>3, <1>4

(* An agenda that is begun anew.                                             *)
Heavy == {"alloc", "nextPmt", "leaveTs", "after"}
Easy(s, names) == s \in Seq(Items) /\ \A q \in Steps(s) : q \in Items /\ q[1] \in names

LEMMA EasyJoined ==
  ASSUME NEW x, NEW y, NEW A, NEW B, Easy(x, A), Easy(y, B), Paired(x), Paired(y),
         B \cap Heavy = {}, A \cap LoopSteps = {} \/ B \cap LoopSteps = {}, "after" \notin A
  PROVE  Easy(x \o y, A \cup B) /\ Paired(x \o y) /\ Steps(x \o y) = Steps(x) \cup Steps(y)
  <1>1. x \in Seq(Items) /\ y \in Seq(Items)
    BY DEF Easy
  <1>2. \A p \in Steps(x), q \in Steps(y) : Precedes(p, q)
    BY DEF Easy, Heavy, Precedes
  <1>3. x \o y \in Seq(Items) /\ Paired(x \o y) /\ Steps(x \o y) = Steps(x) \cup Steps(y)
    BY <1>1, <1>2, StepsJoined
  <1> QED
    BY <1>3 DEF Easy

LEMMA EasyPlain ==
  ASSUME NEW name \in PlainSteps
  PROVE  Easy(<<S(name, "")>>, {name}) /\ Paired(<<S(name, "")>>)
  BY LedStep DEF Led, Easy

LEMMA ServiceSteps ==
  ASSUME NEW b \in SUBSET (Tables \cup {"START", "FEND", "QUIT"})
  PROVE  /\ ServiceOf(b) \in Seq(Items) /\ Paired(ServiceOf(b))
         /\ \A q \in Steps(ServiceOf(b)) :
              /\ q \in Items
              /\ \/ q[1] \in {"begin", "fend", "quit", "endBatch"}
                 \/ q[1] = "tables" /\ q[2] = b \cap Tables
  <1> DEFINE If(flag, step) == IF flag \in b THEN <<S(step, "")>> ELSE <<>>
             p1 == If("START", "begin")
             p2 == If("FEND", "fend")
             p3 == Loop("tables", b \cap Tables)
             p4 == <<S(IF "QUIT" \in b THEN "quit" ELSE "endBatch", "")>>
  <1>1. ServiceOf(b) = ((p1 \o p2) \o p3) \o p4
    BY Zenon DEF ServiceOf
  <1>2. {"begin", "fend", "quit", "endBatch"} \subseteq PlainSteps
    BY DEF PlainSteps
  <1>3. \A name \in {"begin", "fend", "quit", "endBatch"} :
          Easy(<<S(name, "")>>, {name}) /\ Paired(<<S(name, "")>>)
    BY <1>2, EasyPlain
  <1>4. \A A : Easy(<<>>, A) /\ Paired(<<>>)
    BY StepsFew DEF Easy
  <1>5. /\ Easy(p1, {"begin"}) /\ Paired(p1) /\ Easy(p2, {"fend"}) /\ Paired(p2)
    BY <1>3, <1>4
  <1>6. Easy(p4, {"quit", "endBatch"}) /\ Paired(p4)
    <2>1. Easy(p4, {"quit"}) \/ Easy(p4, {"endBatch"})
      BY <1>3
    <2>2. Paired(p4)
      BY <1>3
    <2> QED
      BY <2>1, <2>2 DEF Easy
  <1>7. /\ Easy(p3, {"tables"}) /\ Paired(p3)
        /\ \A q \in Steps(p3) : q[1] = "tables" /\ q[2] = b \cap Tables
    BY LoopAlone DEF Easy, LoopSteps
  <1> HIDE DEF p1, p2, p3, p4
  <1>8. PICK x : x = p1 \o p2
    OBVIOUS
  <1>9. Easy(x, {"begin"} \cup {"fend"}) /\ Paired(x)
    <2>1. {"fend"} \cap Heavy = {} /\ {"fend"} \cap LoopSteps = {} /\ "after" \notin {"begin"}
      BY DEF Heavy, LoopSteps
    <2> QED
      BY <1>5, <1>8, <2>1, EasyJoined
  <1>10. PICK y : y = x \o p3
    OBVIOUS
  <1>11. /\ Easy(y, ({"begin"} \cup {"fend"}) \cup {"tables"}) /\ Paired(y)
         /\ Steps(y) = Steps(x) \cup Steps(p3)
    <2>1. /\ {"tables"} \cap Heavy = {} /\ ({"begin"} \cup {"fend"}) \cap LoopSteps = {}
          /\ "after" \notin {"begin"} \cup {"fend"}
      BY DEF Heavy, LoopSteps
    <2> QED
      BY <1>7, <1>9, <1>10, <2>1, EasyJoined
  <1>12. PICK z : z = y \o p4
    OBVIOUS
  <1>13. /\ Easy(z, (({"begin"} \cup {"fend"}) \cup {"tables"}) \cup {"quit", "endBatch"})
         /\ Paired(z) /\ Steps(z) = Steps(y) \cup Steps(p4)
    <2>1. /\ {"quit", "endBatch"} \cap Heavy = {} /\ {"quit", "endBatch"} \cap LoopSteps = {}
          /\ "after" \notin ({"begin"} \cup {"fend"}) \cup {"tables"}
      BY DEF Heavy, LoopSteps
    <2> QED
      BY <1>6, <1>11, <1>12, <2>1, EasyJoined
  <1>14. ServiceOf(b) = z
    BY <1>1, <1>8, <1>10, <1>12
  <1>15. \A q \in Steps(z) : q \in Items /\ (q \in Steps(p3) \/ q[1] \in {"begin", "fend", "quit", "endBatch"})
    BY <1>6, <1>9, <1>11, <1>13 DEF Easy
  <1> QED
    BY <1>7, <1>13, <1>14, <1>15 DEF Easy

LEMMA TimeoutsFew ==
  ASSUME NEW o \in SUBSET Tables
  PROVE  Easy(TimeoutSteps(o), {"checks", "tsComplete"}) /\ Paired(TimeoutSteps(o))
  <1>1. PICK x, y : x = Loop("checks", o \cap Checked) /\ y = <<S("tsComplete", "")>>
    OBVIOUS
  <1>2. Easy(x, {"checks"}) /\ Paired(x)
    BY <1>1, LoopAlone DEF Easy, LoopSteps
  <1>3. Easy(y, {"tsComplete"}) /\ Paired(y)
    BY <1>1, EasyPlain DEF PlainSteps
  <1>4. /\ {"tsComplete"} \cap Heavy = {} /\ {"tsComplete"} \cap LoopSteps = {}
        /\ "after" \notin {"checks"}
    BY DEF Heavy, LoopSteps
  <1>5. Easy(x \o y, {"checks"} \cup {"tsComplete"}) /\ Paired(x \o y)
    BY <1>2, <1>3, <1>4, EasyJoined
  <1>6. {"checks"} \cup {"tsComplete"} = {"checks", "tsComplete"}
    OBVIOUS
  <1> QED
    BY <1>1, <1>5, <1>6 DEF TimeoutSteps

LEMMA OrderAnew ==
  ASSUME OrderInv, MovesInv', Paired(todo'), \A q \in Steps(todo') : q[1] # "after",
         todo # <<>> => Head(todo)[1] \notin {"sync", "exitSync"}, UNCHANGED st,
         \A q \in Steps(todo') : q[1] \in Waits => batch' = {}, life' = "none" => batch' = {}
  PROVE  OrderInv'
  <1>1. AfterFree'
    BY DEF AfterFree, Pending
  <1>2. Synced'
    BY DEF OrderInv, Synced, At
  <1>3. Rested'
    BY DEF Rested, Pending, Waits
  <1> QED
    BY <1>1, <1>2, <1>3 DEF OrderInv

Anew(names) == \A q \in Steps(todo') : q \in Items /\ q[1] \in names
Serving(b) ==
  \A q \in Steps(todo') :
    /\ q \in Items
    /\ \/ q[1] \in {"begin", "fend", "quit", "endBatch"}
       \/ q[1] = "tables" /\ q[2] = b \cap Tables

LEMMA RoundsOrder ==
  ASSUME OrderInv, MovesInv'
  PROVE  /\ TsComplete => /\ OrderInv' /\ Anew({"nextTs", "wait"})
                          /\ (stage = "TS" /\ recv = {}) \/ Anew({"wait"})
         /\ Wake \/ SpuriousWake => OrderInv' /\ Serving(evt) /\ batch = {}
         /\ WaitTimesOut => OrderInv' /\ Anew({"checks", "tsComplete"}) /\ batch = {}
         /\ EndBatch => /\ OrderInv' /\ evt' \ batch' = {}
                        /\ Serving(evt') \/ Anew({"checks", "tsComplete"})
  <1>1. evt \in SUBSET (Tables \cup {"START", "FEND", "QUIT"}) /\ (todo # <<>> => life = "live")
    BY DEF OrderInv, MovesInv, IInv, TypeOK, Living
  <1>2. todo # <<>> /\ Head(todo)[1] \in Waits => batch = {}
    <2>1. todo # <<>> => Head(todo) \in Pending
      BY RestIs
    <2> QED
      BY <2>1 DEF OrderInv, Rested, Waits
  <1>3. ASSUME NEW b \in SUBSET evt, todo' = ServiceOf(b), todo # <<>>, Head(todo)[1] \notin {"sync", "exitSync"},
               UNCHANGED <<st, life>>
        PROVE  OrderInv' /\ Serving(b)
    <2>1. PICK x : x = ServiceOf(b)
      OBVIOUS
    <2>2. /\ x \in Seq(Items) /\ Paired(x)
          /\ \A q \in Steps(x) :
               /\ q \in Items
               /\ \/ q[1] \in {"begin", "fend", "quit", "endBatch"}
                  \/ q[1] = "tables" /\ q[2] = b \cap Tables
      BY <1>1, <2>1, ServiceSteps
    <2>3. \A q \in Steps(x) : q[1] \notin Waits \cup {"after"}
      BY <2>2 DEF Waits
    <2>4. life' # "none"
      BY <1>1, <1>3
    <2>5. OrderInv'
      BY <1>3, <2>1, <2>2, <2>3, <2>4, OrderAnew
    <2> QED
      BY <1>3, <2>1, <2>2, <2>5 DEF Serving
  <1>4. ASSUME NEW x, NEW names, Easy(x, names), Paired(x), "after" \notin names, todo' = x,
               todo # <<>>, Head(todo)[1] \notin {"sync", "exitSync"}, UNCHANGED <<st, life>>, batch' = {}
        PROVE  OrderInv' /\ Anew(names)
    <2>1. \A q \in Steps(x) : q \in Items /\ q[1] \in names
      BY <1>4 DEF Easy
    <2>2. OrderInv'
      BY <1>4, <2>1, OrderAnew
    <2> QED
      BY <1>4, <2>1, <2>2 DEF Anew
  <1>5. ASSUME TsComplete
        PROVE  /\ OrderInv' /\ Anew({"nextTs", "wait"})
               /\ (stage = "TS" /\ recv = {}) \/ Anew({"wait"})
    <2>1. PICK w, n : w = <<S("wait", "")>> /\ n = NextTs
      OBVIOUS
    <2>2. /\ todo # <<>> /\ Head(todo)[1] = "tsComplete" /\ UNCHANGED <<st, life, batch>>
          /\ todo' = w \/ (todo' = n \o w /\ stage = "TS" /\ recv = {})
      BY <1>5, <2>1 DEF TsComplete, At, app, demux
    <2>3. Easy(w, {"wait"}) /\ Paired(w) /\ Easy(n, {"nextTs"}) /\ Paired(n)
      BY <2>1, EasyPlain DEF NextTs, PlainSteps
    <2>4. batch' = {}
      BY <1>2, <2>2 DEF Waits
    <2>5. CASE todo' = w
      <3>1. OrderInv' /\ Anew({"wait"})
        BY <1>4, <2>2, <2>3, <2>4, <2>5
      <3> QED
        BY <3>1 DEF Anew
    <2>6. CASE todo' = n \o w /\ stage = "TS" /\ recv = {}
      <3>1. PICK x : x = n \o w
        OBVIOUS
      <3>2. {"wait"} \cap Heavy = {} /\ {"wait"} \cap LoopSteps = {} /\ "after" \notin {"nextTs"}
        BY DEF Heavy, LoopSteps
      <3>3. Easy(x, {"nextTs"} \cup {"wait"}) /\ Paired(x)
        BY <2>3, <3>1, <3>2, EasyJoined
      <3>4. {"nextTs"} \cup {"wait"} = {"nextTs", "wait"}
        OBVIOUS
      <3>5. OrderInv' /\ Anew({"nextTs", "wait"})
        BY <1>4, <2>2, <2>4, <2>6, <3>1, <3>3, <3>4
      <3> QED
        BY <2>6, <3>5
    <2> QED
      BY <2>2, <2>5, <2>6
  <1>6. Wake \/ SpuriousWake => OrderInv' /\ Serving(evt) /\ batch = {}
    <2> SUFFICES ASSUME Wake \/ SpuriousWake PROVE OrderInv' /\ Serving(evt) /\ batch = {}
      OBVIOUS
    <2>1. /\ todo # <<>> /\ Head(todo)[1] = "wait" /\ UNCHANGED <<st, life>>
          /\ todo' = ServiceOf(evt)
      BY DEF Wake, SpuriousWake, WakeWhen, Serve, At, app, demux
    <2> QED
      BY <1>2, <1>3, <2>1 DEF Waits
  <1>7. ASSUME NEW o \in SUBSET Tables, todo' = TimeoutSteps(o), todo # <<>>, batch' = {},
               Head(todo)[1] \notin {"sync", "exitSync"}, UNCHANGED <<st, life>>
        PROVE  OrderInv' /\ Anew({"checks", "tsComplete"})
    <2>1. PICK x : x = TimeoutSteps(o)
      OBVIOUS
    <2> QED
      BY <1>4, <1>7, <2>1, TimeoutsFew
  <1>8. over \in SUBSET Tables
    BY DEF OrderInv, MovesInv, IInv, TypeOK
  <1>9. WaitTimesOut => OrderInv' /\ Anew({"checks", "tsComplete"}) /\ batch = {}
    <2> SUFFICES ASSUME WaitTimesOut PROVE OrderInv' /\ Anew({"checks", "tsComplete"}) /\ batch = {}
      OBVIOUS
    <2>1. /\ todo # <<>> /\ Head(todo)[1] = "wait" /\ UNCHANGED <<st, life, batch>>
          /\ todo' = TimeoutSteps(over') /\ over' \in SUBSET Tables
      BY <1>8 DEF WaitTimesOut, At, app, demux
    <2> QED
      BY <1>2, <1>7, <2>1 DEF Waits
  <1>10. EndBatch => /\ OrderInv' /\ evt' \ batch' = {}
                     /\ Serving(evt') \/ Anew({"checks", "tsComplete"})
    <2> SUFFICES ASSUME EndBatch
                 PROVE  /\ OrderInv' /\ evt' \ batch' = {}
                        /\ Serving(evt') \/ Anew({"checks", "tsComplete"})
      OBVIOUS
    <2>1. /\ todo # <<>> /\ Head(todo)[1] = "endBatch" /\ UNCHANGED <<st, life>>
          /\ over' \in SUBSET Tables /\ evt' \subseteq evt
          /\ \/ evt' = {} /\ todo' = TimeoutSteps(over') /\ batch' = {}
             \/ todo' = ServiceOf(evt') /\ batch' = evt'
      BY <1>8 DEF EndBatch, At, app, demux
    <2> QED
      BY <1>3, <1>7, <2>1
  <1> QED
    BY <1>5, <1>6, <1>9, <1>10

(* Steps on filters.                                                         *)
FilterTaken(u) ==
  \E f \in FilterIds :
    /\ Free(f) /\ \A t \in Tables : fid'[t] = IF t = u THEN f ELSE fid[t]
    /\ \A g \in FilterIds : st'[Self][g] = IF g = f THEN "held" ELSE st[Self][g]

LEMMA FreeOrder ==
  ASSUME OrderInv, MovesInv', FreeFilter
  PROVE  /\ OrderInv' /\ New({"sync"}) /\ Arg \in Tables
         /\ \A t \in Tables : fid'[t] = IF t = Arg THEN -1 ELSE fid[t]
         /\ armed' = armed \ {Arg} \/ (armed' = armed /\ fid[Arg] = -1)
  <1>1. /\ todo # <<>> /\ Head(todo)[1] = "free" /\ Arg \in Tables /\ Arg = Head(todo)[2]
        /\ UNCHANGED <<batch, life>>
    BY HeadIs DEF FreeFilter, At, Arg, OrderInv, MovesInv, IInv, TableSteps, app
  <1>2. /\ Rest \in Seq(Items) /\ Paired(Rest) /\ Pending = {Head(todo)} \cup Steps(Rest)
        /\ Pending \subseteq Items /\ \A q \in Steps(Rest) : Precedes(Head(todo), q)
    BY <1>1, RestIs
  <1>3. fid \in [Tables -> FilterIds \cup {-1, 0}]
    BY DemuxTyped DEF OrderInv, MovesInv
  <1>4. \A q \in Steps(Rest) : q[1] = "after" => q[2] \in Tables
    BY <1>2 DEF Items, TableSteps, LoopItems, LoopSteps, PlainSteps, Last
  <1>5. \A t \in Tables : fid'[t] = IF t = Arg THEN -1 ELSE fid[t]
    <2>1. \/ fid[Arg] = -1 /\ fid' = fid
          \/ fid' = [fid EXCEPT ![Arg] = -1]
      BY DEF FreeFilter
    <2> QED
      BY <1>1, <1>3, <2>1
  <1>6. \A q \in Steps(Rest) : q[1] = "after" => fid'[q[2]] = -1
    <2>1. ASSUME NEW q \in Steps(Rest), q[1] = "after" PROVE fid[q[2]] = -1 \/ q[2] = Arg
      BY <1>2, <2>1 DEF OrderInv, AfterFree
    <2> QED
      BY <1>1, <1>4, <1>5, <2>1
  <1>7. \A q \in Steps(Rest) : q[1] \in Waits => batch = {}
    BY <1>2 DEF OrderInv, Rested, Waits
  <1>8. life = "live"
    BY <1>1 DEF OrderInv, MovesInv, IInv, Living
  <1>9. CASE fid[Arg] = -1
    <2>1. todo' = Rest /\ st' = st /\ armed' = armed
      BY <1>9 DEF FreeFilter
    <2>2. Synced'
      BY <1>1, <2>1 DEF OrderInv, Synced, At
    <2>3. AfterFree' /\ Rested'
      BY <1>1, <1>6, <1>7, <1>8, <2>1 DEF AfterFree, Rested, Pending, Waits
    <2>4. New({"sync"})
      BY <1>2, <2>1 DEF New
    <2> QED
      BY <1>1, <1>2, <1>5, <1>9, <2>1, <2>2, <2>3, <2>4 DEF OrderInv
  <1>10. CASE fid[Arg] # -1
    <2>1. PICK s \in Items : s = S("sync", "") /\ s[1] = "sync"
      <3>1. S("sync", "") \in Items /\ S("sync", "")[1] = "sync"
        BY StepIs DEF PlainSteps
      <3> QED
        BY <3>1
    <2>2. todo' = <<s>> \o Rest /\ armed' = armed \ {Arg}
      BY <1>10, <2>1 DEF FreeFilter, Then
    <2>3. Steps(<<s>>) = {s} /\ Paired(<<s>>) /\ <<s>> \in Seq(Items)
      BY StepsFew
    <2>4. \A q \in Steps(Rest) : Precedes(s, q)
      BY <1>1, <1>2, <2>1 DEF Precedes, Short, LoopSteps
    <2>5. PICK y : y = <<s>>
      OBVIOUS
    <2>6. Paired(todo') /\ Steps(todo') = {s} \cup Steps(Rest)
      BY <1>2, <2>2, <2>3, <2>4, <2>5, StepsJoined
    <2>7. todo' # <<>> /\ Head(todo') = s
      BY <1>2, <2>2
    <2>8. Synced'
      BY <2>1, <2>7 DEF Synced, At
    <2>9. AfterFree' /\ Rested'
      BY <1>1, <1>6, <1>7, <1>8, <2>1, <2>6 DEF AfterFree, Rested, Pending, Waits
    <2>10. New({"sync"})
      BY <1>2, <2>1, <2>6 DEF New
    <2> QED
      BY <1>1, <1>5, <2>2, <2>6, <2>8, <2>9, <2>10 DEF OrderInv
  <1> QED
    BY <1>9, <1>10

LEMMA SyncOrder ==
  ASSUME OrderInv, MovesInv', Sync
  PROVE  OrderInv' /\ New({})
  <1>1. /\ todo # <<>> /\ Head(todo)[1] = "sync" /\ todo' = Rest
        /\ UNCHANGED <<fid, batch, life>> /\ Dmx!SyncEnd(Self, "freed")
    BY DEF Sync, At, app, tables
  <1>2. /\ Paired(Rest) /\ Pending = {Head(todo)} \cup Steps(Rest) /\ Pending \subseteq Items
    BY <1>1, RestIs
  <1>3. \A f \in FilterIds : st'[Self][f] # "freed"
    BY <1>1, SyncEnds DEF OrderInv, MovesInv
  <1>4. Synced' /\ AfterFree' /\ Rested'
    BY <1>1, <1>2, <1>3 DEF Synced, AfterFree, Rested, Pending, OrderInv, At
  <1> QED
    BY <1>1, <1>2, <1>4 DEF OrderInv, New

LEMMA AllocateOrder ==
  ASSUME OrderInv, MovesInv', AllocateFilter
  PROVE  /\ OrderInv' /\ New({}) /\ Arg \in Tables /\ fid[Arg] = -1 /\ started
         /\ \A f \in FilterIds : st[Self][f] # "freed"
         /\ \/ /\ FilterTaken(Arg) /\ armed' = armed \cup {Arg} /\ recv' = recv \cup {Arg}
            \/ FilterTaken(Arg) /\ UNCHANGED <<armed, recv>>
            \/ UNCHANGED <<fid, st, armed, recv>>
  <1>1. /\ todo # <<>> /\ Head(todo)[1] = "alloc" /\ Arg \in Tables /\ Arg = Head(todo)[2]
        /\ todo' = Rest /\ UNCHANGED <<batch, life>>
    BY HeadIs DEF AllocateFilter, At, Arg, OrderInv, MovesInv, IInv, TableSteps, app
  <1>2. /\ Rest \in Seq(Items) /\ Paired(Rest) /\ Pending = {Head(todo)} \cup Steps(Rest)
        /\ Pending \subseteq Items /\ \A q \in Steps(Rest) : Precedes(Head(todo), q)
    BY <1>1, RestIs
  <1>3. fid[Arg] = -1 /\ started
    <2>1. InOrder(todo, fid) /\ todo[1] = Head(todo) /\ 1 \in 1..Len(todo) /\ started
      BY <1>1, AtWork, AfterHead DEF OrderInv, MovesInv
    <2>2. Ready(todo, fid, 1)
      BY <2>1 DEF InOrder
    <2> QED
      BY <1>1, <2>1, <2>2 DEF Ready, Freed
  <1>4. \A f \in FilterIds : st[Self][f] # "freed"
    BY <1>1 DEF OrderInv, Synced, At
  <1>5. PICK u \in Tables : u = Arg
    BY <1>1
  <1>6. ASSUME NEW f \in FilterIds, Free(f), Dmx!Take(Self, f), fid' = [fid EXCEPT ![u] = f]
        PROVE  FilterTaken(u)
    <2>1. \A t \in Tables : fid'[t] = IF t = u THEN f ELSE fid[t]
      BY <1>6, DemuxTyped DEF OrderInv, MovesInv
    <2>2. \A g \in FilterIds : st'[Self][g] = IF g = f THEN "held" ELSE st[Self][g]
      <3>1. st[Self] \in [FilterIds -> Dmx!Status] /\ st \in [{Self} -> [FilterIds -> Dmx!Status]]
        BY DemuxTyped DEF OrderInv, MovesInv
      <3>2. st' = [st EXCEPT ![Self] = [st[Self] EXCEPT ![f] = "held"]]
        BY <1>6 DEF Dmx!Take
      <3>3. st'[Self] = [st[Self] EXCEPT ![f] = "held"]
        BY <3>1, <3>2
      <3> QED
        BY <3>1, <3>3
    <2> QED
      BY <1>6, <2>1, <2>2 DEF FilterTaken
  <1>7. \/ FilterTaken(u) /\ armed' = armed \cup {u} /\ recv' = recv \cup {u}
        \/ FilterTaken(u) /\ UNCHANGED <<armed, recv>>
        \/ UNCHANGED <<fid, st, armed, recv>>
    <2>1. \/ \E f \in FilterIds :
               /\ Free(f) /\ Dmx!Take(Self, f) /\ fid' = [fid EXCEPT ![Arg] = f]
               /\ armed' = armed \cup {Arg} /\ recv' = recv \cup {Arg}
          \/ \E f \in FilterIds :
               /\ Free(f) /\ Dmx!Take(Self, f) /\ fid' = [fid EXCEPT ![Arg] = f]
               /\ UNCHANGED <<armed, recv>>
          \/ UNCHANGED <<fid, st, armed, recv>>
      BY Zenon DEF AllocateFilter
    <2> QED
      BY <1>5, <1>6, <2>1
  <1>8. \A f \in FilterIds : st'[Self][f] # "freed"
    BY <1>4, <1>7 DEF FilterTaken
  <1>9. \A q \in Steps(Rest) : q[1] # "after"
    BY <1>1, <1>2 DEF Precedes
  <1>10. Synced' /\ AfterFree' /\ Rested'
    BY <1>1, <1>2, <1>8, <1>9 DEF Synced, AfterFree, Rested, Pending, OrderInv, At
  <1>11. OrderInv' /\ New({})
    BY <1>1, <1>2, <1>10 DEF OrderInv, New
  <1> QED
    BY <1>1, <1>3, <1>4, <1>5, <1>7, <1>11

(* The beginning and the end of the thread.                                  *)
Last2 == Last \cup {"signal"}

LEMMA BeginOrder ==
  ASSUME OrderInv, MovesInv'
  PROVE  /\ Begin => OrderInv' /\ New({"signal", "start"})
         /\ StartScan => /\ OrderInv' /\ New({"tryNit", "nextTs"})
                         /\ mode.auto \/ New({"nextTs"})
                         /\ ~started /\ \A t \in Tables : fid'[t] = -1
  <1>1. /\ {"start", "tryNit", "nextTs", "signal"} \cap (LoopSteps \cup Waits \cup {"after"}) = {}
        /\ "start" \in PlainSteps /\ "tryNit" \in PlainSteps /\ "nextTs" \in PlainSteps
    BY DEF LoopSteps, Waits, PlainSteps
  <1>2. ASSUME Begin PROVE OrderInv' /\ New({"signal", "start"})
    <2>1. /\ todo # <<>> /\ Head(todo)[1] = "begin" /\ UNCHANGED <<fid, st, batch, life>>
          /\ \/ todo' = <<>> \o Rest
             \/ todo' = (Signal("SCAN_BEGIN") \o <<S("start", "")>>) \o Rest
      BY <1>2, Zenon DEF Begin, At, Then, tables, demux, app
    <2>2. Head(todo)[1] \notin Short \cup {"leaveTs", "exitSync"}
      BY <2>1 DEF Short
    <2>3. CASE todo' = <<>> \o Rest
      <3>1. Led(<<>>, {"signal", "start"})
        BY StepsFew DEF Led
      <3> QED
        BY <1>1, <2>1, <2>2, <2>3, <3>1, Pushed
    <2>4. CASE todo' = (Signal("SCAN_BEGIN") \o <<S("start", "")>>) \o Rest
      <3>1. PICK x, z : x = Signal("SCAN_BEGIN") /\ z = <<S("start", "")>>
        OBVIOUS
      <3>2. Led(x, {"signal"}) /\ Led(z, {"start"})
        BY <1>1, <3>1, LedSignal, LedStep DEF Events
      <3>3. PICK y : y = x \o z
        OBVIOUS
      <3>4. Led(y, {"signal", "start"}) /\ todo' = y \o Rest
        <4>1. Led(y, {"start"} \cup {"signal"}) /\ {"start"} \cup {"signal"} = {"signal", "start"}
          BY <3>2, <3>3, LedFirst
        <4> QED
          BY <2>4, <3>1, <3>3, <4>1
      <3> QED
        BY <1>1, <2>1, <2>2, <3>4, Pushed
    <2> QED
      BY <2>1, <2>3, <2>4
  <1>3. ASSUME StartScan
        PROVE  /\ OrderInv' /\ New({"tryNit", "nextTs"})
               /\ mode.auto \/ New({"nextTs"})
               /\ ~started /\ \A t \in Tables : fid'[t] = -1
    <2>1. PICK name \in {"tryNit", "nextTs"} :
            /\ todo # <<>> /\ Head(todo)[1] = "start" /\ UNCHANGED <<st, batch, life>>
            /\ todo' = <<S(name, "")>> \o Rest /\ (mode.auto \/ name = "nextTs")
            /\ fid' = [t \in Tables |-> -1]
      <3>1. /\ todo # <<>> /\ Head(todo)[1] = "start" /\ UNCHANGED <<st, batch, life>>
            /\ fid' = [t \in Tables |-> -1]
            /\ \/ mode.auto /\ todo' = <<S("tryNit", "")>> \o Rest
               \/ todo' = <<S("nextTs", "")>> \o Rest
        BY <1>3, Zenon DEF StartScan, At, Then, demux, app, NextTs
      <3> QED
        BY <3>1
    <2>2. PICK x : x = <<S(name, "")>>
      OBVIOUS
    <2>3. Led(x, {name})
      BY <1>1, <2>2, LedStep
    <2>4. Paired(todo') /\ Steps(todo') = Steps(x) \cup Steps(Rest) /\ Steps(todo') \subseteq Items
      <3>1. Head(todo)[1] \notin Short \cup {"leaveTs"}
        BY <2>1 DEF Short
      <3>2. \A p \in Steps(x) : p[1] \notin LoopSteps \cup {"after"}
        BY <1>1, <2>3 DEF Led
      <3>3. x \in Seq(Items) /\ Paired(x)
        BY <2>3 DEF Led
      <3> QED
        BY <2>1, <2>2, <3>1, <3>2, <3>3, Push
    <2>5. \A q \in Steps(Rest) : q[1] # "after"
      <3>1. Head(todo)[1] \notin Short \cup {"leaveTs"}
        BY <2>1 DEF Short
      <3> QED
        BY <2>1, <3>1, RestIs DEF Tame
    <2>6. \A q \in Steps(todo') : q[1] # "after" /\ (q[1] \in Waits => batch' = {})
      <3>1. \A q \in Steps(x) : q[1] # "after" /\ q[1] \notin Waits
        BY <1>1, <2>3 DEF Led
      <3>2. \A q \in Steps(Rest) : q[1] \in Waits => batch' = {}
        BY <2>1, RestIs DEF OrderInv, Rested, Waits
      <3> QED
        BY <2>4, <2>5, <3>1, <3>2
    <2>7. life' # "none"
      BY <2>1 DEF OrderInv, MovesInv, IInv, Living
    <2>8. OrderInv'
      BY <2>1, <2>4, <2>6, <2>7, OrderAnew
    <2>9. New({"tryNit", "nextTs"}) /\ (mode.auto \/ New({"nextTs"}))
      BY <2>1, <2>3, <2>4 DEF New, Led
    <2>10. ~started
      <3>1. todo[1] = Head(todo) /\ 1 \in 1..Len(todo)
        BY <2>1, AfterHead DEF OrderInv
      <3> QED
        BY <2>1, <3>1 DEF OrderInv, MovesInv, IInv, Starting, Lacks, TypeOK
    <2> QED
      BY <2>1, <2>8, <2>9, <2>10
  <1> QED
    BY <1>2, <1>3

LEMMA EasyPaired ==
  ASSUME NEW s, NEW names, Easy(s, names), names \cap (Heavy \cup LoopSteps) = {}
  PROVE  Paired(s)
  <1>1. \A i \in 1..Len(s) : s[i][1] \in names
    BY DEF Easy, Steps
  <1>2. \A n \in names : n \notin Heavy \cup LoopSteps /\ n # "tables"
    BY DEF LoopSteps
  <1> QED
    BY <1>1, <1>2 DEF Paired, Precedes, Heavy

LEMMA CleanUpSteps ==
  /\ Easy(CleanUp, Last2) /\ Easy(Tail(CleanUp), Last2) /\ Easy(Tail(Tail(CleanUp)), Last2)
  /\ Easy(<<S("release", "")>>, Last2) /\ Easy(<<>>, Last2)
  /\ Easy(<<S("signal", "STORE_BEGIN"), S("signal", "STORE_END")>> \o CleanUp, Last2)
  <1>1. Easy(CleanUp, Last2) /\ Easy(<<>>, Last2)
    <2>1. PICK s \in Seq(Items) : s = CleanUp /\ Only(s, Last)
      BY CleanUpIs
    <2>2. \A q \in Steps(s) : q \in Items /\ q[1] \in Last2
      BY <2>1 DEF Only, Steps, Last2
    <2> QED
      BY <2>1, <2>2, StepsFew DEF Easy
  <1>2. ASSUME NEW s \in Seq(Items), s # <<>>, Easy(s, Last2) PROVE Easy(Tail(s), Last2)
    BY <1>2, StepsTail, TailIs DEF Easy
  <1>3. /\ CleanUp \in Seq(Items) /\ CleanUp # <<>>
        /\ Tail(CleanUp) \in Seq(Items) /\ Tail(CleanUp) # <<>>
        /\ Tail(Tail(CleanUp)) \in Seq(Items) /\ Tail(Tail(CleanUp)) # <<>>
        /\ Tail(Tail(Tail(CleanUp))) = <<S("release", "")>>
    BY CleanUpIs
  <1>4. Easy(Tail(CleanUp), Last2) /\ Easy(Tail(Tail(CleanUp)), Last2) /\ Easy(<<S("release", "")>>, Last2)
    BY <1>1, <1>2, <1>3
  <1>5. PICK b, e \in Items : /\ b = S("signal", "STORE_BEGIN") /\ e = S("signal", "STORE_END")
                              /\ b[1] = "signal" /\ e[1] = "signal"
    <2>1. /\ S("signal", "STORE_BEGIN") \in Items /\ S("signal", "STORE_END") \in Items
          /\ S("signal", "STORE_BEGIN")[1] = "signal" /\ S("signal", "STORE_END")[1] = "signal"
      BY DEF S, Items, Events
    <2> QED
      BY <2>1
  <1>6. PICK p : p = <<b, e>>
    OBVIOUS
  <1>7. p \in Seq(Items) /\ Steps(p) = {b, e}
    BY <1>6, StepsFew
  <1>8. p \o CleanUp \in Seq(Items) /\ Steps(p \o CleanUp) = Steps(p) \cup Steps(CleanUp)
    BY <1>3, <1>7, StepsJoined
  <1>9. Easy(p \o CleanUp, Last2)
    BY <1>1, <1>5, <1>7, <1>8 DEF Easy, Last2
  <1> QED
    BY <1>1, <1>4, <1>5, <1>6, <1>9

LEMMA LastOrder ==
  ASSUME OrderInv, MovesInv', Quit \/ Unsubscribe \/ FreeAll \/ ExitSync \/ Release
  PROVE  OrderInv' /\ Anew(Last2)
  <1>1. /\ todo # <<>> /\ Head(todo)[1] \in Last \cup {"quit"} /\ UNCHANGED <<fid, batch>>
        /\ life' \in {life, "gone"}
    BY DEF Quit, Unsubscribe, FreeAll, ExitSync, Release, At, tables, app, Last
  <1>2. life' # "none"
    BY <1>1 DEF OrderInv, MovesInv, IInv, Living
  <1>3. IInv
    BY DEF OrderInv, MovesInv
  <1>4. Easy(todo', Last2)
    <2>1. CASE Quit
      BY <2>1, CleanUpSteps DEF Quit
    <2>2. CASE Unsubscribe
      <3>1. Head(todo)[1] = "unsubscribe" /\ "unsubscribe" \in Last /\ todo' = Rest
        BY <2>2 DEF Unsubscribe, At, Last
      <3> QED
        BY <1>1, <1>3, <3>1, LeavingIs, CleanUpSteps
    <2>3. CASE FreeAll
      <3>1. Head(todo)[1] = "freeAll" /\ "freeAll" \in Last /\ todo' = Rest
        BY <2>3 DEF FreeAll, At, Last
      <3> QED
        BY <1>1, <1>3, <3>1, LeavingIs, CleanUpSteps
    <2>4. CASE ExitSync
      <3>1. Head(todo)[1] = "exitSync" /\ "exitSync" \in Last /\ todo' = Rest
        BY <2>4 DEF ExitSync, At, Last
      <3> QED
        BY <1>1, <1>3, <3>1, LeavingIs, CleanUpSteps
    <2>5. CASE Release
      BY <2>5, CleanUpSteps DEF Release
    <2> QED
      BY <2>1, <2>2, <2>3, <2>4, <2>5
  <1>5. Paired(todo')
    <2>1. Last2 \cap (Heavy \cup LoopSteps) = {}
      BY DEF Last2, Last, Heavy, LoopSteps
    <2> QED
      BY <1>4, <2>1, EasyPaired
  <1>6. \A q \in Steps(todo') : q \in Items /\ q[1] \in Last2 /\ q[1] # "after" /\ q[1] \notin Waits
    BY <1>4 DEF Easy, Last2, Last, Waits
  <1>7. AfterFree' /\ Rested'
    BY <1>2, <1>6 DEF AfterFree, Rested, Pending, Waits
  <1>8. Synced'
    <2>1. CASE Quit \/ Unsubscribe \/ Release
      <3>1. st' = st /\ ~At("sync") /\ ~At("exitSync")
        BY <2>1 DEF Quit, Unsubscribe, Release, At, demux
      <3> QED
        BY <3>1 DEF OrderInv, Synced
    <2>2. CASE FreeAll
      <3>1. Head(todo)[1] = "freeAll" /\ "freeAll" \in Last /\ todo' = Rest
        BY <2>2 DEF FreeAll, At, Last
      <3>2. todo' = Tail(Tail(CleanUp))
        BY <1>1, <1>3, <3>1, LeavingIs
      <3>3. PICK x : x = S("exitSync", "") /\ x[1] = "exitSync"
        <4>1. S("exitSync", "")[1] = "exitSync"
          BY DEF S
        <4> QED
          BY <4>1
      <3>4. todo' # <<>> /\ Head(todo') = x
        BY <3>2, <3>3, CleanUpIs
      <3> QED
        BY <3>3, <3>4 DEF Synced, At
    <2>3. CASE ExitSync
      <3>1. \A f \in FilterIds : st'[Self][f] # "freed"
        BY <1>3, <2>3, SyncEnds DEF ExitSync
      <3> QED
        BY <3>1 DEF Synced
    <2> QED
      BY <2>1, <2>2, <2>3
  <1> QED
    BY <1>5, <1>6, <1>7, <1>8 DEF OrderInv, Anew

(* The handlers, the application and the frontend.                           *)
LEMMA OthersOrder ==
  ASSUME OrderInv, MovesInv',
         \/ \E f \in FilterIds : Deliver(f)
         \/ Handle \/ FendSignal \/ FendCallback \/ FendNobody \/ Start \/ Destroy \/ Join
         \/ UNCHANGED vars
  PROVE  OrderInv' /\ Pending' = Pending
  <1>1. UNCHANGED <<todo, fid, st, batch, life>>
    BY DEF Deliver, Handle, FendSignal, FendCallback, FendNobody, Start, Destroy, Join, vars, app,
           tables, demux, Dmx!Deliver, Dmx!Return
  <1>2. AfterFree' /\ Synced' /\ Rested' /\ Pending' = Pending
    BY <1>1 DEF OrderInv, AfterFree, Synced, Rested, Pending, At, Arg
  <1> QED
    BY <1>1, <1>2 DEF OrderInv

LEMMA SignalOrder ==
  ASSUME OrderInv, MovesInv', SignalEvent
  PROVE  OrderInv' /\ New({})
  <1>1. /\ todo # <<>> /\ Head(todo)[1] = "signal" /\ todo' = Rest
        /\ UNCHANGED <<fid, st, batch, life>>
    BY DEF SignalEvent, At, app, tables, demux
  <1> QED
    BY <1>1, Dropped

LEMMA CreateOrder ==
  ASSUME OrderInv, MovesInv', NEW m \in Modes, Create(m)
  PROVE  OrderInv' /\ Anew({"checks", "tsComplete"}) /\ todo = <<>>
  <1>1. life = "none" /\ life' = "live" /\ todo' = TimeoutSteps({}) /\ UNCHANGED <<st, batch>>
    BY DEF Create, demux
  <1>2. todo = <<>> /\ batch = {}
    BY <1>1 DEF OrderInv, MovesInv, IInv, Living, Rested
  <1>3. Easy(todo', {"checks", "tsComplete"}) /\ Paired(todo')
    BY <1>1, TimeoutsFew
  <1>4. \A q \in Steps(todo') : q \in Items /\ q[1] \in {"checks", "tsComplete"}
    BY <1>3 DEF Easy
  <1>5. OrderInv'
    BY <1>1, <1>2, <1>3, <1>4, OrderAnew
  <1> QED
    BY <1>2, <1>4, <1>5 DEF Anew

LEMMA OrderInit == Init => OrderInv
  <1> SUFFICES ASSUME Init PROVE OrderInv
    OBVIOUS
  <1>1. todo = <<>> /\ batch = {} /\ MovesInv
    BY MovesInit DEF Init
  <1>2. Pending = {} /\ Paired(todo)
    BY <1>1, StepsFew DEF Pending
  <1>3. \A f \in FilterIds : st[Self][f] # "freed"
    BY DEF Init, Dmx!Init
  <1> QED
    BY <1>1, <1>2, <1>3 DEF OrderInv, AfterFree, Synced, Rested

LEMMA OrderStep == OrderInv /\ [Next]_vars => OrderInv'
  <1> SUFFICES ASSUME OrderInv, [Next]_vars PROVE OrderInv'
    OBVIOUS
  <1>0. MovesInv'
    BY MovesStep DEF OrderInv
  <1>1. CASE FreeFilter \/ Sync \/ AllocateFilter \/ SignalEvent
    BY <1>0, <1>1, FreeOrder, SyncOrder, AllocateOrder, SignalOrder
  <1>2. CASE NitDone \/ BatDone
    BY <1>0, <1>2, NetworkOrder
  <1>3. CASE PatDone \/ CatDone \/ SdtDone \/ MgtDone \/ VctDone \/ PmtDone \/ NextPmt
    BY <1>0, <1>3, DonesOrder, NextPmtOrder
  <1>4. CASE TryNit \/ StartNextTs \/ LeaveTs \/ TuneNext \/ SetPara
    BY <1>0, <1>4, StagesOrder, TuneOrder
  <1>5. CASE SolveFendEvt \/ Unlocked \/ LockedNit \/ LockedTs
    BY <1>0, <1>5, FendOrder
  <1>6. CASE TablesDone \/ CheckTimeout
    BY <1>0, <1>6, LoopsOrder
  <1>7. CASE TsComplete \/ Wake \/ SpuriousWake \/ WaitTimesOut \/ EndBatch
    BY <1>0, <1>7, RoundsOrder
  <1>8. CASE Begin \/ StartScan
    BY <1>0, <1>8, BeginOrder
  <1>9. CASE Quit \/ Unsubscribe \/ FreeAll \/ ExitSync \/ Release
    BY <1>0, <1>9, LastOrder
  <1>10. CASE \/ \E f \in FilterIds : Deliver(f)
              \/ Handle \/ FendSignal \/ FendCallback \/ FendNobody \/ Start \/ Destroy \/ Join
              \/ UNCHANGED vars
    BY <1>0, <1>10, OthersOrder
  <1>11. ASSUME NEW m \in Modes, Create(m) PROVE OrderInv'
    BY <1>0, <1>11, CreateOrder
  <1> QED
    BY <1>1, <1>2, <1>3, <1>4, <1>5, <1>6, <1>7, <1>8, <1>9, <1>10, <1>11 DEF Next, ThreadStep

(* In which order the steps of the agenda can be pending (am_scan_thread):   *)
(* a table's filter is freed before the rest of its done function, a TS is   *)
(* left before the next frequency is taken, and tables are served in turn.   *)
THEOREM OrderInvariance == Spec => []OrderInv
  BY OrderInit, OrderStep, PTL DEF Spec

--------------------------------------------------------------------------------
(* Only tables that are waited for have a filter that runs or a handler at   *)
(* work, are completed, and have their done function called.                 *)
Expected ==
  /\ armed \subseteq recv /\ \A t \in armed : fid[t] # -1
  /\ call # None => \A t \in Tables : fid[t] = call[1] => t \in recv
WaitedFor ==
  "late" \notin mode.faults =>
    /\ \A t \in Tables : t \in evt \ batch => t \in recv
    /\ \A q \in Pending :
         /\ q[1] = "tables" => \A t \in q[2] : t \in recv /\ t \in batch
         /\ q[1] = "after" => q[2] \in recv /\ q[2] \notin evt \ batch

WaitsInv == OrderInv /\ Expected /\ WaitedFor

(* Steps that touch none of this, and those that plan no done function.      *)
Harmless ==
  /\ UNCHANGED <<mode, batch, fid, armed, call>>
  /\ \A t \in Tables : (t \in evt' <=> t \in evt) /\ (t \in recv' <=> t \in recv)
Unplanned == \A q \in Steps(todo') : q \in Pending \/ q[1] \notin {"tables", "after"}

LEMMA NewUnplanned ==
  ASSUME OrderInv, todo # <<>>
  PROVE  /\ \A names : New(names) /\ names \cap {"tables", "after"} = {} => Unplanned
         /\ \A names, T : NewFor(names, T) /\ names \cap {"tables", "after"} = {} => Unplanned
         /\ \A names : Anew(names) /\ names \cap {"tables", "after"} = {} => Unplanned
  <1>1. Steps(Rest) \subseteq Pending
    BY RestIs
  <1> QED
    BY <1>1 DEF New, NewFor, Anew, Unplanned

LEMMA TableNames ==
  /\ "fend" \notin Tables /\ "START" \notin Tables /\ "FEND" \notin Tables /\ "QUIT" \notin Tables
  /\ TsTables \subseteq Tables /\ "nit" \in Tables /\ "bat" \in Tables /\ Network \subseteq Tables
  /\ \A t \in Tables : t \in TsTables \/ t \in Network
  /\ TsTables \cap Network = {}
  BY DEF Tables, TsTables, Network

LEMMA NoHarm ==
  ASSUME WaitsInv, OrderInv', Harmless, Unplanned
  PROVE  WaitsInv'
  <1>1. armed \subseteq Tables
    BY DEF WaitsInv, OrderInv, MovesInv, IInv, TypeOK
  <1>2. Expected'
    BY <1>1 DEF WaitsInv, Expected, Harmless
  <1>3. WaitedFor'
    <2> SUFFICES ASSUME "late" \notin mode.faults
                 PROVE  /\ \A t \in Tables : t \in evt' \ batch => t \in recv'
                        /\ \A q \in Steps(todo') :
                             /\ q[1] = "tables" => \A t \in q[2] : t \in recv' /\ t \in batch
                             /\ q[1] = "after" => q[2] \in recv' /\ q[2] \notin evt' \ batch
      BY DEF WaitedFor, Pending, Harmless
    <2>1. \A t \in Tables : t \in evt' \ batch => t \in recv'
      BY DEF Harmless, WaitsInv, WaitedFor
    <2>2. ASSUME NEW q \in Steps(todo'), q[1] \in {"tables", "after"}
          PROVE  /\ q \in Items
                 /\ q[1] = "tables" => \A t \in q[2] : t \in recv /\ t \in batch
                 /\ q[1] = "after" => q[2] \in recv /\ q[2] \notin evt \ batch
      <3>1. q \in Pending /\ Pending \subseteq Items
        BY <2>2 DEF Unplanned, OrderInv, WaitsInv, MovesInv, IInv, Agenda, Steps, Pending
      <3> QED
        BY <3>1 DEF WaitsInv, WaitedFor
    <2>3. \A q \in Items : /\ q[1] = "tables" => q[2] \subseteq Tables
                           /\ q[1] = "after" => q[2] \in Tables
      BY DEF Items, TableSteps, LoopItems, LoopSteps, PlainSteps, Last
    <2> QED
      BY <2>1, <2>2, <2>3 DEF Harmless
  <1> QED
    BY <1>2, <1>3 DEF WaitsInv

LEMMA HarmlessSteps ==
  ASSUME WaitsInv, MovesInv',
         \/ Sync \/ SignalEvent \/ NextPmt \/ TryNit \/ StartNextTs \/ LeaveTs \/ TuneNext \/ SetPara
         \/ SolveFendEvt \/ Unlocked \/ LockedNit \/ LockedTs \/ TsComplete \/ Begin
         \/ Quit \/ Unsubscribe \/ ExitSync \/ Release
  PROVE  WaitsInv'
  <1>1. todo # <<>>
    BY DEF Sync, SignalEvent, NextPmt, TryNit, StartNextTs, LeaveTs, TuneNext, SetPara, SolveFendEvt,
           Unlocked, LockedNit, LockedTs, TsComplete, Begin, Quit, Unsubscribe, ExitSync, Release, At
  <1>2. Harmless
    <2>1. CASE \/ Sync \/ NextPmt \/ TryNit \/ StartNextTs \/ LeaveTs \/ TuneNext
               \/ Unlocked \/ LockedNit \/ LockedTs \/ TsComplete \/ Begin
               \/ Quit \/ Unsubscribe \/ ExitSync \/ Release
      BY <2>1 DEF Sync, NextPmt, TryNit, StartNextTs, LeaveTs, TuneNext, Unlocked, LockedNit,
                  LockedTs, TsComplete, Begin, Quit, Unsubscribe, ExitSync, Release, Harmless, app,
                  tables, demux, Dmx!SyncEnd
    <2>2. CASE SignalEvent
      <3>1. UNCHANGED <<mode, batch, fid, armed, call, recv>> /\ evt' \in {evt, evt \cup {"QUIT"}}
        BY <2>2 DEF SignalEvent, app, tables, demux
      <3> QED
        BY <3>1, TableNames DEF Harmless
    <2>3. CASE SetPara \/ SolveFendEvt
      <3>1. /\ UNCHANGED <<mode, batch, fid, armed, call, evt>>
            /\ recv' \in {recv, recv \cup {"fend"}, recv \ {"fend"}}
        BY <2>3 DEF SetPara, SolveFendEvt, app, tables, demux
      <3> QED
        BY <3>1, TableNames DEF Harmless
    <2> QED
      BY <2>1, <2>2, <2>3
  <1>3. OrderInv
    BY DEF WaitsInv
  <1>4. /\ {"signal", "outcome", "tune", "setPara", "tryNit", "nextTs", "leaveTs", "wait", "start",
            "free", "alloc"} \cap {"tables", "after"} = {}
        /\ Last2 \cap {"tables", "after"} = {}
    BY DEF Last2, Last
  <1>5. OrderInv' /\ Unplanned
    <2>1. CASE Sync \/ SignalEvent
      BY <1>1, <1>3, <2>1, SyncOrder, SignalOrder, NewUnplanned
    <2>2. CASE NextPmt
      <3>1. OrderInv' /\ NewFor({"signal", "free", "alloc"}, {"pmt"})
        BY <1>3, <2>2, NextPmtOrder
      <3> QED
        BY <1>1, <1>3, <1>4, <3>1, NewUnplanned
    <2>3. CASE TryNit \/ StartNextTs \/ LeaveTs
      BY <1>1, <1>3, <1>4, <2>3, StagesOrder, NewUnplanned
    <2>4. CASE TuneNext \/ SetPara
      BY <1>1, <1>3, <1>4, <2>4, TuneOrder, NewUnplanned
    <2>5. CASE SolveFendEvt \/ Unlocked \/ LockedNit \/ LockedTs
      BY <1>1, <1>3, <1>4, <2>5, FendOrder, NewUnplanned
    <2>6. CASE TsComplete
      BY <1>1, <1>3, <1>4, <2>6, RoundsOrder, NewUnplanned
    <2>7. CASE Begin
      BY <1>1, <1>3, <1>4, <2>7, BeginOrder, NewUnplanned
    <2>8. CASE Quit \/ Unsubscribe \/ ExitSync \/ Release
      BY <1>1, <1>3, <1>4, <2>8, LastOrder, NewUnplanned
    <2> QED
      BY <2>1, <2>2, <2>3, <2>4, <2>5, <2>6, <2>7, <2>8
  <1> QED
    BY <1>2, <1>5, NoHarm

LEMMA OthersWait ==
  ASSUME WaitsInv, MovesInv',
         FendSignal \/ FendCallback \/ FendNobody \/ Start \/ Destroy \/ Join \/ UNCHANGED vars
  PROVE  WaitsInv'
  <1>1. OrderInv' /\ Pending' = Pending
    BY OthersOrder DEF WaitsInv
  <1>2. /\ UNCHANGED <<mode, batch, fid, armed, call, recv>>
        /\ evt' \in {evt, evt \cup {"FEND"}, evt \cup {"START"}, evt \cup {"QUIT"}}
    BY DEF FendSignal, FendCallback, FendNobody, Start, Destroy, Join, vars, app, tables, demux
  <1>3. Harmless
    BY <1>2, TableNames DEF Harmless
  <1>4. Unplanned
    BY <1>1 DEF Unplanned, Pending
  <1> QED
    BY <1>1, <1>3, <1>4, NoHarm

LEMMA NamedTables ==
  /\ \A q \in Items : /\ q[1] = "tables" => q[2] \subseteq Tables
                      /\ q[1] = "after" => q[2] \in Tables
  /\ WaitsInv => armed \subseteq Tables /\ Pending \subseteq Items
  <1>1. \A q \in Items : /\ q[1] = "tables" => q[2] \subseteq Tables
                         /\ q[1] = "after" => q[2] \in Tables
    BY DEF Items, TableSteps, LoopItems, LoopSteps, PlainSteps, Last
  <1>2. WaitsInv => armed \subseteq Tables /\ Pending \subseteq Items
    BY DEF WaitsInv, OrderInv, MovesInv, IInv, TypeOK, Agenda, Steps, Pending
  <1> QED
    BY <1>1, <1>2

LEMMA FiltersWait ==
  ASSUME WaitsInv, MovesInv', FreeFilter \/ AllocateFilter
  PROVE  WaitsInv'
  <1>1. todo # <<>> /\ UNCHANGED <<mode, batch, evt, call>>
    BY DEF FreeFilter, AllocateFilter, At, app, Dmx!Release, Dmx!Take
  <1>2. OrderInv
    BY DEF WaitsInv
  <1>3. OrderInv' /\ Unplanned
    <2>1. CASE FreeFilter
      <3>1. OrderInv' /\ New({"sync"})
        BY <1>2, <2>1, FreeOrder
      <3> QED
        BY <1>1, <1>2, <3>1, NewUnplanned
    <2>2. CASE AllocateFilter
      <3>1. OrderInv' /\ New({})
        BY <1>2, <2>2, AllocateOrder
      <3> QED
        BY <1>1, <1>2, <3>1, NewUnplanned
    <2> QED
      BY <2>1, <2>2
  <1>4. recv \subseteq recv'
    <2>1. FreeFilter => recv' = recv
      BY DEF FreeFilter
    <2> QED
      BY <1>2, <2>1, AllocateOrder
  <1>5. WaitedFor'
    <2> SUFFICES ASSUME "late" \notin mode.faults
                 PROVE  /\ \A t \in Tables : t \in evt \ batch => t \in recv'
                        /\ \A q \in Steps(todo') :
                             /\ q[1] = "tables" => \A t \in q[2] : t \in recv' /\ t \in batch
                             /\ q[1] = "after" => q[2] \in recv' /\ q[2] \notin evt \ batch
      BY <1>1 DEF WaitedFor, Pending
    <2> QED
      BY <1>3, <1>4 DEF Unplanned, WaitsInv, WaitedFor
  <1>6. Expected'
    <2>1. CASE FreeFilter
      <3>1. /\ Arg \in Tables /\ \A t \in Tables : fid'[t] = IF t = Arg THEN -1 ELSE fid[t]
            /\ armed' = armed \ {Arg} \/ (armed' = armed /\ fid[Arg] = -1)
        BY <1>2, <2>1, FreeOrder
      <3>2. recv' = recv
        BY <2>1 DEF FreeFilter
      <3>3. call = None \/ (call[1] \in FilterIds /\ call[1] # -1)
        BY <1>2, DemuxTyped DEF OrderInv, MovesInv
      <3> QED
        BY <1>1, <3>1, <3>2, <3>3, NamedTables DEF WaitsInv, Expected
    <2>2. CASE AllocateFilter
      <3>1. PICK u \in Tables :
               /\ \A f \in FilterIds : st[Self][f] # "freed"
               /\ \/ FilterTaken(u) /\ armed' = armed \cup {u} /\ recv' = recv \cup {u}
                  \/ FilterTaken(u) /\ UNCHANGED <<armed, recv>>
                  \/ UNCHANGED <<fid, st, armed, recv>>
               /\ fid[u] = -1
        BY <1>2, <2>2, AllocateOrder
      <3>2. CASE UNCHANGED <<fid, st, armed, recv>>
        BY <1>1, <3>2 DEF WaitsInv, Expected
      <3>3. CASE /\ FilterTaken(u) /\ armed' \in {armed, armed \cup {u}}
                 /\ recv' = recv \/ recv' = recv \cup {u}
                 /\ armed' # armed => recv' = recv \cup {u}
        <4>1. PICK f \in FilterIds : Free(f) /\ \A t \in Tables : fid'[t] = IF t = u THEN f ELSE fid[t]
          BY <3>3 DEF FilterTaken
        <4>2. f # -1 /\ st[Self][f] = "quiet" /\ call # <<f, Self>>
          BY <1>2, <3>1, <4>1, DemuxTyped DEF OrderInv, MovesInv, Free, Held
        <4>3. call # None => call[1] # f
          BY <1>2, <4>2, DemuxTyped DEF OrderInv, MovesInv
        <4>4. armed' \subseteq recv' /\ \A t \in armed' : fid'[t] # -1
          BY <3>1, <3>3, <4>1, <4>2, NamedTables DEF WaitsInv, Expected
        <4>5. call # None => \A t \in Tables : fid'[t] = call[1] => t \in recv'
          BY <3>3, <4>1, <4>3 DEF WaitsInv, Expected
        <4> QED
          BY <1>1, <4>4, <4>5 DEF Expected
      <3> QED
        BY <3>1, <3>2, <3>3
    <2> QED
      BY <2>1, <2>2
  <1> QED
    BY <1>3, <1>5, <1>6 DEF WaitsInv

(* The rest of a done function.                                              *)
LEMMA DoneWaits ==
  ASSUME WaitsInv, OrderInv', NEW t \in Tables, After(t),
         \A q \in Steps(todo') : q \in Steps(Rest) \/ q[1] \notin {"tables", "after"},
         UNCHANGED <<mode, batch, evt, fid, armed, call>>, recv' \in {recv, recv \ {t}}
  PROVE  WaitsInv'
  <1>1. OrderInv
    BY DEF WaitsInv
  <1>2. /\ todo # <<>> /\ Head(todo)[1] = "after" /\ Head(todo)[2] = t
        /\ Pending = {Head(todo)} \cup Steps(Rest) /\ Pending \subseteq Items
        /\ \A q \in Steps(Rest) : Precedes(Head(todo), q)
    BY <1>1, RestIs DEF After, At, Arg
  <1>3. fid[t] = -1
    BY <1>1, <1>2 DEF OrderInv, AfterFree, At
  <1>4. Expected'
    <2>1. call = None \/ call[1] # -1
      BY <1>1, DemuxTyped DEF OrderInv, MovesInv
    <2> QED
      BY <1>3, <2>1, NamedTables DEF WaitsInv, Expected
  <1>5. ASSUME "late" \notin mode.faults PROVE WaitedFor'
    <2>1. t \notin evt \ batch
      BY <1>2, <1>5 DEF WaitsInv, WaitedFor
    <2>2. \A q \in Steps(Rest) : /\ q[1] # "after"
                                 /\ q[1] = "tables" => t \notin q[2]
      BY <1>2 DEF Precedes
    <2>3. \A q \in Steps(todo') : /\ q[1] # "after"
                                  /\ q[1] = "tables" => q \in Pending /\ t \notin q[2]
      BY <1>2, <2>2
    <2>4. \A x \in Tables : x \in evt \ batch => x \in recv'
      BY <1>5, <2>1 DEF WaitsInv, WaitedFor
    <2>5. \A q \in Steps(todo') : q[1] = "tables" => \A x \in q[2] : x \in recv' /\ x \in batch
      BY <1>5, <2>3 DEF WaitsInv, WaitedFor
    <2> QED
      BY <2>3, <2>4, <2>5 DEF WaitedFor, Pending
  <1> QED
    BY <1>4, <1>5 DEF WaitsInv, WaitedFor

LEMMA DonesWait ==
  ASSUME WaitsInv, MovesInv',
         \/ NitDone \/ BatDone \/ PatDone \/ CatDone \/ SdtDone \/ MgtDone \/ VctDone \/ PmtDone
  PROVE  WaitsInv'
  <1>1. OrderInv
    BY DEF WaitsInv
  <1>2. /\ {"signal", "nextPmt", "tryNit", "nextTs", "free", "alloc"} \cap {"tables", "after"} = {}
        /\ {"nit", "bat", "pat", "cat", "sdt", "mgt", "vct", "pmt"} \subseteq Tables
    BY DEF Tables, TsTables
  <1>3. OrderInv' /\ \A q \in Steps(todo') : q \in Steps(Rest) \/ q[1] \notin {"tables", "after"}
    <2>1. CASE NitDone \/ BatDone
      <3>1. OrderInv' /\ (New({"tryNit"}) \/ New({"signal", "nextTs"}) \/ New({}))
        BY <1>1, <2>1, NetworkOrder
      <3> QED
        BY <3>1 DEF New
    <2>2. CASE MgtDone
      <3>1. OrderInv' /\ NewFor({"signal", "free", "alloc"}, {"vct"})
        BY <1>1, <2>2, DonesOrder
      <3> QED
        BY <3>1 DEF NewFor
    <2>3. CASE PatDone \/ CatDone \/ SdtDone \/ VctDone \/ PmtDone
      <3>1. OrderInv' /\ (New({"signal"}) \/ New({"signal", "nextPmt"}) \/ New({"nextPmt"}))
        BY <1>1, <2>3, DonesOrder
      <3> QED
        BY <3>1 DEF New
    <2> QED
      BY <2>1, <2>2, <2>3
  <1>4. \E t \in Tables : /\ After(t) /\ UNCHANGED <<mode, batch, evt, fid, armed, call>>
                          /\ recv' \in {recv, recv \ {t}}
    <2>1. ASSUME NEW t \in Tables, NEW next, TableDone(t, next)
          PROVE  /\ After(t) /\ UNCHANGED <<mode, batch, evt, fid, armed, call>>
                 /\ recv' \in {recv, recv \ {t}}
      BY <2>1 DEF TableDone, NotWaiting, app, tables, demux
    <2>2. CASE NitDone
      BY <1>2, <2>2 DEF NitDone, NotWaiting, app, tables, demux
    <2>3. CASE BatDone
      BY <1>2, <2>3 DEF BatDone, NotWaiting, app, tables, demux
    <2>4. CASE PmtDone
      BY <1>2, <2>4 DEF PmtDone, NotWaiting, app, tables, demux
    <2>5. CASE PatDone \/ CatDone \/ SdtDone \/ MgtDone \/ VctDone
      <3>1. \E t \in Tables : \E next : TableDone(t, next)
        BY <1>2, <2>5 DEF PatDone, CatDone, SdtDone, MgtDone, VctDone
      <3> QED
        BY <2>1, <3>1
    <2> QED
      BY <2>2, <2>3, <2>4, <2>5
  <1> QED
    BY <1>3, <1>4, DoneWaits

LEMMA LoopsWait ==
  ASSUME WaitsInv, MovesInv', TablesDone \/ CheckTimeout
  PROVE  WaitsInv'
  <1>1. OrderInv /\ todo # <<>> /\ UNCHANGED <<mode, batch, evt, fid, armed, call, recv>>
    BY DEF WaitsInv, TablesDone, CheckTimeout, At, app, tables, demux
  <1>2. Expected'
    BY <1>1 DEF WaitsInv, Expected
  <1>3. Steps(Rest) \subseteq Pending /\ Head(todo) \in Pending /\ Arg = Head(todo)[2]
    BY <1>1, RestIs DEF Arg
  <1>4. ASSUME "late" \notin mode.faults
        PROVE  \A q \in Steps(todo') :
                 /\ q[1] = "tables" => \A t \in q[2] : t \in recv /\ t \in batch
                 /\ q[1] = "after" => q[2] \in recv /\ q[2] \notin evt \ batch
    <2>1. \A q \in Steps(Rest) :
            /\ q[1] = "tables" => \A t \in q[2] : t \in recv /\ t \in batch
            /\ q[1] = "after" => q[2] \in recv /\ q[2] \notin evt \ batch
      BY <1>3, <1>4 DEF WaitsInv, WaitedFor
    <2>2. CASE TablesDone
      <3>1. \A t \in Arg : t \in recv /\ t \in batch
        BY <1>3, <1>4, <2>2 DEF WaitsInv, WaitedFor, TablesDone, At
      <3>2. \A q \in Steps(todo') :
              /\ q \in Items
              /\ \/ q \in Steps(Rest)
                 \/ q[1] = "free"
                 \/ q[1] = "after" /\ q[2] \in Arg
                 \/ q[1] = "tables" /\ q[2] \subseteq Arg
        BY <1>1, <2>2, LoopsOrder
      <3> QED
        BY <2>1, <3>1, <3>2
    <2>3. CASE CheckTimeout
      <3>1. \A q \in Steps(todo') :
              /\ q \in Items
              /\ \/ q \in Steps(Rest)
                 \/ q[1] = "free"
                 \/ q[1] = "after" /\ q[2] \in Arg /\ Expires(q[2])
                 \/ q[1] = "checks"
        BY <1>1, <2>3, LoopsOrder
      <3>2. \A t : Expires(t) => t \in recv /\ t \notin evt
        BY <1>4 DEF Expires
      <3> QED
        BY <2>1, <3>1, <3>2
    <2> QED
      BY <2>2, <2>3
  <1>5. OrderInv'
    BY <1>1, LoopsOrder
  <1>6. WaitedFor'
    BY <1>1, <1>4 DEF WaitsInv, WaitedFor, Pending
  <1> QED
    BY <1>2, <1>5, <1>6 DEF WaitsInv

LEMMA RoundsWait ==
  ASSUME WaitsInv, MovesInv', Wake \/ SpuriousWake \/ WaitTimesOut \/ EndBatch
  PROVE  WaitsInv'
  <1>1. /\ OrderInv /\ UNCHANGED <<mode, fid, armed, call, recv>> /\ evt' \subseteq evt
        /\ batch' \in {evt, evt', batch, {}}
    BY DEF WaitsInv, Wake, SpuriousWake, WakeWhen, Serve, WaitTimesOut, EndBatch, At, app, tables, demux
  <1>2. Expected'
    BY <1>1 DEF WaitsInv, Expected
  <1>3. ASSUME Serving(evt'), batch' = evt', \A t \in Tables : t \in evt' => "late" \in mode.faults \/ t \in recv
        PROVE  WaitedFor'
    <2>1. \A q \in Steps(todo') : /\ q[1] # "after"
                                  /\ q[1] = "tables" => q[2] = evt' \cap Tables
      BY <1>3 DEF Serving
    <2> QED
      BY <1>1, <1>3, <2>1 DEF WaitedFor, Pending
  <1>4. ASSUME Anew({"checks", "tsComplete"}), \A t \in Tables : t \in evt' \ batch' => "late" \in mode.faults \/ t \in recv
        PROVE  WaitedFor'
    <2>1. \A q \in Steps(todo') : q[1] # "after" /\ q[1] # "tables"
      BY <1>4 DEF Anew
    <2> QED
      BY <1>1, <1>4, <2>1 DEF WaitedFor, Pending
  <1>5. \A t \in Tables : t \in evt \ batch => "late" \in mode.faults \/ t \in recv
    BY DEF WaitsInv, WaitedFor
  <1>6. CASE Wake \/ SpuriousWake
    <2>1. OrderInv' /\ Serving(evt) /\ batch = {} /\ evt' = evt /\ batch' = evt
      BY <1>1, <1>6, RoundsOrder DEF Wake, SpuriousWake, WakeWhen, Serve
    <2> QED
      BY <1>2, <1>3, <1>5, <2>1 DEF WaitsInv
  <1>7. CASE WaitTimesOut
    <2>1. OrderInv' /\ Anew({"checks", "tsComplete"}) /\ evt' = evt /\ batch' = batch
      BY <1>1, <1>7, RoundsOrder DEF WaitTimesOut
    <2> QED
      BY <1>2, <1>4, <1>5, <2>1 DEF WaitsInv
  <1>8. CASE EndBatch
    <2>1. OrderInv' /\ evt' \ batch' = {} /\ evt' = evt \ batch
      BY <1>1, <1>8, RoundsOrder DEF EndBatch
    <2>2. evt' = {} \/ (todo' = ServiceOf(evt') /\ batch' = evt')
      BY <1>8 DEF EndBatch
    <2>3. CASE Anew({"checks", "tsComplete"})
      BY <1>2, <1>4, <2>1, <2>3 DEF WaitsInv
    <2>4. CASE Serving(evt') /\ batch' = evt'
      BY <1>2, <1>3, <1>5, <2>1, <2>4 DEF WaitsInv
    <2>5. (Serving(evt') /\ batch' = evt') \/ Anew({"checks", "tsComplete"})
      <3>1. Serving(evt') \/ Anew({"checks", "tsComplete"})
        BY <1>1, <1>8, RoundsOrder
      <3>2. batch' = evt'
        BY <1>8 DEF EndBatch
      <3> QED
        BY <3>1, <3>2
    <2> QED
      BY <2>3, <2>4, <2>5
  <1> QED
    BY <1>6, <1>7, <1>8

LEMMA StartsWait ==
  ASSUME WaitsInv, MovesInv', StartScan \/ FreeAll \/ \E m \in Modes : Create(m)
  PROVE  WaitsInv'
  <1>1. OrderInv
    BY DEF WaitsInv
  <1>2. {"tryNit", "nextTs"} \cap {"tables", "after"} = {} /\ Last2 \cap {"tables", "after"} = {}
    BY DEF Last2, Last
  <1>3. CASE StartScan
    <2>1. /\ OrderInv' /\ New({"tryNit", "nextTs"}) /\ todo # <<>>
          /\ ~started /\ UNCHANGED <<mode, batch, armed, evt, recv, call>>
      BY <1>1, <1>3, BeginOrder DEF StartScan, At, app, demux
    <2>2. Unplanned
      BY <1>1, <1>2, <2>1, NewUnplanned
    <2>3. recv = {} /\ \A f \in FilterIds : st[Self][f] = "quiet"
      BY <1>1, <2>1 DEF OrderInv, MovesInv, IInv, Starting
    <2>4. call = None /\ armed = {}
      BY <1>1, <2>3, DemuxTyped DEF OrderInv, MovesInv, WaitsInv, Expected
    <2>5. Expected'
      BY <2>1, <2>4 DEF Expected
    <2>6. WaitedFor'
      BY <2>1, <2>2 DEF WaitsInv, WaitedFor, Unplanned, Pending
    <2> QED
      BY <2>1, <2>5, <2>6 DEF WaitsInv
  <1>4. CASE FreeAll
    <2>1. /\ OrderInv' /\ Anew(Last2) /\ todo # <<>> /\ armed' = {}
          /\ UNCHANGED <<mode, batch, fid, evt, recv, call>>
      BY <1>1, <1>4, LastOrder DEF FreeAll, At, app
    <2>2. Unplanned
      BY <1>1, <1>2, <2>1, NewUnplanned
    <2>3. Expected'
      BY <2>1 DEF WaitsInv, Expected
    <2>4. WaitedFor'
      BY <2>1, <2>2 DEF WaitsInv, WaitedFor, Unplanned, Pending
    <2> QED
      BY <2>1, <2>3, <2>4 DEF WaitsInv
  <1>5. ASSUME NEW m \in Modes, Create(m) PROVE WaitsInv'
    <2>1. /\ OrderInv' /\ Anew({"checks", "tsComplete"}) /\ life = "none"
          /\ UNCHANGED <<batch, fid, armed, evt, recv, call>>
      BY <1>1, <1>5, CreateOrder DEF Create, tables, demux
    <2>2. ~started
      BY <1>1, <2>1 DEF OrderInv, MovesInv, IInv, Living
    <2>3. \A t \in Tables : t \notin evt
      <3>1. evt \subseteq EarlyFlags
        BY <1>1, <2>2 DEF OrderInv, MovesInv, IInv, Starting
      <3> QED
        BY <3>1, TableNames DEF EarlyFlags
    <2>4. Expected'
      BY <2>1 DEF WaitsInv, Expected
    <2>5. WaitedFor'
      BY <2>1, <2>3 DEF WaitedFor, Anew, Pending
    <2> QED
      BY <2>1, <2>4, <2>5 DEF WaitsInv
  <1> QED
    BY <1>3, <1>4, <1>5

(* A handler call works for the table whose filter it is called for.         *)
Handled(t) ==
  /\ t \in Owners(call[1]) /\ fid[t] = call[1]
  /\ \A u \in Tables : u # t => data'[u] = data[u] /\ (u \in evt' <=> u \in evt)
  /\ t \in TsTables \ {"vct"} /\ ts # None /\ "decode" \notin mode.faults =>
       /\ data[t] = "full" => data'[t] = "full"
       /\ t \in evt' => t \in evt \/ data'[t] = "full"

LEMMA HandleIs ==
  ASSUME IInv, Handle
  PROVE  UNCHANGED <<data, evt>> \/ \E t \in Tables : Handled(t)
  <1>1. /\ data \in [Tables -> Amount]
        /\ evt \in SUBSET (Tables \cup {"START", "FEND", "QUIT"})
    BY DEF IInv, TypeOK
  <1>2. \/ UNCHANGED <<data, evt>>
        \/ \E t \in Owners(call[1]) :
             \/ t = "bat" /\ CollectBat
             \/ CollectSection(t)
    BY Zenon DEF Handle
  <1>3. \A t \in Owners(call[1]) : t \in Tables /\ fid[t] = call[1]
    BY DEF Owners
  <1>4. ASSUME CollectBat, "bat" \in Owners(call[1]) PROVE Handled("bat")
    <2>1. evt' = evt \/ evt' = evt \cup {"bat"}
      BY <1>4 DEF CollectBat
    <2>2. \A u \in Tables : u # "bat" => data'[u] = data[u]
      <3>1. CASE UNCHANGED data
        BY <3>1
      <3>2. CASE \E c \in Sections("bat") : data' = [data EXCEPT !["bat"] = c]
        BY <1>1, <3>2
      <3> QED
        BY <1>4, <3>1, <3>2, Zenon DEF CollectBat
    <2>3. "bat" \notin TsTables
      BY DEF TsTables
    <2> QED
      BY <1>3, <1>4, <2>1, <2>2, <2>3 DEF Handled
  <1>5. ASSUME NEW t \in Owners(call[1]), CollectSection(t) PROVE Handled(t)
    <2>1. t \in Tables /\ fid[t] = call[1]
      BY <1>3
    <2>2. \A u \in Tables : u # t => data'[u] = data[u] /\ (u \in evt' <=> u \in evt)
      BY <1>5, <2>1, SectionCollected
    <2>3. ASSUME t \in TsTables \ {"vct"}, ts # None, "decode" \notin mode.faults
          PROVE  /\ data[t] = "full" => data'[t] = "full"
                 /\ t \in evt' => t \in evt \/ data'[t] = "full"
      <3>1. ~Ignores(t) /\ ~AddsUnmarked(t)
        BY <2>3 DEF Ignores, Listed, AddsUnmarked
      <3>2. CASE Repetition(t)
        BY <3>2 DEF Repetition
      <3>3. CASE Adds(t)
        <4>1. PICK c \in Sections(t) :
                /\ data' = [data EXCEPT ![t] = IF @ = "full" THEN @ ELSE c]
                /\ Completes(t, c)
          BY <3>3, Zenon DEF Adds
        <4>2. data'[t] = IF data[t] = "full" THEN data[t] ELSE c
          BY <1>1, <2>1, <4>1
        <4>3. c \in {"part", "full"}
          BY DEF Sections
        <4>4. t \in evt' => t \in evt \/ c = "full"
          BY <4>1, <4>3 DEF Completes, Complete
        <4> QED
          BY <4>2, <4>4
      <3> QED
        BY <1>5, <3>1, <3>2, <3>3 DEF CollectSection
    <2> QED
      BY <1>5, <2>1, <2>2, <2>3, Zenon DEF Handled
  <1> QED
    BY <1>2, <1>3, <1>4, <1>5

LEMMA DeliverWaits ==
  ASSUME WaitsInv, MovesInv', NEW f \in FilterIds, Deliver(f)
  PROVE  WaitsInv'
  <1>1. /\ LockFree /\ UNCHANGED <<mode, todo, batch, evt, fid, armed, recv>>
        /\ st[Self][f] = "held" /\ call' = <<f, Self>>
    BY DEF Deliver, Dmx!Deliver, app, tables
  <1>2. PICK t \in armed : fid[t] = f
    BY DEF Deliver
  <1>3. IInv /\ OrderInv /\ t \in Tables /\ t \in recv /\ f # -1
    BY DemuxTyped, NamedTables DEF WaitsInv, OrderInv, MovesInv, Expected
  <1>4. started
    BY <1>1, <1>3 DEF IInv, Starting, TypeOK
  <1>5. life = "live" /\ ~At("release") /\ todo # <<>>
    BY <1>1 DEF LockFree, At
  <1>6. ~At("exitSync")
    <2> SUFFICES ASSUME At("exitSync") PROVE FALSE
      OBVIOUS
    <2>1. NoneHeld
      BY <1>3, LeavingIs DEF At, Last, Left
    <2> QED
      BY <1>1, <2>1 DEF NoneHeld
  <1>7. \A u \in Tables : fid[u] = f => u = t
    BY <1>2, <1>3, <1>4, <1>5, <1>6 DEF IInv, Filters, Accounted
  <1>8. OrderInv' /\ Pending' = Pending
    BY <1>3, OthersOrder
  <1>9. Expected'
    BY <1>1, <1>3, <1>7 DEF WaitsInv, Expected
  <1>10. WaitedFor'
    BY <1>1, <1>8 DEF WaitsInv, WaitedFor
  <1> QED
    BY <1>8, <1>9, <1>10 DEF WaitsInv

LEMMA HandleWaits ==
  ASSUME WaitsInv, MovesInv', Handle
  PROVE  WaitsInv'
  <1>1. /\ call # None /\ call' = None /\ UNCHANGED <<mode, todo, batch, fid, armed, recv>>
        /\ LockFree \/ life = "gone"
    BY DEF Handle, Dmx!Return, app
  <1>2. IInv /\ OrderInv
    BY DEF WaitsInv, OrderInv, MovesInv
  <1>3. OrderInv' /\ Pending' = Pending
    BY <1>2, OthersOrder
  <1>4. Expected'
    BY <1>1 DEF WaitsInv, Expected
  <1>5. ASSUME evt' = evt PROVE WaitedFor'
    BY <1>1, <1>3, <1>5 DEF WaitsInv, WaitedFor
  <1>6. ASSUME NEW t \in Tables, Handled(t) PROVE WaitedFor'
    <2>1. t \in recv /\ fid[t] # -1
      <3>1. call[1] \in FilterIds /\ -1 \notin FilterIds
        BY <1>1, <1>2, DemuxTyped
      <3> QED
        BY <1>1, <1>6, <3>1 DEF WaitsInv, Expected, Handled
    <2>2. \A u \in Tables : u # t => (u \in evt' <=> u \in evt)
      BY <1>6 DEF Handled
    <2>3. \A q \in Pending : q[1] = "after" => q[2] # t
      <3>1. CASE LockFree
        <4>1. ~At("free")
          BY <3>1 DEF LockFree, At
        <4> QED
          BY <1>2, <2>1, <4>1 DEF OrderInv, AfterFree
      <3>2. CASE life = "gone"
        <4>1. todo = <<>>
          BY <1>2, <3>2 DEF IInv, Living
        <4>2. Pending = {}
          BY <4>1, StepsFew DEF Pending
        <4> QED
          BY <4>2
      <3> QED
        BY <1>1, <3>1, <3>2
    <2>4. ASSUME "late" \notin mode.faults, NEW q \in Pending
          PROVE  /\ q[1] = "tables" => \A u \in q[2] : u \in recv /\ u \in batch
                 /\ q[1] = "after" => q[2] \in recv /\ q[2] \notin evt' \ batch
      <3>1. q \in Items
        BY <2>4, NamedTables DEF WaitsInv
      <3>2. q[1] = "after" => q[2] \in Tables
        BY <3>1, NamedTables
      <3> QED
        BY <2>2, <2>3, <2>4, <3>2 DEF WaitsInv, WaitedFor
    <2>5. "late" \notin mode.faults => \A u \in Tables : u \in evt' \ batch => u \in recv
      BY <2>1, <2>2 DEF WaitsInv, WaitedFor
    <2> QED
      BY <1>1, <1>3, <2>4, <2>5 DEF WaitedFor
  <1>7. WaitedFor'
    BY <1>2, <1>5, <1>6, HandleIs
  <1> QED
    BY <1>3, <1>4, <1>7 DEF WaitsInv

LEMMA WaitsInit == Init => WaitsInv
  <1> SUFFICES ASSUME Init PROVE WaitsInv
    OBVIOUS
  <1>1. todo = <<>> /\ evt = {} /\ armed = {} /\ call = None
    BY DEF Init, Dmx!Init
  <1>2. Pending = {}
    BY <1>1, StepsFew DEF Pending
  <1> QED
    BY <1>1, <1>2, OrderInit DEF WaitsInv, Expected, WaitedFor

LEMMA WaitsStep == WaitsInv /\ [Next]_vars => WaitsInv'
  <1> SUFFICES ASSUME WaitsInv, [Next]_vars PROVE WaitsInv'
    OBVIOUS
  <1>0. MovesInv'
    BY MovesStep DEF WaitsInv, OrderInv
  <1>1. CASE \/ Sync \/ SignalEvent \/ NextPmt \/ TryNit \/ StartNextTs \/ LeaveTs \/ TuneNext \/ SetPara
             \/ SolveFendEvt \/ Unlocked \/ LockedNit \/ LockedTs \/ TsComplete \/ Begin
             \/ Quit \/ Unsubscribe \/ ExitSync \/ Release
    BY <1>0, <1>1, HarmlessSteps
  <1>2. CASE FreeFilter \/ AllocateFilter
    BY <1>0, <1>2, FiltersWait
  <1>3. CASE \/ NitDone \/ BatDone \/ PatDone \/ CatDone \/ SdtDone \/ MgtDone \/ VctDone \/ PmtDone
    BY <1>0, <1>3, DonesWait
  <1>4. CASE TablesDone \/ CheckTimeout
    BY <1>0, <1>4, LoopsWait
  <1>5. CASE Wake \/ SpuriousWake \/ WaitTimesOut \/ EndBatch
    BY <1>0, <1>5, RoundsWait
  <1>6. CASE StartScan \/ FreeAll \/ \E m \in Modes : Create(m)
    BY <1>0, <1>6, StartsWait
  <1>7. CASE FendSignal \/ FendCallback \/ FendNobody \/ Start \/ Destroy \/ Join \/ UNCHANGED vars
    BY <1>0, <1>7, OthersWait
  <1>8. ASSUME NEW f \in FilterIds, Deliver(f) PROVE WaitsInv'
    BY <1>0, <1>8, DeliverWaits
  <1>9. CASE Handle
    BY <1>0, <1>9, HandleWaits
  <1> QED
    BY <1>1, <1>2, <1>3, <1>4, <1>5, <1>6, <1>7, <1>8, <1>9 DEF Next, ThreadStep

(* A section handler is only at work for a table that is waited for, and,    *)
(* unless tables are completed as their timeouts are handled, a done         *)
(* function is only called for such a table: no table is ended twice.        *)
THEOREM WaitsInvariance == Spec => []WaitsInv
  BY WaitsInit, WaitsStep, PTL DEF Spec

--------------------------------------------------------------------------------
(* What is received and when.  A step of one of these names is to come:      *)
Due(names) == \E q \in Pending : q[1] \in names

(* Once transport streams are scanned the tables of the network are not.     *)
NetworkOver ==
  stage = "TS" \/ Due({"nextTs"}) =>
    /\ \A t \in Network : t \notin recv
    /\ \A q \in Pending : q[1] \in {"alloc", "after"} => q[2] \notin Network

(* While there is a current TS the frontend is on it, and leaves it first.   *)
OnTs ==
  ts # None =>
    /\ stage = "TS" /\ tuned = ts /\ "fend" \notin recv
    /\ ~Due({"outcome", "setPara", "tryNit"})
    /\ Due({"tune"}) => Due({"leaveTs"})

(* Its tables are received only then.                                        *)
OffTs ==
  /\ ts = None =>
       /\ \A t \in TsTables : t \notin recv
       /\ \A q \in Pending : q[1] = "alloc" => q[2] \notin TsTables
  /\ Due({"nextTs", "leaveTs"}) => \A t \in TsTables : t \notin recv

(* The answer that is waited for, or looked at, is about the frequency of    *)
(* the list that comes next in the result.                                   *)
Listening ==
  /\ Due({"setPara"}) => InList
  /\ stage = "TS" /\ ("fend" \in recv \/ Due({"outcome"})) => InList /\ tuned = freqs[curr + 1]

(* The section a handler works on is of the current TS.                      *)
Heard == call # None => \A t \in TsTables : fid[t] = call[1] => callFreq = ts

Own == NetworkOver /\ OnTs /\ OffTs /\ Listening /\ Heard
Sound == "late" \notin mode.faults => ~crashed
OwnInv == WaitsInv /\ Sound /\ (~crashed /\ ~NitEndsTwice => Own)

(* And the completion of its tables:                                         *)
PmtAlone ==
  /\ "pat" \notin recv \/ "pmt" \notin recv
  /\ \A q \in Pending : q[1] = "nextPmt" \/ (q[1] = "alloc" /\ q[2] \in PatPmt)
       => "pat" \notin recv /\ "pmt" \notin recv
Whole == \A t \in TsTables \ {"vct"} : t \in evt \ batch => data[t] = "full"
WholeInv == OwnInv /\ ({"late", "decode"} \cap mode.faults = {} => PmtAlone /\ Whole)

LEMMA AheadIs ==
  ASSUME OrderInv, todo # <<>>
  PROVE  /\ Head(todo) \in Pending /\ Pending = {Head(todo)} \cup Steps(Rest)
         /\ \A q \in Steps(Rest) : q \in Pending /\ Precedes(Head(todo), q)
         /\ Head(todo)[1] \notin Between => \A q \in Steps(Rest) : q[1] \notin Movers
  <1>1. /\ Pending = {Head(todo)} \cup Steps(Rest) /\ Rest \in Seq(Items)
        /\ \A q \in Steps(Rest) : Precedes(Head(todo), q)
    BY RestIs
  <1>2. ASSUME Head(todo)[1] \notin Between, NEW q \in Steps(Rest) PROVE q[1] \notin Movers
    <2>1. Rest \in Seq(Calm)
      BY <1>2, AfterHead DEF OrderInv
    <2>2. q \in Calm
      BY <2>1, Parts DEF Steps, Calm
    <2> QED
      BY <2>2 DEF Calm
  <1> QED
    BY <1>1, <1>2

(* Steps that change none of this, and put nothing before the rest that      *)
(* would, but the rest of a done function or a table of the current TS.      *)
Brings(q) ==
  \/ q \in Pending
  \/ q[1] \notin {"alloc", "after", "leaveTs"} \cup Movers
  \/ q[1] = "after" /\ (q[2] \in Network => q[2] \in recv)
  \/ q[1] = "alloc" /\ q[2] \in TsTables /\ ts # None
Steady ==
  /\ UNCHANGED <<mode, stage, ts, tuned, freqs, curr>>
  /\ call' = None \/ UNCHANGED <<call, callFreq>>
  /\ \A t \in Tables : (t \in recv' => t \in recv) /\ fid'[t] \in {fid[t], -1}
  /\ "fend" \in recv' => "fend" \in recv
Quiet ==
  /\ Steady
  /\ \A q \in Steps(todo') : Brings(q)
  /\ Due({"leaveTs"}) /\ Due({"tune"})' => Due({"leaveTs"})'

LEMMA OwnKept ==
  ASSUME OwnInv, ~crashed, crashed' \/ Quiet, ~NitEndsTwice, ~crashed'
  PROVE  Own'
  <1>1. /\ UNCHANGED <<mode, stage, ts, tuned, freqs, curr>> /\ Own
        /\ \A t \in Tables : (t \in recv' => t \in recv) /\ fid'[t] \in {fid[t], -1}
        /\ "fend" \in recv' => "fend" \in recv
        /\ \A q \in Pending' : Brings(q)
        /\ Due({"leaveTs"}) /\ Due({"tune"})' => Due({"leaveTs"})'
    BY DEF OwnInv, Quiet, Steady, Pending
  <1>2. \A t \in TsTables : t \in Tables
    BY TableNames
  <1>3. \A names \in SUBSET (Movers \cup {"leaveTs"}) : Due(names)' => Due(names)
    <2>1. ASSUME NEW names \in SUBSET (Movers \cup {"leaveTs"}), NEW q \in Pending', q[1] \in names
          PROVE  q \in Pending
      BY <1>1, <2>1 DEF Brings, Movers
    <2> QED
      BY <2>1 DEF Due
  <1>4. /\ \A n \in {"nextTs", "outcome", "setPara", "tryNit", "tune"} : Due({n})' => Due({n})
        /\ Due({"outcome", "setPara", "tryNit"})' => Due({"outcome", "setPara", "tryNit"})
        /\ Due({"nextTs", "leaveTs"})' => Due({"nextTs", "leaveTs"})
    BY <1>3 DEF Movers
  <1>5. NetworkOver'
    <2> SUFFICES ASSUME stage = "TS" \/ Due({"nextTs"})
                 PROVE  /\ \A t \in Network : t \notin recv'
                        /\ \A q \in Pending' : q[1] \in {"alloc", "after"} => q[2] \notin Network
      BY <1>1, <1>4 DEF NetworkOver
    <2>1. /\ \A t \in Network : t \notin recv
          /\ \A q \in Pending : q[1] \in {"alloc", "after"} => q[2] \notin Network
      BY <1>1 DEF Own, NetworkOver
    <2>2. \A t \in Network : t \in Tables /\ t \notin TsTables
      BY TableNames
    <2> QED
      BY <1>1, <2>1, <2>2 DEF Brings, Movers
  <1>6. OnTs'
    BY <1>1, <1>4 DEF Own, OnTs
  <1>7. OffTs'
    <2>1. ts = None => \A q \in Pending' : q[1] = "alloc" => q[2] \notin TsTables
      BY <1>1 DEF Own, OffTs, Brings, Movers
    <2> QED
      BY <1>1, <1>2, <1>4, <2>1 DEF Own, OffTs
  <1>8. Listening'
    BY <1>1, <1>4 DEF Own, Listening, InList, Count
  <1>9. Heard'
    <2>1. call = None \/ (call[1] \in FilterIds /\ -1 \notin FilterIds)
      BY DemuxTyped DEF OwnInv, WaitsInv, OrderInv, MovesInv
    <2> QED
      BY <1>1, <1>2, <2>1 DEF Own, Heard, Quiet, Steady
  <1> QED
    BY <1>5, <1>6, <1>7, <1>8, <1>9 DEF Own

(* What is left to show of a step.                                           *)
LEMMA OwnStays ==
  ASSUME OwnInv, WaitsInv', ~crashed, UNCHANGED mode,
         Sound', ~NitEndsTwice /\ ~crashed' => Own'
  PROVE  OwnInv'
  BY DEF OwnInv, NitEndsTwice

LEMMA Brought ==
  ASSUME OrderInv, todo # <<>>
  PROVE  /\ \A names : /\ names \cap ({"alloc", "after", "leaveTs"} \cup Movers) = {}
                       /\ New(names) \/ Anew(names)
                       => \A q \in Steps(todo') : Brings(q)
         /\ \A b : Serving(b) => \A q \in Steps(todo') : Brings(q)
         /\ \A T : ts # None /\ T \subseteq TsTables /\ NewFor({"signal", "free", "alloc"}, T)
                   => \A q \in Steps(todo') : Brings(q)
         /\ Head(todo)[1] \notin {"signal", "leaveTs"} => ~Due({"leaveTs"})
  <1>1. \A q \in Steps(Rest) : q \in Pending /\ Precedes(Head(todo), q)
    BY AheadIs
  <1>2. \A names : /\ names \cap ({"alloc", "after", "leaveTs"} \cup Movers) = {}
                   /\ New(names) \/ Anew(names)
                   => \A q \in Steps(todo') : Brings(q)
    BY <1>1 DEF New, Anew, Brings
  <1>3. \A b : Serving(b) => \A q \in Steps(todo') : Brings(q)
    BY DEF Serving, Brings, Movers
  <1>4. ASSUME NEW T, ts # None, T \subseteq TsTables, NewFor({"signal", "free", "alloc"}, T),
               NEW q \in Steps(todo')
        PROVE  Brings(q)
    <2>1. q \in Pending \/ (q[1] \in {"signal", "free", "alloc"} /\ (q[1] \in TableSteps => q[2] \in T))
      BY <1>1, <1>4 DEF NewFor
    <2>2. q[1] = "alloc" => q[1] \in TableSteps
      BY DEF TableSteps
    <2> QED
      BY <1>4, <2>1, <2>2 DEF Brings, Movers
  <1>5. Head(todo)[1] \notin {"signal", "leaveTs"} => ~Due({"leaveTs"})
    BY AheadIs DEF Due, Precedes
  <1> QED
    BY <1>2, <1>3, <1>4, <1>5

LEMMA QuietThread ==
  ASSUME OwnInv, WaitsInv', ~crashed, todo # <<>>, Head(todo)[1] \notin {"signal", "leaveTs"},
         Steady, NitEndsTwice \/ \A q \in Steps(todo') : Brings(q), UNCHANGED crashed
  PROVE  OwnInv'
  <1>1. NitEndsTwice \/ Quiet
    BY Brought DEF Quiet, OwnInv, WaitsInv
  <1>2. Sound' /\ UNCHANGED mode
    BY DEF Sound, Steady
  <1> QED
    BY <1>1, <1>2, OwnKept, OwnStays

LEMMA QuietOthers ==
  ASSUME OwnInv, WaitsInv', ~crashed,
         \/ Handle \/ FendSignal \/ FendCallback \/ FendNobody \/ Start \/ Destroy \/ Join
  PROVE  OwnInv'
  <1>1. Pending' = Pending
    BY OthersOrder DEF OwnInv, WaitsInv, OrderInv
  <1>2. /\ UNCHANGED <<mode, stage, ts, tuned, freqs, curr, recv, fid, crashed>>
        /\ call' = None \/ UNCHANGED <<call, callFreq>>
    BY DEF Handle, FendSignal, FendCallback, FendNobody, Start, Destroy, Join, app, plan, tables,
           frontend, demux, Dmx!Return
  <1>3. Steady
    BY <1>2 DEF Steady
  <1>4. Quiet
    BY <1>1, <1>3 DEF Quiet, Brings, Pending, Due
  <1>5. Sound'
    BY <1>2 DEF Sound
  <1> QED
    BY <1>2, <1>4, <1>5, OwnKept, OwnStays

LEMMA QuietSteps ==
  ASSUME OwnInv, WaitsInv', ~crashed,
         \/ FreeFilter \/ Sync \/ TablesDone \/ CheckTimeout
         \/ Wake \/ SpuriousWake \/ WaitTimesOut \/ EndBatch \/ Begin
         \/ Quit \/ Unsubscribe \/ FreeAll \/ ExitSync \/ Release
  PROVE  OwnInv'
  <1>1. OrderInv /\ MovesInv' /\ WaitsInv
    BY DEF OwnInv, WaitsInv, OrderInv
  <1>2. todo # <<>> /\ Head(todo)[1] \notin {"signal", "leaveTs"}
    BY DEF FreeFilter, Sync, TablesDone, CheckTimeout, Wake, SpuriousWake, WakeWhen, WaitTimesOut,
           EndBatch, Begin, Quit, Unsubscribe, FreeAll, ExitSync, Release, At
  <1>3. UNCHANGED <<mode, stage, ts, tuned, freqs, curr, recv, call, callFreq, crashed>>
    BY DEF FreeFilter, Sync, TablesDone, CheckTimeout, Wake, SpuriousWake, WakeWhen, WaitTimesOut,
           EndBatch, Begin, Quit, Unsubscribe, FreeAll, ExitSync, Release, app, plan, frontend, demux,
           Dmx!Release, Dmx!SyncEnd
  <1>4. \A t \in Tables : fid'[t] \in {fid[t], -1}
    <2>1. FreeFilter => \A t \in Tables : fid'[t] \in {fid[t], -1}
      BY <1>1, FreeOrder
    <2>2. ~FreeFilter => UNCHANGED fid
      BY DEF Sync, TablesDone, CheckTimeout, Wake, SpuriousWake, WakeWhen, WaitTimesOut,
             EndBatch, Begin, Quit, Unsubscribe, FreeAll, ExitSync, Release, tables
    <2> QED
      BY <2>1, <2>2
  <1>5. Steady
    BY <1>3, <1>4 DEF Steady
  <1>6. ASSUME ~NitEndsTwice PROVE \A q \in Steps(todo') : Brings(q)
    <2>1. CASE FreeFilter \/ Sync
      <3>1. New({"sync"}) \/ New({})
        BY <1>1, <2>1, FreeOrder, SyncOrder
      <3>2. {"sync"} \cap ({"alloc", "after", "leaveTs"} \cup Movers) = {}
        BY DEF Movers
      <3> QED
        BY <1>1, <1>2, <3>1, <3>2, Brought
    <2>2. CASE TablesDone
      <3>1. \A t \in Arg \cap Network : t \in recv
        <4>1. Head(todo) \in Pending /\ Arg = Head(todo)[2] /\ Head(todo)[1] = "tables"
          BY <1>1, <1>2, <2>2, AheadIs DEF Arg, TablesDone, At
        <4>2. CASE "late" \notin mode.faults
          BY <1>1, <4>1, <4>2 DEF WaitsInv, WaitedFor
        <4>3. CASE ~mode.auto
          <5>1. Head(todo) \in Ordinary
            BY <1>1, <1>2, <4>1, <4>3, AfterHead DEF WaitsInv, OrderInv, End, S
          <5> QED
            BY <4>1, <5>1 DEF Ordinary
        <4> QED
          BY <1>6, <4>2, <4>3 DEF NitEndsTwice
      <3>2. \A q \in Steps(todo') : \/ q \in Steps(Rest)
                                    \/ q[1] = "free"
                                    \/ q[1] = "after" /\ q[2] \in Arg
                                    \/ q[1] = "tables"
        BY <1>1, <2>2, LoopsOrder
      <3> QED
        BY <1>1, <1>2, <3>1, <3>2, AheadIs DEF Brings, Movers
    <2>3. CASE CheckTimeout
      <3>1. \A q \in Steps(todo') : \/ q \in Steps(Rest)
                                    \/ q[1] = "free"
                                    \/ q[1] = "after" /\ Expires(q[2])
                                    \/ q[1] = "checks"
        BY <1>1, <2>3, LoopsOrder
      <3>2. \A t : Expires(t) => t \in recv
        BY DEF Expires
      <3> QED
        BY <1>1, <1>2, <3>1, <3>2, AheadIs DEF Brings, Movers
    <2>4. CASE Wake \/ SpuriousWake \/ WaitTimesOut \/ EndBatch
      <3>1. \/ Anew({"checks", "tsComplete"})
            \/ \E b : Serving(b)
        BY <1>1, <2>4, RoundsOrder
      <3>2. {"checks", "tsComplete"} \cap ({"alloc", "after", "leaveTs"} \cup Movers) = {}
        BY DEF Movers
      <3> QED
        BY <1>1, <1>2, <3>1, <3>2, Brought
    <2>5. CASE Begin
      <3>1. New({"signal", "start"})
        BY <1>1, <2>5, BeginOrder
      <3>2. {"signal", "start"} \cap ({"alloc", "after", "leaveTs"} \cup Movers) = {}
        BY DEF Movers
      <3> QED
        BY <1>1, <1>2, <3>1, <3>2, Brought
    <2>6. CASE Quit \/ Unsubscribe \/ FreeAll \/ ExitSync \/ Release
      <3>1. Anew(Last2)
        BY <1>1, <2>6, LastOrder
      <3>2. Last2 \cap ({"alloc", "after", "leaveTs"} \cup Movers) = {}
        BY DEF Movers, Last2, Last
      <3> QED
        BY <1>1, <1>2, <3>1, <3>2, Brought
    <2> QED
      BY <2>1, <2>2, <2>3, <2>4, <2>5, <2>6
  <1> QED
    BY <1>2, <1>3, <1>5, <1>6, QuietThread

LEMMA QuietSignal ==
  ASSUME OwnInv, WaitsInv', ~crashed, SignalEvent
  PROVE  OwnInv'
  <1>1. OrderInv
    BY DEF OwnInv, WaitsInv
  <1>2. /\ todo # <<>> /\ Head(todo)[1] = "signal" /\ todo' = Rest
        /\ UNCHANGED <<mode, stage, ts, tuned, freqs, curr, recv, fid, call, callFreq, crashed>>
    BY DEF SignalEvent, At, app, plan, frontend, tables, demux
  <1>3. Pending = {Head(todo)} \cup Pending' /\ Pending' = Steps(todo')
    BY <1>1, <1>2, AheadIs DEF Pending
  <1>4. Due({"leaveTs"}) => Due({"leaveTs"})'
    BY <1>2, <1>3 DEF Due
  <1>5. Quiet
    BY <1>2, <1>3, <1>4 DEF Quiet, Steady, Brings
  <1>6. Sound'
    BY <1>2 DEF Sound
  <1> QED
    BY <1>2, <1>5, <1>6, OwnKept, OwnStays

LEMMA QuietNextPmt ==
  ASSUME OwnInv, WaitsInv', ~crashed, NextPmt
  PROVE  OwnInv'
  <1>1. OrderInv /\ MovesInv'
    BY DEF OwnInv, WaitsInv, OrderInv
  <1>2. /\ todo # <<>> /\ Head(todo)[1] = "nextPmt"
        /\ UNCHANGED <<mode, stage, ts, tuned, freqs, curr, recv, fid, call, callFreq, crashed>>
    BY DEF NextPmt, At, app, plan, frontend, demux
  <1>3. \A q \in Steps(todo') : Brings(q)
    <2>1. NewFor({"signal", "free", "alloc"}, {"pmt"}) /\ (ts = None => New({"signal"}))
      BY <1>1, NextPmtOrder
    <2>2. {"signal"} \cap ({"alloc", "after", "leaveTs"} \cup Movers) = {} /\ {"pmt"} \subseteq TsTables
      BY DEF Movers, TsTables
    <2> QED
      BY <1>1, <1>2, <2>1, <2>2, Brought
  <1> QED
    BY <1>2, <1>3, QuietThread DEF Steady

(* A done function of a table of the current TS.                             *)
LEMMA EndsOwn ==
  ASSUME OwnInv, ~crashed, "late" \notin mode.faults, NEW t \in TsTables, After(t)
  PROVE  ts # None
  <1>1. t \in Tables
    BY TableNames
  <1>2. Head(todo) \in Pending /\ Head(todo)[1] = "after" /\ Head(todo)[2] = t
    BY AheadIs DEF After, At, Arg, OwnInv, WaitsInv
  <1>3. t \in recv
    BY <1>2 DEF OwnInv, WaitsInv, WaitedFor
  <1> QED
    BY <1>3 DEF OwnInv, NitEndsTwice, Own, OffTs

LEMMA QuietDones ==
  ASSUME OwnInv, WaitsInv', ~crashed,
         PatDone \/ CatDone \/ SdtDone \/ MgtDone \/ VctDone \/ PmtDone
  PROVE  OwnInv'
  <1>1. OrderInv /\ MovesInv'
    BY DEF OwnInv, WaitsInv, OrderInv
  <1>2. PICK t \in TsTables :
          /\ After(t) /\ recv' = recv \ {t} /\ crashed' \in {crashed, ts = None}
          /\ UNCHANGED <<mode, stage, ts, tuned, freqs, curr, fid, call, callFreq>>
          /\ MgtDone => crashed' = (ts = None)
    <2>1. ASSUME NEW t \in TsTables, NEW next, TableDone(t, next)
          PROVE  /\ After(t) /\ recv' = recv \ {t} /\ crashed' = (ts = None)
                 /\ UNCHANGED <<mode, stage, ts, tuned, freqs, curr, fid, call, callFreq>>
      BY <2>1 DEF TableDone, NotWaiting, app, plan, frontend, tables, demux
    <2>2. CASE PmtDone
      <3>1. /\ After("pmt") /\ recv' = recv \ {"pmt"} /\ crashed' = crashed
            /\ UNCHANGED <<mode, stage, ts, tuned, freqs, curr, fid, call, callFreq>>
        BY <2>2 DEF PmtDone, NotWaiting, app, plan, frontend, tables, demux
      <3>2. ~MgtDone
        BY <3>1 DEF MgtDone, TableDone, After
      <3> QED
        BY <3>1, <3>2 DEF TsTables
    <2>3. CASE PatDone \/ CatDone \/ SdtDone \/ MgtDone \/ VctDone
      <3>1. \E t \in TsTables : \E next : TableDone(t, next)
        BY <2>3 DEF PatDone, CatDone, SdtDone, MgtDone, VctDone, TsTables
      <3> QED
        BY <2>1, <3>1
    <2> QED
      BY <2>2, <2>3
  <1>3. todo # <<>> /\ Head(todo)[1] = "after"
    BY <1>2 DEF After, At
  <1>4. Steady
    BY <1>2 DEF Steady
  <1>5. Sound'
    BY <1>2, EndsOwn DEF Sound
  <1>6. crashed' \/ \A q \in Steps(todo') : Brings(q)
    <2>1. CASE MgtDone
      <3>1. NewFor({"signal", "free", "alloc"}, {"vct"})
        BY <1>1, <2>1, DonesOrder
      <3>2. {"vct"} \subseteq TsTables
        BY DEF TsTables
      <3> QED
        BY <1>1, <1>2, <1>3, <2>1, <3>1, <3>2, Brought
    <2>2. CASE PatDone \/ CatDone \/ SdtDone \/ VctDone \/ PmtDone
      <3>1. New({"signal"}) \/ New({"signal", "nextPmt"}) \/ New({"nextPmt"})
        BY <1>1, <2>2, DonesOrder
      <3>2. /\ {"signal"} \cap ({"alloc", "after", "leaveTs"} \cup Movers) = {}
            /\ {"nextPmt"} \cap ({"alloc", "after", "leaveTs"} \cup Movers) = {}
            /\ {"signal", "nextPmt"} \cap ({"alloc", "after", "leaveTs"} \cup Movers) = {}
        BY DEF Movers
      <3> QED
        BY <1>1, <1>3, <3>1, <3>2, Brought
    <2> QED
      BY <2>1, <2>2
  <1>7. crashed' \/ Quiet
    BY <1>1, <1>3, <1>4, <1>6, Brought DEF Quiet
  <1>8. UNCHANGED mode
    BY <1>2
  <1> QED
    BY <1>5, <1>7, <1>8, OwnKept, OwnStays

(* After a step that leaves nothing of this pending but what is new.         *)
Weighty == {"alloc", "nextPmt", "leaveTs", "after"} \cup Movers

LEMMA OnlyNew ==
  ASSUME OrderInv, todo # <<>>
  PROVE  /\ Head(todo)[1] \notin Short \cup {"leaveTs"} =>
              /\ \A names : New(names) \/ Anew(names)
                   => \A q \in Pending' : q[1] \in names \/ q[1] \notin Weighty
              /\ \A names, T : NewFor(names, T)
                   => \A q \in Pending' : \/ q[1] \in names /\ (q[1] = "alloc" => q[2] \in T)
                                          \/ q[1] \notin Weighty
         /\ Head(todo) \in Pending /\ Due({Head(todo)[1]})
         /\ New({}) => \A q \in Pending' : q \in Steps(Rest)
  <1>1. Head(todo)[1] \notin Short \cup {"leaveTs"} => \A q \in Steps(Rest) : q[1] \notin Weighty
    BY RestIs DEF Tame, Weighty
  <1>2. "alloc" \in TableSteps
    BY DEF TableSteps
  <1> QED
    BY <1>1, <1>2, AheadIs DEF New, Anew, NewFor, Pending, Due

LEMMA Pushes ==
  /\ \A names : (\A q \in Pending' : q[1] \in names \/ q[1] \notin Weighty) =>
       \A n \in Weighty : n \notin names => \A q \in Pending' : q[1] # n
  /\ {"alloc", "nextPmt", "leaveTs", "after", "outcome", "nextTs", "tune", "setPara", "tryNit"}
       \subseteq Weighty
  BY DEF Weighty, Movers

LEMMA NetworkOwn ==
  ASSUME OwnInv, WaitsInv', ~crashed, NitDone \/ BatDone
  PROVE  OwnInv'
  <1>1. OrderInv /\ MovesInv'
    BY DEF OwnInv, WaitsInv, OrderInv
  <1>2. PICK t \in Network :
          /\ todo # <<>> /\ Head(todo)[1] = "after" /\ Head(todo)[2] = t
          /\ recv' \in {recv, recv \ {t}}
          /\ UNCHANGED <<mode, stage, ts, tuned, fid, call, callFreq, crashed>>
    <2>1. CASE NitDone
      <3>1. /\ todo # <<>> /\ Head(todo)[1] = "after" /\ Head(todo)[2] = "nit"
            /\ recv' \in {recv, recv \ {"nit"}}
            /\ UNCHANGED <<mode, stage, ts, tuned, fid, call, callFreq, crashed>>
        BY <2>1 DEF NitDone, After, At, Arg, NotWaiting, app, frontend, tables, demux
      <3> QED
        BY <3>1 DEF Network
    <2>2. CASE BatDone
      <3>1. /\ todo # <<>> /\ Head(todo)[1] = "after" /\ Head(todo)[2] = "bat"
            /\ recv' \in {recv, recv \ {"bat"}}
            /\ UNCHANGED <<mode, stage, ts, tuned, fid, call, callFreq, crashed>>
        BY <2>2 DEF BatDone, After, At, Arg, NotWaiting, app, plan, frontend, tables, demux
      <3> QED
        BY <3>1 DEF Network
    <2> QED
      BY <2>1, <2>2
  <1>3. Head(todo)[1] \notin Short \cup {"leaveTs"}
    BY <1>2 DEF Short
  <1>4. New({"tryNit"}) \/ (New({"signal", "nextTs"}) /\ recv' = {}) \/ New({})
    BY <1>1, NetworkOrder
  <1>5. /\ \A q \in Pending' : q[1] \in {"tryNit", "signal", "nextTs"} \/ q[1] \notin Weighty
        /\ recv' = {} \/ \A q \in Pending' : q[1] \in {"tryNit"} \/ q[1] \notin Weighty
    BY <1>1, <1>2, <1>3, <1>4, OnlyNew
  <1>6. /\ \A q \in Pending' : q[1] \notin {"alloc", "leaveTs", "after", "outcome", "tune", "setPara"}
        /\ recv' = {} \/ \A q \in Pending' : q[1] # "nextTs"
    BY <1>5, Pushes
  <1>7. ASSUME ~NitEndsTwice PROVE Own'
    <2>1. Own /\ Head(todo) \in Pending
      BY <1>1, <1>2, <1>7, OnlyNew DEF OwnInv
    <2>2. stage # "TS" /\ ts = None
      BY <1>2, <2>1 DEF Own, NetworkOver, OnTs
    <2>3. NetworkOver' /\ OnTs' /\ OffTs' /\ Listening'
      BY <1>2, <1>6, <2>1, <2>2 DEF Own, NetworkOver, OnTs, OffTs, Listening, Due
    <2>4. Heard'
      BY <1>2, <2>1 DEF Own, Heard
    <2> QED
      BY <2>3, <2>4 DEF Own
  <1>8. Sound'
    BY <1>2 DEF OwnInv, Sound
  <1> QED
    BY <1>2, <1>7, <1>8, OwnStays

LEMMA StagesOwn ==
  ASSUME OwnInv, WaitsInv', ~crashed, TryNit \/ StartNextTs
  PROVE  OwnInv'
  <1>1. OrderInv /\ MovesInv' /\ MovesInv
    BY DEF OwnInv, WaitsInv, OrderInv
  <1>2. /\ todo # <<>> /\ UNCHANGED <<mode, recv, freqs, curr, ts, tuned, fid, call, callFreq, crashed>>
        /\ \/ TryNit /\ Head(todo)[1] = "tryNit" /\ stage' = "NIT"
           \/ StartNextTs /\ Head(todo)[1] = "nextTs" /\ stage' = "TS"
    BY DEF TryNit, StartNextTs, At, app, frontend, tables, demux
  <1>3. Head(todo)[1] \notin Short \cup {"leaveTs"}
    BY <1>2 DEF Short
  <1>4. Sound'
    BY <1>2 DEF OwnInv, Sound
  <1>5. ASSUME ~NitEndsTwice PROVE Own'
    <2>1. Own /\ Head(todo) \in Pending
      BY <1>1, <1>2, <1>5, OnlyNew DEF OwnInv
    <2>2. Heard'
      BY <1>2, <2>1 DEF Own, Heard
    <2>3. CASE TryNit
      <3>1. New({"signal", "tune"})
        BY <1>1, <2>3, StagesOrder
      <3>2. \A q \in Pending' : q[1] \notin {"alloc", "leaveTs", "after", "outcome", "nextTs", "setPara", "tryNit"}
        BY <1>1, <1>2, <1>3, <3>1, OnlyNew, Pushes
      <3>3. Head(todo)[1] = "tryNit" /\ stage' = "NIT"
        BY <2>3 DEF TryNit, At
      <3>4. ts = None
        BY <2>1, <3>3 DEF Own, OnTs, Due
      <3>5. NetworkOver' /\ OnTs' /\ OffTs' /\ Listening'
        BY <1>2, <2>1, <3>2, <3>3, <3>4 DEF Own, NetworkOver, OnTs, OffTs, Listening, Due
      <3> QED
        BY <2>2, <3>5 DEF Own
    <2>4. CASE StartNextTs
      <3>1. New({"signal", "leaveTs", "tune"}) /\ \E q \in Steps(todo') : q[1] = "leaveTs"
        BY <1>1, <2>4, StagesOrder
      <3>2. \A q \in Pending' : q[1] \notin {"alloc", "after", "outcome", "nextTs", "setPara", "tryNit"}
        BY <1>1, <1>2, <1>3, <3>1, OnlyNew, Pushes
      <3>3. Head(todo)[1] = "nextTs" /\ stage' = "TS"
        BY <2>4 DEF StartNextTs, At
      <3>4. "fend" \notin recv
        <4>1. todo[1] = Head(todo) /\ 1 \in 1..Len(todo)
          BY <1>1, <1>2, AfterHead
        <4> QED
          BY <1>1, <3>3, <4>1 DEF MovesInv, Awaited, Lacks
      <3>5. Due({"nextTs"}) /\ Due({"nextTs", "leaveTs"})
        BY <2>1, <3>3 DEF Due
      <3>6. NetworkOver'
        BY <1>2, <2>1, <3>2, <3>5 DEF Own, NetworkOver
      <3>7. OnTs'
        BY <1>2, <2>1, <3>1, <3>2, <3>3 DEF Own, OnTs, Due, Pending
      <3>8. OffTs'
        BY <1>2, <2>1, <3>2, <3>5 DEF Own, OffTs
      <3>9. Listening'
        BY <1>2, <3>2, <3>4 DEF Listening, Due
      <3> QED
        BY <2>2, <3>6, <3>7, <3>8, <3>9 DEF Own
    <2> QED
      BY <1>2, <2>3, <2>4
  <1> QED
    BY <1>2, <1>4, <1>5, OwnStays

LEMMA LeaveOwn ==
  ASSUME OwnInv, WaitsInv', ~crashed, LeaveTs
  PROVE  OwnInv'
  <1>1. OrderInv /\ MovesInv'
    BY DEF OwnInv, WaitsInv, OrderInv
  <1>2. /\ todo # <<>> /\ Head(todo)[1] = "leaveTs" /\ ts' = None
        /\ UNCHANGED <<mode, stage, recv, freqs, curr, tuned, fid, call, callFreq, crashed>>
    BY DEF LeaveTs, At, app, plan, frontend, demux
  <1>3. \A q \in Pending' : q \in Pending /\ q[1] \notin {"alloc", "leaveTs", "after"}
    <2>1. New({})
      BY <1>1, StagesOrder
    <2>2. \A q \in Pending' : q \in Steps(Rest)
      BY <1>1, <1>2, <2>1, OnlyNew
    <2> QED
      BY <1>1, <1>2, <2>2, AheadIs DEF Precedes, Short
  <1>4. ASSUME ~NitEndsTwice PROVE Own'
    <2>1. Own /\ Due({"nextTs", "leaveTs"})
      BY <1>1, <1>2, <1>4, OnlyNew DEF OwnInv, Due
    <2>2. \A t \in TsTables : t \notin recv
      BY <2>1 DEF Own, OffTs
    <2>3. NetworkOver'
      BY <1>2, <1>3, <2>1 DEF Own, NetworkOver, Due
    <2>4. OnTs' /\ OffTs'
      BY <1>2, <1>3, <2>2 DEF OnTs, OffTs
    <2>5. Listening'
      BY <1>2, <1>3, <2>1 DEF Own, Listening, Due, InList, Count
    <2>6. Heard'
      BY <1>2, <2>2, TableNames DEF Heard, OwnInv, WaitsInv, Expected
    <2> QED
      BY <2>3, <2>4, <2>5, <2>6 DEF Own
  <1>5. Sound'
    BY <1>2 DEF OwnInv, Sound
  <1> QED
    BY <1>2, <1>4, <1>5, OwnStays

(* A step that leads to another frequency finds no current TS, or leaves it, *)
(* and in the TS stage the frontend is not waited for.                       *)
LEMMA NotOnTs ==
  ASSUME OwnInv, Own, todo # <<>>, Head(todo)[1] \in {"outcome", "tune", "setPara", "tryNit"}
  PROVE  /\ ts = None /\ \A t \in TsTables : t \notin recv
         /\ \A q \in Pending : q[1] = "alloc" => q[2] \notin TsTables
         /\ stage = "TS" /\ Head(todo)[1] \in {"tune", "setPara"} => "fend" \notin recv
         /\ Head(todo)[1] = "outcome" => "fend" \notin recv
  <1>1. OrderInv /\ MovesInv
    BY DEF OwnInv, WaitsInv, OrderInv
  <1>2. ts = None
    <2>1. Head(todo)[1] \in {"outcome", "setPara", "tryNit"} => ts = None
      BY <1>1, OnlyNew DEF Own, OnTs, Due
    <2>2. Head(todo)[1] = "tune" => Due({"tune"}) /\ ~Due({"leaveTs"})
      BY <1>1, OnlyNew, Brought
    <2> QED
      BY <2>1, <2>2 DEF Own, OnTs
  <1>3. todo[1] = Head(todo) /\ 1 \in 1..Len(todo)
    BY <1>1, AfterHead
  <1>4. /\ stage = "TS" /\ Head(todo)[1] \in {"tune", "setPara"} => "fend" \notin recv
        /\ Head(todo)[1] = "outcome" => "fend" \notin recv
    BY <1>1, <1>3 DEF MovesInv, Awaited, Lacks
  <1> QED
    BY <1>2, <1>4 DEF Own, OffTs

LEMMA TuneOwn ==
  ASSUME OwnInv, WaitsInv', ~crashed, TuneNext \/ SetPara
  PROVE  OwnInv'
  <1>1. OrderInv /\ MovesInv' /\ MovesInv
    BY DEF OwnInv, WaitsInv, OrderInv
  <1>2. /\ todo # <<>> /\ Head(todo)[1] \in {"tune", "setPara"}
        /\ UNCHANGED <<mode, ts, fid, call, callFreq, crashed>>
    BY DEF TuneNext, SetPara, At, app, plan, frontend, tables, demux
  <1>3. Head(todo)[1] \notin Short \cup {"leaveTs"}
    BY <1>2 DEF Short
  <1>4. Sound'
    BY <1>2 DEF OwnInv, Sound
  <1>5. ASSUME ~NitEndsTwice PROVE Own'
    <2>1. Own /\ Head(todo) \in Pending
      BY <1>1, <1>2, <1>5, OnlyNew DEF OwnInv
    <2>2. /\ ts = None /\ \A t \in TsTables : t \notin recv
          /\ stage = "TS" => "fend" \notin recv
      BY <1>2, <2>1, NotOnTs
    <2>3. Heard'
      BY <1>2, <2>1 DEF Own, Heard
    <2>4. CASE TuneNext
      <3>1. /\ Head(todo)[1] = "tune" /\ UNCHANGED <<recv, tuned>> /\ stage' \in {stage, "DONE"}
            /\ curr + 1 < Count => curr' = curr + 1 /\ freqs' = freqs
        <4>1. /\ Head(todo)[1] = "tune" /\ UNCHANGED <<recv, tuned>>
              /\ IF curr + 1 >= Count THEN stage' = "DONE"
                 ELSE curr' = curr + 1 /\ UNCHANGED <<freqs, stage>>
          BY <2>4 DEF TuneNext, At, frontend
        <4>2. curr \in Int /\ Count \in Int
          BY <1>1 DEF MovesInv, IInv, TypeOK, Count
        <4> QED
          BY <4>1, <4>2
      <3>2. New({"signal", "setPara"}) /\ (curr + 1 >= Count => New({"signal"}))
        BY <1>1, <2>4, TuneOrder
      <3>3. \A q \in Pending' : q[1] \notin {"alloc", "leaveTs", "after", "outcome", "nextTs", "tune", "tryNit"}
        BY <1>1, <1>2, <1>3, <3>2, OnlyNew, Pushes
      <3>4. NetworkOver' /\ OnTs' /\ OffTs'
        BY <1>2, <2>1, <2>2, <3>1, <3>3 DEF Own, NetworkOver, OnTs, OffTs, Due
      <3>5. Listening'
        <4>1. curr \in Int /\ curr >= -1 /\ Count \in Int
          BY <1>1 DEF MovesInv, IInv, TypeOK, Count
        <4>2. curr + 1 >= Count => \A q \in Pending' : q[1] # "setPara"
          BY <1>1, <1>2, <1>3, <3>2, OnlyNew, Pushes
        <4>3. Due({"setPara"})' => InList'
          <5>1. Due({"setPara"})' => curr + 1 < Count
            BY <4>1, <4>2 DEF Due
          <5>2. curr + 1 < Count => Count' = Count
            BY <3>1 DEF Count
          <5> QED
            BY <3>1, <4>1, <5>1, <5>2 DEF InList
        <4>4. ~(stage' = "TS" /\ ("fend" \in recv' \/ Due({"outcome"})'))
          BY <2>2, <3>1, <3>3 DEF Due
        <4> QED
          BY <4>3, <4>4 DEF Listening
      <3> QED
        BY <2>3, <3>4, <3>5 DEF Own
    <2>5. CASE SetPara
      <3>1. /\ Head(todo)[1] = "setPara" /\ UNCHANGED <<stage, freqs, curr>>
            /\ \/ UNCHANGED <<recv, tuned>>
               \/ recv' = recv \cup {"fend"} /\ tuned' = freqs[curr + 1] /\ New({})
        <4>1. /\ Head(todo)[1] = "setPara" /\ UNCHANGED <<stage, freqs, curr>>
              /\ \/ UNCHANGED <<recv, tuned>>
                 \/ /\ recv' = recv \cup {"fend"} /\ tuned' = freqs[curr + 1]
                    /\ tuned' # tuned \/ recv' # recv
          BY <2>5 DEF SetPara, At, plan, frontend
        <4> QED
          BY <1>1, <2>5, <4>1, TuneOrder
      <3>2. New({"signal", "tune"})
        BY <1>1, <2>5, TuneOrder
      <3>3. \A q \in Pending' : q[1] \notin {"alloc", "leaveTs", "after", "outcome", "nextTs", "setPara", "tryNit"}
        BY <1>1, <1>2, <1>3, <3>2, OnlyNew, Pushes
      <3>4. \A t \in Tables : t \in recv' <=> t \in recv
        BY <3>1, TableNames
      <3>5. NetworkOver' /\ OnTs' /\ OffTs'
        BY <1>2, <2>1, <2>2, <3>1, <3>3, <3>4, TableNames DEF Own, NetworkOver, OnTs, OffTs, Due
      <3>6. Listening'
        <4>1. InList
          BY <2>1, <3>1 DEF Own, Listening, Due
        <4>2. InList'
          BY <3>1, <4>1 DEF InList, Count
        <4> QED
          BY <2>2, <3>1, <3>3, <4>2 DEF Listening, Due
      <3> QED
        BY <2>3, <3>5, <3>6 DEF Own
    <2> QED
      BY <2>4, <2>5
  <1> QED
    BY <1>2, <1>4, <1>5, OwnStays

LEMMA FendOwn ==
  ASSUME OwnInv, WaitsInv', ~crashed, SolveFendEvt \/ Unlocked \/ LockedNit
  PROVE  OwnInv'
  <1>1. OrderInv /\ MovesInv' /\ MovesInv
    BY DEF OwnInv, WaitsInv, OrderInv
  <1>2. /\ todo # <<>> /\ Head(todo)[1] \in {"fend", "outcome"}
        /\ UNCHANGED <<mode, stage, freqs, curr, ts, tuned, fid, call, callFreq, crashed>>
        /\ recv' \in {recv, recv \ {"fend"}}
    BY DEF SolveFendEvt, Unlocked, LockedNit, At, app, plan, frontend, tables, demux
  <1>3. Head(todo)[1] \notin Short \cup {"leaveTs"}
    BY <1>2 DEF Short
  <1>4. Sound'
    BY <1>2 DEF OwnInv, Sound
  <1>5. \A t \in Tables : t \in recv' <=> t \in recv
    BY <1>2, TableNames
  <1>6. ASSUME ~NitEndsTwice PROVE Own'
    <2>1. Own /\ Head(todo) \in Pending
      BY <1>1, <1>2, <1>6, OnlyNew DEF OwnInv
    <2>2. Heard'
      BY <1>2, <2>1 DEF Own, Heard
    <2>3. CASE SolveFendEvt
      <3>1. New({"signal", "outcome"}) /\ ("fend" \in recv \/ New({}))
        BY <1>1, <2>3, FendOrder
      <3>2. /\ \A q \in Pending' : q[1] \notin {"alloc", "leaveTs", "after", "nextTs", "tune", "setPara", "tryNit"}
            /\ "fend" \in recv \/ \A q \in Pending' : q[1] # "outcome"
        BY <1>1, <1>2, <1>3, <3>1, OnlyNew, Pushes
      <3>3. NetworkOver' /\ OnTs' /\ OffTs'
        BY <1>2, <1>5, <2>1, <3>2, TableNames DEF Own, NetworkOver, OnTs, OffTs, Due
      <3>4. Listening'
        BY <1>2, <2>1, <3>2 DEF Own, Listening, Due, InList, Count
      <3> QED
        BY <2>2, <3>3, <3>4 DEF Own
    <2>4. CASE Unlocked \/ LockedNit
      <3>1. Head(todo)[1] = "outcome" /\ (LockedNit => stage # "TS")
        BY <2>4 DEF Unlocked, LockedNit, At
      <3>2. /\ ts = None /\ \A t \in TsTables : t \notin recv
        BY <1>2, <2>1, <3>1, NotOnTs
      <3>3. \/ stage = "TS" /\ New({"nextTs"})
            \/ stage # "TS" /\ New({"tryNit"})
            \/ stage # "TS" /\ NewFor({"free", "alloc"}, {"nit", "bat"})
        BY <1>1, <2>4, <3>1, FendOrder
      <3>4. /\ \A q \in Pending' : q[1] \notin {"leaveTs", "after", "outcome", "tune", "setPara"}
            /\ \A q \in Pending' : q[1] = "alloc" => stage # "TS" /\ q[2] \in {"nit", "bat"}
            /\ stage # "TS" => \A q \in Pending' : q[1] # "nextTs"
        BY <1>1, <1>2, <1>3, <3>3, OnlyNew DEF Weighty, Movers
      <3>5. NetworkOver' /\ OnTs' /\ OffTs'
        BY <1>2, <1>5, <2>1, <3>2, <3>4, TableNames DEF Own, NetworkOver, OnTs, OffTs, Due, TsTables
      <3>6. Listening'
        BY <1>2, <2>1, <3>4 DEF Own, Listening, Due, InList, Count
      <3> QED
        BY <2>2, <3>5, <3>6 DEF Own
    <2> QED
      BY <2>3, <2>4
  <1> QED
    BY <1>2, <1>4, <1>6, OwnStays

LEMMA LockedOwn ==
  ASSUME OwnInv, WaitsInv', ~crashed, LockedTs
  PROVE  OwnInv'
  <1>1. OrderInv /\ MovesInv' /\ MovesInv
    BY DEF OwnInv, WaitsInv, OrderInv
  <1>2. /\ todo # <<>> /\ Head(todo)[1] = "outcome" /\ stage = "TS"
        /\ UNCHANGED <<mode, stage, freqs, curr, tuned, fid, call, callFreq, recv>>
        /\ InList => ts' = freqs[curr + 1] /\ crashed' = FALSE
    BY DEF LockedTs, At, app, plan, frontend, demux
  <1>3. Head(todo)[1] \notin Short \cup {"leaveTs"}
    BY <1>2 DEF Short
  <1>4. ASSUME ~NitEndsTwice PROVE Own' /\ crashed' = FALSE
    <2>1. Own /\ Head(todo) \in Pending
      BY <1>1, <1>2, <1>4, OnlyNew DEF OwnInv
    <2>2. /\ ts = None /\ "fend" \notin recv /\ \A t \in TsTables : t \notin recv
      BY <1>2, <2>1, NotOnTs
    <2>3. InList /\ tuned = freqs[curr + 1]
      BY <1>2, <2>1 DEF Own, Listening, Due
    <2>4. ts' = tuned /\ ts' # None /\ crashed' = FALSE
      <3>1. freqs[curr + 1] \in Freqs
        <4>1. freqs \in Seq(Freqs) /\ Count = Len(freqs)
          <5>1. freqs # None
            <6>1. freqs = None => Count = 0
              BY DEF Count
            <6>2. curr \in Int
              BY <1>1 DEF MovesInv, IInv, TypeOK, Count
            <6> QED
              BY <2>3, <6>1, <6>2 DEF InList
          <5> QED
            BY <1>1, <5>1, Typed DEF MovesInv, Count
        <4>2. curr \in Int
          BY <1>1 DEF MovesInv, IInv, TypeOK, Count
        <4>3. curr + 1 \in 1..Len(freqs)
          BY <2>3, <4>1, <4>2 DEF InList
        <4> QED
          BY <4>1, <4>3
      <3> QED
        BY <1>2, <2>3, <3>1, ScanAssumption DEF ScanAssumption
    <2>5. NewFor({"free", "alloc"}, {"pat", "cat", "sdt", "mgt"})
      BY <1>1, FendOrder
    <2>6. \A q \in Pending' :
            /\ q[1] \notin {"leaveTs", "after", "outcome", "nextTs", "tune", "setPara", "tryNit"}
            /\ q[1] = "alloc" => q[2] \in TsTables
      BY <1>1, <1>2, <1>3, <2>5, OnlyNew DEF Weighty, Movers, TsTables
    <2>7. NetworkOver'
      BY <1>2, <2>1, <2>6, TableNames DEF Own, NetworkOver
    <2>8. OnTs' /\ OffTs' /\ Listening'
      BY <1>2, <2>2, <2>4, <2>6 DEF OnTs, OffTs, Listening, Due
    <2>9. Heard'
      BY <1>2, <2>2, TableNames DEF Heard, OwnInv, WaitsInv, Expected
    <2> QED
      BY <2>4, <2>7, <2>8, <2>9 DEF Own
  <1>5. Sound'
    BY <1>2, <1>4 DEF Sound, NitEndsTwice
  <1> QED
    BY <1>2, <1>4, <1>5, OwnStays

LEMMA AllocateOwn ==
  ASSUME OwnInv, WaitsInv', ~crashed, AllocateFilter
  PROVE  OwnInv'
  <1>1. OrderInv /\ MovesInv'
    BY DEF OwnInv, WaitsInv, OrderInv
  <1>2. /\ todo # <<>> /\ Head(todo)[1] = "alloc" /\ Arg = Head(todo)[2]
        /\ UNCHANGED <<mode, stage, freqs, curr, ts, tuned, call, callFreq, crashed>>
    BY DEF AllocateFilter, At, Arg, app, plan, frontend, Dmx!Take
  <1>3. PICK u \in Tables :
           /\ u = Arg /\ recv' \in {recv, recv \cup {u}} /\ New({}) /\ fid[u] = -1
           /\ FilterTaken(u) \/ UNCHANGED fid
    BY <1>1, AllocateOrder
  <1>4. \A q \in Pending' : q \in Pending /\ q[1] \notin Movers /\ q[1] # "leaveTs"
    <2>1. \A q \in Pending' : q \in Steps(Rest)
      BY <1>1, <1>2, <1>3, OnlyNew
    <2> QED
      BY <1>1, <1>2, <2>1, AheadIs DEF Precedes, Between
  <1>5. ASSUME ~NitEndsTwice PROVE Own'
    <2>1. Own /\ Head(todo) \in Pending
      BY <1>1, <1>2, <1>5, OnlyNew DEF OwnInv
    <2>2. "fend" \in recv' => "fend" \in recv
      BY <1>3, TableNames
    <2>3. ~Due({"nextTs", "leaveTs"})' /\ ~Due({"nextTs"})'
      BY <1>4 DEF Due, Movers
    <2>4. NetworkOver'
      BY <1>2, <1>3, <1>4, <2>1, <2>3 DEF Own, NetworkOver
    <2>5. OnTs'
      BY <1>2, <1>4, <2>1, <2>2 DEF Own, OnTs, Due, Movers
    <2>6. OffTs'
      BY <1>2, <1>3, <1>4, <2>1, <2>3 DEF Own, OffTs
    <2>7. Listening'
      BY <1>2, <1>4, <2>1, <2>2 DEF Own, Listening, Due, InList, Count
    <2>8. Heard'
      <3>1. CASE UNCHANGED fid
        BY <1>2, <2>1, <3>1 DEF Own, Heard
      <3>2. CASE FilterTaken(u)
        <4>1. PICK f \in FilterIds : Free(f) /\ \A t \in Tables : fid'[t] = IF t = u THEN f ELSE fid[t]
          BY <3>2 DEF FilterTaken
        <4>2. st[Self][f] = "quiet" /\ call # <<f, Self>>
          BY <1>1, <4>1, AllocateOrder, DemuxTyped DEF OrderInv, MovesInv, Free, Held
        <4>3. call # None => call[1] # f
          BY <1>1, <4>2, DemuxTyped DEF OrderInv, MovesInv
        <4> QED
          BY <1>2, <2>1, <4>1, <4>3, TableNames DEF Own, Heard
      <3> QED
        BY <1>3, <3>1, <3>2
    <2> QED
      BY <2>4, <2>5, <2>6, <2>7, <2>8 DEF Own
  <1>6. Sound'
    BY <1>2 DEF OwnInv, Sound
  <1> QED
    BY <1>2, <1>5, <1>6, OwnStays

LEMMA CompleteOwn ==
  ASSUME OwnInv, WaitsInv', ~crashed, TsComplete
  PROVE  OwnInv'
  <1>1. OrderInv /\ MovesInv'
    BY DEF OwnInv, WaitsInv, OrderInv
  <1>2. /\ todo # <<>> /\ Head(todo)[1] = "tsComplete"
        /\ UNCHANGED <<mode, stage, recv, freqs, curr, ts, tuned, fid, call, callFreq, crashed>>
    BY DEF TsComplete, At, app, plan, frontend, tables, demux
  <1>3. Head(todo)[1] \notin Short \cup {"leaveTs"}
    BY <1>2 DEF Short
  <1>4. Anew({"nextTs", "wait"}) /\ ((stage = "TS" /\ recv = {}) \/ Anew({"wait"}))
    BY <1>1, RoundsOrder
  <1>5. /\ \A q \in Pending' : q[1] \in {"nextTs", "wait"}
        /\ (stage = "TS" /\ recv = {}) \/ \A q \in Pending' : q[1] = "wait"
    BY <1>4 DEF Anew, Pending
  <1>6. ASSUME ~NitEndsTwice PROVE Own'
    <2>1. Own
      BY <1>6 DEF OwnInv
    <2>2. NetworkOver' /\ OnTs' /\ OffTs'
      BY <1>2, <1>5, <2>1 DEF Own, NetworkOver, OnTs, OffTs, Due
    <2>3. Listening' /\ Heard'
      BY <1>2, <1>5, <2>1 DEF Own, Listening, Heard, Due, InList, Count
    <2> QED
      BY <2>2, <2>3 DEF Own
  <1>7. Sound'
    BY <1>2 DEF OwnInv, Sound
  <1> QED
    BY <1>2, <1>6, <1>7, OwnStays

(* A scan that was not started receives nothing.                             *)
LEMMA NotStarted ==
  ASSUME OwnInv, ~NitEndsTwice, ~crashed, ~started
  PROVE  recv = {} /\ ts = None /\ call = None /\ stage = "WAIT_START"
  <1>1. IInv
    BY DEF OwnInv, WaitsInv, OrderInv, MovesInv
  <1>2. recv = {} /\ stage = "WAIT_START" /\ \A f \in FilterIds : st[Self][f] = "quiet"
    BY <1>1 DEF IInv, Starting
  <1>3. call = None
    BY <1>1, <1>2, DemuxTyped
  <1> QED
    BY <1>2, <1>3 DEF OwnInv, Own, OnTs

LEMMA StartOwn ==
  ASSUME OwnInv, WaitsInv', ~crashed, StartScan
  PROVE  OwnInv'
  <1>1. OrderInv /\ MovesInv'
    BY DEF OwnInv, WaitsInv, OrderInv
  <1>2. /\ todo # <<>> /\ Head(todo)[1] = "start"
        /\ UNCHANGED <<mode, stage, recv, ts, call, crashed>>
    BY DEF StartScan, At, app, demux
  <1>3. Head(todo)[1] \notin Short \cup {"leaveTs"}
    BY <1>2 DEF Short
  <1>4. New({"tryNit", "nextTs"}) /\ ~started
    BY <1>1, BeginOrder
  <1>5. \A q \in Pending' : q[1] \notin {"alloc", "leaveTs", "after", "outcome", "tune", "setPara"}
    BY <1>1, <1>2, <1>3, <1>4, OnlyNew, Pushes
  <1>6. ASSUME ~NitEndsTwice PROVE Own'
    <2>1. recv' = {} /\ ts' = None /\ call' = None /\ stage' = "WAIT_START"
      BY <1>2, <1>4, <1>6, NotStarted
    <2> QED
      BY <1>5, <2>1 DEF Own, NetworkOver, OnTs, OffTs, Listening, Heard, Due
  <1>7. Sound'
    BY <1>2 DEF OwnInv, Sound
  <1> QED
    BY <1>2, <1>6, <1>7, OwnStays

LEMMA CreateOwn ==
  ASSUME OwnInv, WaitsInv', ~crashed, NEW m \in Modes, Create(m)
  PROVE  OwnInv'
  <1>1. OrderInv /\ MovesInv'
    BY DEF OwnInv, WaitsInv, OrderInv
  <1>2. life = "none" /\ UNCHANGED <<stage, recv, ts, call, crashed>>
    BY DEF Create, demux
  <1>3. mode = NoMode /\ ~started
    BY <1>1, <1>2 DEF OrderInv, MovesInv, Fresh, IInv, Living
  <1>4. ~NitEndsTwice
    BY <1>3 DEF NitEndsTwice, NoMode
  <1>5. recv' = {} /\ ts' = None /\ call' = None /\ stage' = "WAIT_START"
    BY <1>2, <1>3, <1>4, NotStarted
  <1>6. \A q \in Pending' : q[1] \in {"checks", "tsComplete"}
    BY <1>1, CreateOrder DEF Anew, Pending
  <1>7. Own'
    BY <1>5, <1>6 DEF Own, NetworkOver, OnTs, OffTs, Listening, Heard, Due
  <1> QED
    BY <1>2, <1>7 DEF OwnInv, Sound

LEMMA DeliverOwn ==
  ASSUME OwnInv, WaitsInv', ~crashed, NEW f \in FilterIds, Deliver(f)
  PROVE  OwnInv'
  <1>1. Pending' = Pending
    BY OthersOrder DEF OwnInv, WaitsInv, OrderInv
  <1>2. /\ UNCHANGED <<mode, stage, recv, freqs, curr, ts, tuned, fid, crashed>>
        /\ call' = <<f, Self>> /\ callFreq' = tuned
    BY DEF Deliver, Dmx!Deliver, app, plan, frontend, tables
  <1>3. ASSUME ~NitEndsTwice PROVE Own'
    <2>1. Own
      BY <1>3 DEF OwnInv
    <2>2. NetworkOver' /\ OnTs' /\ OffTs' /\ Listening'
      BY <1>1, <1>2, <2>1 DEF Own, NetworkOver, OnTs, OffTs, Listening, Due, InList, Count
    <2>3. \A t \in TsTables : fid[t] = f => t \in recv
      <3>1. <<f, Self>> # None
        BY Typed DEF OwnInv, WaitsInv, OrderInv, MovesInv
      <3> QED
        BY <1>2, <3>1, TableNames DEF WaitsInv, Expected
    <2>4. Heard'
      BY <1>2, <2>1, <2>3 DEF Own, OnTs, OffTs, Heard
    <2> QED
      BY <2>2, <2>4 DEF Own
  <1>4. Sound'
    BY <1>2 DEF OwnInv, Sound
  <1> QED
    BY <1>2, <1>3, <1>4, OwnStays

LEMMA OwnInit == Init => OwnInv
  <1> SUFFICES ASSUME Init PROVE OwnInv
    OBVIOUS
  <1>1. /\ todo = <<>> /\ recv = {} /\ ts = None /\ call = None /\ stage = "WAIT_START" /\ crashed = FALSE
    BY DEF Init, Dmx!Init
  <1>2. Pending = {}
    BY <1>1, StepsFew DEF Pending
  <1> QED
    BY <1>1, <1>2, WaitsInit
       DEF OwnInv, Sound, Own, NetworkOver, OnTs, OffTs, Listening, Heard, Due

LEMMA OwnStep == OwnInv /\ [Next]_vars => OwnInv'
  <1> SUFFICES ASSUME OwnInv, [Next]_vars PROVE OwnInv'
    OBVIOUS
  <1>0. WaitsInv'
    BY WaitsStep DEF OwnInv
  <1>1. CASE UNCHANGED vars
    <2>1. /\ Pending' = Pending
          /\ UNCHANGED <<mode, stage, recv, freqs, curr, ts, tuned, fid, call, callFreq, crashed>>
      BY <1>1 DEF vars, app, plan, frontend, tables, demux, Pending
    <2> QED
      BY <1>0, <2>1 DEF OwnInv, Sound, NitEndsTwice, Own, NetworkOver, OnTs, OffTs, Listening, Heard,
                        Due, InList, Count
  <1>2. CASE Next
    <2>0. ~crashed
      BY <1>2 DEF Next
    <2>1. CASE \/ FreeFilter \/ Sync \/ TablesDone \/ CheckTimeout
               \/ Wake \/ SpuriousWake \/ WaitTimesOut \/ EndBatch \/ Begin
               \/ Quit \/ Unsubscribe \/ FreeAll \/ ExitSync \/ Release
      BY <1>0, <2>0, <2>1, QuietSteps
    <2>2. CASE Handle \/ FendSignal \/ FendCallback \/ FendNobody \/ Start \/ Destroy \/ Join
      BY <1>0, <2>0, <2>2, QuietOthers
    <2>3. CASE \/ SignalEvent \/ NextPmt
               \/ PatDone \/ CatDone \/ SdtDone \/ MgtDone \/ VctDone \/ PmtDone
      BY <1>0, <2>0, <2>3, QuietSignal, QuietNextPmt, QuietDones
    <2>4. CASE NitDone \/ BatDone
      BY <1>0, <2>0, <2>4, NetworkOwn
    <2>5. CASE TryNit \/ StartNextTs \/ LeaveTs \/ TuneNext \/ SetPara
      BY <1>0, <2>0, <2>5, StagesOwn, LeaveOwn, TuneOwn
    <2>6. CASE SolveFendEvt \/ Unlocked \/ LockedNit \/ LockedTs
      BY <1>0, <2>0, <2>6, FendOwn, LockedOwn
    <2>7. CASE AllocateFilter \/ TsComplete \/ StartScan
      BY <1>0, <2>0, <2>7, AllocateOwn, CompleteOwn, StartOwn
    <2>8. ASSUME NEW f \in FilterIds, Deliver(f) PROVE OwnInv'
      BY <1>0, <2>0, <2>8, DeliverOwn
    <2>9. ASSUME NEW m \in Modes, Create(m) PROVE OwnInv'
      BY <1>0, <2>0, <2>9, CreateOwn
    <2> QED
      BY <1>2, <2>1, <2>2, <2>3, <2>4, <2>5, <2>6, <2>7, <2>8, <2>9 DEF Next, ThreadStep
  <1> QED
    BY <1>1, <1>2

(* Unless a NIT is ended twice: the tables of a transport stream are received *)
(* only while the scanner has a current TS and the frontend is tuned to it.  *)
(* The scan crashes only if tables are completed as their timeouts are       *)
(* handled.                                                                  *)
THEOREM OwnInvariance == Spec => []OwnInv
  BY OwnInit, OwnStep, PTL DEF Spec

(* What is collected for a transport stream was broadcast on its frequency,  *)
(* although am_scan_section_handler runs on another thread and later.        *)
THEOREM SectionsAreOwn == Spec => SectionsOfOwnTs
  <1>1. OwnInv /\ [Next]_vars
          => [ts # None /\ ~NitEndsTwice /\ call # None /\ Handle
                => \A t \in Owners(call[1]) \cap TsTables : callFreq = ts]_vars
    <2> SUFFICES ASSUME OwnInv, [Next]_vars, ~NitEndsTwice, call # None, Handle,
                        NEW t \in Owners(call[1]) \cap TsTables
                 PROVE  callFreq = ts
      OBVIOUS
    <2>1. fid[t] = call[1]
      BY DEF Owners
    <2>2. ~crashed
      <3>1. call' # call
        BY DEF Handle, Dmx!Return
      <3> QED
        BY <3>1 DEF vars, demux, Next
    <2> QED
      BY <2>1, <2>2 DEF OwnInv, Own, Heard
  <1> QED
    BY <1>1, OwnInvariance, PTL DEF Spec, SectionsOfOwnTs

(* When the tables are whole.  Steps that leave this alone:                  *)
Unhurried(q) == q[1] # "nextPmt" /\ (q[1] = "alloc" => q[2] \notin PatPmt)
Kept ==
  /\ UNCHANGED <<mode, data>>
  /\ \A t \in TsTables : (t \in evt' \ batch' => t \in evt \ batch) /\ (t \in recv' => t \in recv)

LEMMA WholeKept ==
  ASSUME WholeInv, OwnInv', Kept, \A q \in Pending' : q \in Pending \/ Unhurried(q)
  PROVE  WholeInv'
  <1>1. "pat" \in TsTables /\ "pmt" \in TsTables
    BY DEF TsTables
  <1> QED
    BY <1>1 DEF WholeInv, PmtAlone, Whole, Kept, Unhurried

LEMMA PlannedPmt ==
  ASSUME OrderInv, todo # <<>>
  PROVE  /\ \A names : /\ names \cap {"nextPmt", "alloc"} = {}
                       /\ New(names) \/ Anew(names)
                       => \A q \in Pending' : q \in Pending \/ Unhurried(q)
         /\ \A names, T : names \cap {"nextPmt"} = {} /\ T \cap PatPmt = {} /\ NewFor(names, T)
                   => \A q \in Pending' : q \in Pending \/ Unhurried(q)
         /\ \A b : Serving(b) => \A q \in Pending' : q \in Pending \/ Unhurried(q)
  <1>1. \A q \in Steps(Rest) : q \in Pending
    BY AheadIs
  <1>2. "alloc" \in TableSteps
    BY DEF TableSteps
  <1> QED
    BY <1>1, <1>2 DEF New, Anew, NewFor, Serving, Pending, Unhurried

LEMMA PlainAgenda ==
  ASSUME OrderInv, MovesInv', todo # <<>>,
         \/ FreeFilter \/ Sync \/ SignalEvent \/ TablesDone \/ CheckTimeout
         \/ NitDone \/ BatDone \/ CatDone \/ SdtDone \/ MgtDone \/ VctDone
         \/ TryNit \/ StartNextTs \/ LeaveTs \/ TuneNext \/ SetPara
         \/ SolveFendEvt \/ Unlocked \/ LockedNit
         \/ TsComplete \/ Wake \/ SpuriousWake \/ WaitTimesOut \/ EndBatch \/ Begin \/ StartScan
         \/ Quit \/ Unsubscribe \/ FreeAll \/ ExitSync \/ Release
  PROVE  \A q \in Pending' : q \in Pending \/ Unhurried(q)
  <1> DEFINE Fine == \A q \in Pending' : q \in Pending \/ Unhurried(q)
  <1>1. \A names : names \cap {"nextPmt", "alloc"} = {} /\ (New(names) \/ Anew(names)) => Fine
    BY PlannedPmt
  <1>2. \A names, T : names \cap {"nextPmt"} = {} /\ T \cap PatPmt = {} /\ NewFor(names, T) => Fine
    BY PlannedPmt
  <1>3. \A b : Serving(b) => Fine
    BY PlannedPmt
  <1>4. (\A q \in Steps(todo') : q \in Steps(Rest) \/ q[1] \in {"free", "after", "tables", "checks"}) => Fine
    BY AheadIs DEF Unhurried, Pending
  <1> HIDE DEF Fine
  <1>5. CASE FreeFilter \/ Sync \/ SignalEvent
    <2>1. New({"sync"}) \/ New({})
      BY <1>5, FreeOrder, SyncOrder, SignalOrder
    <2> QED
      BY <1>1, <2>1 DEF Fine
  <1>6. CASE TablesDone \/ CheckTimeout
    <2>1. \A q \in Steps(todo') : q \in Steps(Rest) \/ q[1] \in {"free", "after", "tables", "checks"}
      <3>1. CASE TablesDone
        <4>1. \A q \in Steps(todo') : \/ q \in Steps(Rest)
                                      \/ q[1] = "free" \/ q[1] = "after" \/ q[1] = "tables"
          BY <3>1, LoopsOrder
        <4> QED
          BY <4>1
      <3>2. CASE CheckTimeout
        <4>1. \A q \in Steps(todo') : \/ q \in Steps(Rest)
                                      \/ q[1] = "free" \/ q[1] = "after" \/ q[1] = "checks"
          BY <3>2, LoopsOrder
        <4> QED
          BY <4>1
      <3> QED
        BY <1>6, <3>1, <3>2
    <2> QED
      BY <1>4, <2>1 DEF Fine
  <1>7. CASE NitDone \/ BatDone \/ CatDone \/ SdtDone \/ VctDone
    <2>1. New({"tryNit"}) \/ New({"signal", "nextTs"}) \/ New({}) \/ New({"signal"})
      BY <1>7, NetworkOrder, DonesOrder
    <2> QED
      BY <1>1, <2>1 DEF Fine
  <1>8. CASE MgtDone \/ LockedNit
    <2>1. NewFor({"signal", "free", "alloc"}, {"vct"}) \/ NewFor({"free", "alloc"}, {"nit", "bat"})
      BY <1>8, DonesOrder, FendOrder
    <2>2. {"vct"} \cap PatPmt = {} /\ {"nit", "bat"} \cap PatPmt = {}
      BY DEF PatPmt
    <2> QED
      BY <1>2, <2>1, <2>2 DEF Fine
  <1>9. CASE TryNit \/ StartNextTs \/ LeaveTs \/ TuneNext \/ SetPara
    <2>1. \/ New({"signal", "tune"}) \/ New({"signal", "leaveTs", "tune"}) \/ New({})
          \/ New({"signal", "setPara"})
      BY <1>9, StagesOrder, TuneOrder
    <2> QED
      BY <1>1, <2>1 DEF Fine
  <1>10. CASE SolveFendEvt \/ Unlocked
    <2>1. New({"signal", "outcome"}) \/ New({"tryNit", "nextTs"})
      BY <1>10, FendOrder
    <2> QED
      BY <1>1, <2>1 DEF Fine
  <1>11. CASE TsComplete \/ Wake \/ SpuriousWake \/ WaitTimesOut \/ EndBatch
    <2>1. Anew({"nextTs", "wait"}) \/ Anew({"checks", "tsComplete"}) \/ \E b : Serving(b)
      BY <1>11, RoundsOrder
    <2> QED
      BY <1>1, <1>3, <2>1 DEF Fine
  <1>12. CASE Begin \/ StartScan
    <2>1. New({"signal", "start"}) \/ New({"tryNit", "nextTs"})
      BY <1>12, BeginOrder
    <2> QED
      BY <1>1, <2>1 DEF Fine
  <1>13. CASE Quit \/ Unsubscribe \/ FreeAll \/ ExitSync \/ Release
    <2>1. Anew(Last2) /\ Last2 \cap {"nextPmt", "alloc"} = {}
      BY <1>13, LastOrder DEF Last2, Last
    <2> QED
      BY <1>1, <2>1 DEF Fine
  <1> QED
    BY <1>5, <1>6, <1>7, <1>8, <1>9, <1>10, <1>11, <1>12, <1>13

LEMMA KeptSteps ==
  ASSUME WholeInv, OwnInv',
         \/ FreeFilter \/ Sync \/ SignalEvent \/ TablesDone \/ CheckTimeout
         \/ NitDone \/ BatDone \/ CatDone \/ SdtDone \/ MgtDone \/ VctDone
         \/ TryNit \/ StartNextTs \/ TuneNext \/ SetPara
         \/ SolveFendEvt \/ Unlocked
         \/ TsComplete \/ Wake \/ SpuriousWake \/ WaitTimesOut \/ EndBatch \/ Begin \/ StartScan
         \/ Quit \/ Unsubscribe \/ FreeAll \/ ExitSync \/ Release
  PROVE  WholeInv'
  <1>1. OrderInv /\ MovesInv'
    BY DEF WholeInv, OwnInv, WaitsInv, OrderInv
  <1>2. todo # <<>> /\ UNCHANGED <<mode, ctl, data>>
    <2>1. CASE CatDone \/ SdtDone \/ MgtDone \/ VctDone
      <3>1. \E t, next : TableDone(t, next)
        BY <2>1 DEF CatDone, SdtDone, MgtDone, VctDone
      <3> QED
        BY <3>1 DEF TableDone, After, At, app, tables
    <2>2. CASE NitDone \/ BatDone
      BY <2>2 DEF NitDone, BatDone, After, At, app, tables
    <2>3. CASE ~(NitDone \/ BatDone \/ CatDone \/ SdtDone \/ MgtDone \/ VctDone)
      BY <2>3 DEF FreeFilter, Sync, SignalEvent, TablesDone, CheckTimeout, TryNit, StartNextTs, TuneNext,
             SetPara, SolveFendEvt, Unlocked, TsComplete, Wake, SpuriousWake, WakeWhen, WaitTimesOut,
             EndBatch, Begin, StartScan, Quit, Unsubscribe, FreeAll, ExitSync, Release, At, app, tables
    <2> QED
      BY <2>1, <2>2, <2>3
  <1>3. \A t \in TsTables : t \in recv' => t \in recv
    <2>1. recv' \subseteq recv \cup {"fend"}
      <3>1. CASE NitDone \/ BatDone
        BY <3>1 DEF NitDone, BatDone, NotWaiting
      <3>2. CASE CatDone \/ SdtDone \/ MgtDone \/ VctDone
        BY <3>2 DEF CatDone, SdtDone, MgtDone, VctDone, TableDone, NotWaiting
      <3>3. CASE ~(NitDone \/ BatDone \/ CatDone \/ SdtDone \/ MgtDone \/ VctDone)
        BY <3>3 DEF FreeFilter, Sync, SignalEvent, TablesDone, CheckTimeout, TryNit, StartNextTs, TuneNext,
               SetPara, SolveFendEvt, Unlocked, TsComplete, Wake, SpuriousWake, WakeWhen, WaitTimesOut,
               EndBatch, Begin, StartScan, Quit, Unsubscribe, FreeAll, ExitSync, Release
      <3> QED
        BY <3>1, <3>2, <3>3
    <2> QED
      BY <2>1, TableNames
  <1>4. \A t \in TsTables : t \in evt' \ batch' => t \in evt \ batch
    <2>1. CASE SignalEvent
      <3>1. evt' \in {evt, evt \cup {"QUIT"}} /\ batch' = batch
        BY <2>1 DEF SignalEvent
      <3> QED
        BY <3>1, TableNames
    <2>2. CASE Wake \/ SpuriousWake \/ EndBatch
      <3>1. evt' \ batch' = {}
        BY <1>1, <2>2, RoundsOrder DEF Wake, SpuriousWake, WakeWhen, Serve
      <3> QED
        BY <3>1
    <2>3. CASE ~(SignalEvent \/ Wake \/ SpuriousWake \/ EndBatch)
      <3>1. UNCHANGED <<evt, batch>>
        BY <2>3 DEF FreeFilter, Sync, TablesDone, CheckTimeout, NitDone, BatDone, CatDone, SdtDone,
               MgtDone, VctDone, TableDone, TryNit, StartNextTs, TuneNext, SetPara, SolveFendEvt,
               Unlocked, TsComplete, WaitTimesOut, Begin, StartScan,
               Quit, Unsubscribe, FreeAll, ExitSync, Release
      <3> QED
        BY <3>1
    <2> QED
      BY <2>1, <2>2, <2>3
  <1>5. \A q \in Pending' : q \in Pending \/ Unhurried(q)
    BY <1>1, <1>2, PlainAgenda
  <1> QED
    BY <1>2, <1>3, <1>4, <1>5, WholeKept DEF Kept

LEMMA KeptOthers ==
  ASSUME WholeInv, OwnInv',
         \/ \E f \in FilterIds : Deliver(f)
         \/ FendSignal \/ FendCallback \/ FendNobody \/ Start \/ Destroy \/ Join
         \/ UNCHANGED vars
  PROVE  WholeInv'
  <1>1. Pending' = Pending
    BY OthersOrder DEF WholeInv, OwnInv, WaitsInv, OrderInv
  <1>2. /\ UNCHANGED <<mode, ctl, data, recv, batch>>
        /\ evt' \in {evt, evt \cup {"FEND"}, evt \cup {"START"}, evt \cup {"QUIT"}}
    BY DEF Deliver, FendSignal, FendCallback, FendNobody, Start, Destroy, Join, vars, app, tables
  <1>3. Kept
    BY <1>2, TableNames DEF Kept
  <1> QED
    BY <1>1, <1>3, WholeKept

(* What there is to use, and what is left to show, of a step in such a scan. *)
LEMMA WholeIs ==
  ASSUME WholeInv, ~crashed, {"late", "decode"} \cap mode.faults = {}
  PROVE  /\ ~NitEndsTwice /\ Own /\ PmtAlone /\ Whole /\ WaitedFor
         /\ \A t \in Tables : t \in evt \ batch => t \in recv
         /\ "pat" \in TsTables /\ "pmt" \in TsTables /\ PatPmt = {"pat", "pmt"}
  BY TableNames DEF WholeInv, OwnInv, WaitsInv, WaitedFor, NitEndsTwice, TsTables, PatPmt

LEMMA WholeStays ==
  ASSUME WholeInv, OwnInv', UNCHANGED mode,
         {"late", "decode"} \cap mode.faults = {} => PmtAlone' /\ Whole'
  PROVE  WholeInv'
  BY DEF WholeInv

LEMMA PmtDonesWhole ==
  ASSUME WholeInv, OwnInv', ~crashed, PatDone \/ PmtDone
  PROVE  WholeInv'
  <1>1. OrderInv /\ MovesInv'
    BY DEF WholeInv, OwnInv, WaitsInv, OrderInv
  <1>2. PICK t \in {"pat", "pmt"} :
          /\ todo # <<>> /\ Head(todo)[1] = "after" /\ Head(todo)[2] = t
          /\ recv' = recv \ {t} /\ UNCHANGED <<mode, ctl, data, evt, batch>>
    BY DEF PatDone, PmtDone, TableDone, After, At, Arg, NotWaiting, app, tables
  <1>3. ASSUME {"late", "decode"} \cap mode.faults = {} PROVE PmtAlone' /\ Whole'
    <2>1. PmtAlone /\ Whole /\ WaitedFor
      BY <1>3, WholeIs
    <2>2. Head(todo) \in Pending
      BY <1>1, <1>2, AheadIs
    <2>3. t \in recv
      BY <1>2, <1>3, <2>1, <2>2 DEF WaitedFor
    <2>4. "pat" \notin recv' /\ "pmt" \notin recv'
      BY <1>2, <2>1, <2>3 DEF PmtAlone
    <2>5. PmtAlone'
      BY <2>4 DEF PmtAlone
    <2>6. Whole'
      BY <1>2, <2>1 DEF Whole
    <2> QED
      BY <2>5, <2>6
  <1> QED
    BY <1>2, <1>3, WholeStays

LEMMA NextPmtWhole ==
  ASSUME WholeInv, OwnInv', ~crashed, NextPmt
  PROVE  WholeInv'
  <1>1. OrderInv /\ IInv
    BY DEF WholeInv, OwnInv, WaitsInv, OrderInv, MovesInv
  <1>2. /\ todo # <<>> /\ Head(todo)[1] = "nextPmt" /\ UNCHANGED <<mode, evt, batch, recv>>
        /\ \/ UNCHANGED <<ctl, data>>
           \/ /\ ctl' = [ctl EXCEPT !["pmt"] = "none"]
              /\ data' = [data EXCEPT !["pmt"] = "none"]
    BY DEF NextPmt, At, app
  <1>3. \A t \in Tables : t # "pmt" => ctl'[t] = ctl[t] /\ data'[t] = data[t]
    <2>1. ctl \in [Tables -> Amount] /\ data \in [Tables -> Amount]
      BY <1>1 DEF IInv, TypeOK
    <2> QED
      BY <1>2, <2>1
  <1>4. ASSUME {"late", "decode"} \cap mode.faults = {} PROVE PmtAlone' /\ Whole'
    <2>1. PmtAlone /\ Whole /\ \A t \in Tables : t \in evt \ batch => t \in recv
      BY <1>4, WholeIs
    <2>2. "pat" \notin recv /\ "pmt" \notin recv
      BY <1>1, <1>2, <2>1, AheadIs DEF PmtAlone
    <2>3. PmtAlone'
      BY <1>2, <2>2 DEF PmtAlone
    <2>4. Whole'
      BY <1>2, <1>3, <2>1, <2>2, TableNames DEF Whole
    <2> QED
      BY <2>3, <2>4
  <1> QED
    BY <1>2, <1>4, WholeStays

LEMMA AllocateWhole ==
  ASSUME WholeInv, OwnInv', ~crashed, AllocateFilter
  PROVE  WholeInv'
  <1>1. OrderInv /\ MovesInv'
    BY DEF WholeInv, OwnInv, WaitsInv, OrderInv
  <1>2. /\ todo # <<>> /\ Head(todo)[1] = "alloc" /\ Arg = Head(todo)[2]
        /\ UNCHANGED <<mode, ctl, data, evt, batch>>
    BY DEF AllocateFilter, At, Arg, app
  <1>3. PICK u \in Tables : u = Arg /\ recv' \in {recv, recv \cup {u}} /\ New({})
    BY <1>1, AllocateOrder
  <1>4. /\ Head(todo) \in Pending
        /\ \A q \in Pending' : /\ q \in Pending /\ q[1] # "nextPmt"
                               /\ q[1] = "alloc" => u \notin PatPmt \/ q[2] \notin PatPmt
    <2>1. \A q \in Pending' : q \in Steps(Rest)
      BY <1>1, <1>2, <1>3, OnlyNew
    <2> QED
      BY <1>1, <1>2, <1>3, <2>1, AheadIs DEF Precedes
  <1>5. ASSUME {"late", "decode"} \cap mode.faults = {} PROVE PmtAlone' /\ Whole'
    <2>1. PmtAlone /\ Whole /\ PatPmt = {"pat", "pmt"}
      BY <1>5, WholeIs
    <2>2. CASE u \in PatPmt
      <3>1. "pat" \notin recv /\ "pmt" \notin recv
        BY <1>2, <1>3, <1>4, <2>1, <2>2 DEF PmtAlone
      <3>2. "pat" \notin recv' \/ "pmt" \notin recv'
        BY <1>3, <3>1
      <3>3. PmtAlone'
        BY <1>4, <2>2, <3>2 DEF PmtAlone
      <3> QED
        BY <1>2, <2>1, <3>3 DEF Whole
    <2>3. CASE u \notin PatPmt
      <3>1. ("pat" \in recv' <=> "pat" \in recv) /\ ("pmt" \in recv' <=> "pmt" \in recv)
        BY <1>3, <2>1, <2>3
      <3>2. PmtAlone'
        BY <1>4, <2>1, <3>1 DEF PmtAlone
      <3> QED
        BY <1>2, <2>1, <3>2 DEF Whole
    <2> QED
      BY <2>2, <2>3
  <1> QED
    BY <1>2, <1>5, WholeStays

(* Where none of the tables of a TS is waited for, none is complete either.  *)
LEMMA StagesWhole ==
  ASSUME WholeInv, OwnInv', ~crashed, LeaveTs \/ LockedTs
  PROVE  WholeInv'
  <1>1. OrderInv
    BY DEF WholeInv, OwnInv, WaitsInv
  <1>2. /\ todo # <<>> /\ Head(todo)[1] \in {"leaveTs", "outcome"}
        /\ UNCHANGED <<mode, evt, batch, recv>>
    BY DEF LeaveTs, LockedTs, At, app
  <1>3. ASSUME {"late", "decode"} \cap mode.faults = {} PROVE PmtAlone' /\ Whole'
    <2>1. /\ Own /\ \A t \in Tables : t \in evt \ batch => t \in recv
          /\ "pat" \in TsTables /\ "pmt" \in TsTables
      BY <1>3, WholeIs
    <2>2. \A t \in TsTables : t \notin recv
      <3>1. CASE Head(todo)[1] = "leaveTs"
        <4>1. Due({"nextTs", "leaveTs"})
          BY <1>1, <1>2, <3>1, AheadIs DEF Due
        <4> QED
          BY <2>1, <4>1 DEF Own, OffTs
      <3>2. CASE Head(todo)[1] = "outcome"
        BY <1>2, <2>1, <3>2, NotOnTs DEF WholeInv
      <3> QED
        BY <1>2, <3>1, <3>2
    <2>3. PmtAlone'
      BY <1>2, <2>1, <2>2 DEF PmtAlone
    <2>4. Whole'
      BY <1>2, <2>1, <2>2, TableNames DEF Whole
    <2> QED
      BY <2>3, <2>4
  <1> QED
    BY <1>2, <1>3, WholeStays

LEMMA LockedNitWhole ==
  ASSUME WholeInv, OwnInv', LockedNit
  PROVE  WholeInv'
  <1>1. OrderInv /\ MovesInv' /\ todo # <<>>
    BY DEF WholeInv, OwnInv, WaitsInv, OrderInv, LockedNit, At
  <1>2. /\ UNCHANGED <<mode, data, evt, batch, recv>>
        /\ \A t \in TsTables : ctl'[t] = ctl[t]
    <2>1. UNCHANGED <<mode, data, evt, batch, recv>> /\ (Cleared({"nit", "bat"}) \/ UNCHANGED ctl)
      BY DEF LockedNit, app
    <2>2. \A t \in TsTables : t \in Tables /\ t \notin {"nit", "bat"}
      BY DEF Tables, TsTables
    <2> QED
      BY <2>1, <2>2 DEF Cleared
  <1>3. \A q \in Pending' : q \in Pending \/ Unhurried(q)
    BY <1>1, PlainAgenda
  <1>4. ASSUME PmtAlone, Whole PROVE PmtAlone' /\ Whole'
    BY <1>2, <1>3, <1>4 DEF PmtAlone, Whole, Unhurried
  <1> QED
    BY <1>2, <1>4, WholeStays DEF WholeInv

LEMMA HandleWhole ==
  ASSUME WholeInv, OwnInv', ~crashed, Handle
  PROVE  WholeInv'
  <1>1. OrderInv /\ IInv
    BY DEF WholeInv, OwnInv, WaitsInv, OrderInv, MovesInv
  <1>2. Pending' = Pending
    BY <1>1, OthersOrder DEF OwnInv, WaitsInv, OrderInv
  <1>3. UNCHANGED <<mode, recv, batch>> /\ call # None
    BY DEF Handle, app
  <1>4. ASSUME {"late", "decode"} \cap mode.faults = {} PROVE PmtAlone' /\ Whole'
    <2>1. Own /\ PmtAlone /\ Whole
      BY <1>4, WholeIs
    <2>2. PmtAlone'
      BY <1>2, <1>3, <2>1 DEF PmtAlone
    <2>3. CASE UNCHANGED <<data, evt>>
      BY <1>3, <2>1, <2>2, <2>3 DEF Whole
    <2>4. ASSUME NEW t \in Tables, Handled(t) PROVE Whole'
      <3>1. SUFFICES ASSUME NEW u \in TsTables \ {"vct"}, u \in evt' \ batch
                     PROVE  data'[u] = "full"
        BY <1>3 DEF Whole
      <3>2. CASE u # t
        BY <2>1, <2>4, <3>1, <3>2, TableNames DEF Handled, Whole
      <3>3. CASE u = t
        <4>1. t \in Owners(call[1]) /\ fid[t] = call[1]
          BY <2>4 DEF Handled
        <4>2. t \in recv
          BY <1>3, <4>1 DEF WholeInv, OwnInv, WaitsInv, Expected
        <4>3. ts # None
          BY <2>1, <3>3, <4>2 DEF Own, OffTs
        <4>4. /\ data[t] = "full" => data'[t] = "full"
              /\ t \in evt' => t \in evt \/ data'[t] = "full"
          BY <1>4, <2>4, <3>3, <4>3 DEF Handled
        <4> QED
          BY <2>1, <3>1, <3>3, <4>4 DEF Whole
      <3> QED
        BY <3>2, <3>3
    <2> QED
      BY <1>1, <2>2, <2>3, <2>4, HandleIs
  <1> QED
    BY <1>3, <1>4, WholeStays

LEMMA CreateWhole ==
  ASSUME WholeInv, OwnInv', ~crashed, NEW m \in Modes, Create(m)
  PROVE  WholeInv'
  <1>1. OwnInv /\ OrderInv /\ MovesInv'
    BY DEF WholeInv, OwnInv, WaitsInv, OrderInv
  <1>2. life = "none" /\ UNCHANGED <<evt, batch, recv>>
    BY DEF Create
  <1>3. mode = NoMode /\ ~started
    BY <1>1, <1>2 DEF OrderInv, MovesInv, Fresh, IInv, Living
  <1>4. mode.faults = {} /\ ~mode.auto
    BY <1>3 DEF NoMode
  <1>5. recv = {}
    BY <1>1, <1>3, <1>4, NotStarted DEF NitEndsTwice
  <1>6. \A t \in Tables : t \notin evt \ batch
    BY <1>1, <1>4, <1>5 DEF OwnInv, WaitsInv, WaitedFor
  <1>7. PmtAlone' /\ Whole'
    BY <1>2, <1>5, <1>6, TableNames DEF PmtAlone, Whole
  <1> QED
    BY <1>7 DEF WholeInv

LEMMA WholeInit == Init => WholeInv
  <1>1. Init => recv = {} /\ evt = {}
    BY DEF Init
  <1> QED
    BY <1>1, OwnInit DEF WholeInv, PmtAlone, Whole

LEMMA WholeStep == WholeInv /\ [Next]_vars => WholeInv'
  <1> SUFFICES ASSUME WholeInv, [Next]_vars PROVE WholeInv'
    OBVIOUS
  <1>1. OwnInv'
    BY OwnStep DEF WholeInv
  <1>2. CASE UNCHANGED vars
    BY <1>1, <1>2, KeptOthers
  <1>3. CASE Next
    <2>1. ~crashed
      BY <1>3 DEF Next
    <2>2. CASE \/ FreeFilter \/ Sync \/ SignalEvent \/ TablesDone \/ CheckTimeout
               \/ NitDone \/ BatDone \/ CatDone \/ SdtDone \/ MgtDone \/ VctDone
               \/ TryNit \/ StartNextTs \/ TuneNext \/ SetPara
               \/ SolveFendEvt \/ Unlocked
               \/ TsComplete \/ Wake \/ SpuriousWake \/ WaitTimesOut \/ EndBatch \/ Begin \/ StartScan
               \/ Quit \/ Unsubscribe \/ FreeAll \/ ExitSync \/ Release
      BY <1>1, <2>2, KeptSteps
    <2>3. CASE \/ \E f \in FilterIds : Deliver(f)
               \/ FendSignal \/ FendCallback \/ FendNobody \/ Start \/ Destroy \/ Join
      BY <1>1, <2>3, KeptOthers
    <2>4. CASE PatDone \/ PmtDone
      BY <1>1, <2>1, <2>4, PmtDonesWhole
    <2>5. CASE NextPmt
      BY <1>1, <2>1, <2>5, NextPmtWhole
    <2>6. CASE AllocateFilter
      BY <1>1, <2>1, <2>6, AllocateWhole
    <2>7. CASE LeaveTs \/ LockedTs
      BY <1>1, <2>1, <2>7, StagesWhole
    <2>8. CASE LockedNit
      BY <1>1, <2>8, LockedNitWhole
    <2>9. CASE Handle
      BY <1>1, <2>1, <2>9, HandleWhole
    <2>10. CASE \E m \in Modes : Create(m)
      BY <1>1, <2>1, <2>10, CreateWhole
    <2> QED
      BY <1>3, <2>2, <2>3, <2>4, <2>5, <2>6, <2>7, <2>8, <2>9, <2>10 DEF Next, ThreadStep
  <1> QED
    BY <1>2, <1>3

(* In a scan where no section fails to be decoded and no table is completed  *)
(* as it times out, the PAT and a PMT are never waited for together, so      *)
(* am_scan_request_next_pmt clears nothing in use, and a table with a         *)
(* completion event pending is whole in the result.                          *)
THEOREM WholeInvariance == Spec => []WholeInv
  <1> QED
    BY WholeInit, WholeStep, PTL DEF Spec

(* A completion event means that the result has the whole table, in one      *)
(* version of it: between the handler that sets the flag and the thread that *)
(* copies it nothing takes back what was collected, also when a section of a *)
(* new version resets the control in between.                                *)
THEOREM TablesAreWhole == Spec => []WholeTables
  <1>1. WholeInv => WholeTables
    BY DEF WholeInv, Whole, WholeTables
  <1> QED
    BY <1>1, WholeInvariance, PTL
================================================================================
