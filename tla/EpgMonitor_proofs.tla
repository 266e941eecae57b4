-------------------------- MODULE EpgMonitor_proofs --------------------------
(****************************************************************************)
(* Proofs about EpgMonitor for any tables, filters, settings and faults:    *)
(* every filter has one table and none is left behind, a monitor at rest    *)
(* watches its tables, and no section of an earlier TS is collected.        *)
(****************************************************************************)
EXTENDS EpgMonitor, SequenceTheorems, TLAPS

(* The agenda: the steps there are, with what they work on.  A table is      *)
(* freed before the step that needs it to have no filter; and what ends a    *)
(* run of the thread's loop ends the agenda.                                 *)
Owing == {"open", "renew", "openNext", "done"}
TableSteps == Owing \cup {"free"}
LoopSteps == {"reset", "setMode", "setSche", "tables", "refresh"}
Pauses == {"subscribe", "waiting", "wait", "endBatch", "quit", "unsubscribe", "release"}
PlainSteps == {"signal", "sync", "fend", "pf", "sche", "service", "exitSync"} \cup Pauses

Schedule == {"eit50", "eit51", "eit60", "eit61"}
LoopItems == {q \in LoopSteps \X ((SUBSET Tables) \ {{}}) : q[1] = "setSche" => q[2] \subseteq Schedule}
Items == (TableSteps \X Tables) \cup LoopItems \cup (PlainSteps \X {""})

Ready(s, F, i) ==
  s[i][1] \in Owing =>
    \/ i = 1 /\ F[s[i][2]] = -1
    \/ i = 2 /\ s[1] = S("free", s[i][2])
    \/ i = 2 /\ s[1][1] \in {"sync", "signal"} /\ F[s[i][2]] = -1

InOrder(s, F) ==
  \A i \in 1..Len(s) :
    /\ Ready(s, F, i)
    /\ s[i][1] \in {"free", "sync"} => i = 1
    /\ s[i][1] \in Pauses => i = Len(s)

Agenda == todo \in Seq(Items) /\ InOrder(todo, fid)

(* The agenda of a thread that leaves frees what filters remain.             *)
Lacks(s, names) == \A i \in 1..Len(s) : s[i][1] \notin names
Last == {"exitSync", "release"}
Stop == {"quit", "unsubscribe", "exitSync", "release"}

ExitSteps(U) == Loop("setMode", U) \o <<S("exitSync", ""), S("release", "")>>
Remaining(U) == \A t \in Tables : fid[t] # -1 => t \in U
Exiting ==
  \/ \E U \in SUBSET Tables :
       \/ todo = ExitSteps(U) /\ Remaining(U)
       \/ \E u \in Tables : todo = <<S("free", u)>> \o ExitSteps(U) /\ Remaining(U \cup {u})
       \/ todo = <<S("sync", "")>> \o ExitSteps(U) /\ Remaining(U)
  \/ todo = <<S("release", "")>> /\ Remaining({})

Stopping ==
  /\ Lacks(todo, Last) \/ (Exiting /\ mode = {} /\ Callback \notin subs)
  /\ life # "gone" => joiner \/ ("QUIT" \notin evt /\ Lacks(todo, Stop))
  /\ life # "live" => todo = <<>>
  /\ life = "gone" => Remaining({}) /\ Callback \notin subs

(* The filters of the tables are those the demux device gave out.            *)
Filters ==
  /\ \A f \in FilterIds :
       /\ st[Self][f] \in {"held", "freed", "quiet"}
       /\ st[Self][f] = "freed" => At("sync")
       /\ st[Self][f] = "held" <=> \E t \in Tables : fid[t] = f
  /\ \A t, u \in Tables : t # u /\ fid[t] = fid[u] => fid[t] = -1
  /\ Dmx!Quiescence

(* A section that is handled is of the TS its table was asked for on, or of  *)
(* a later one.                                                              *)
Handling ==
  /\ hpc = "none" <=> call = None
  /\ hpc \in {"time", "eit"} => htab \in Tables
  /\ curr <= tuned /\ feEvt <= tuned /\ fendEvt <= tuned
  /\ \A t \in Tables : since[t] <= tuned
  /\ \A t \in Tables : call # None /\ fid[t] = call[1] => callTs >= since[t]

(* A table that is not watched will be when the agenda or a flag that is yet *)
(* to be served has been dealt with.                                         *)
Promises(q, t) ==
  \/ q[1] \in Owing /\ q[2] = t
  \/ q[1] = "reset" /\ t \in q[2]
  \/ q[1] = "service" /\ t \in {"pmt", "eit4e"}
Promised(s, t) == \E i \in 1..Len(s) : Promises(s[i], t)
Frees(s, t) == \E i \in 1..Len(s) : s[i] = S("free", t)
Pending(t) ==
  \/ "SET_MODE" \in evt \ batch
  \/ "SET_MON_SRV" \in evt \ batch /\ t \in {"pmt", "eit4e"}
Checked(t) == t \in check /\ (t = "eit4e" => ~service)
Cared == Tables \ {"eit60", "eit61"}
Minded(t) ==
  (fid[t] # -1 /\ ~Frees(todo, t)) \/ Checked(t) \/ Pending(t) \/ Promised(todo, t)
Watching == Undisturbed => \A t \in Cared : Monitored(t) => Minded(t)

IInv == TypeOK /\ Agenda /\ Stopping /\ Filters /\ Handling /\ Watching

--------------------------------------------------------------------------------
(* Lemmas about agendas.                                                     *)

(* Steps that may come after any others.                                     *)
Bound == Owing \cup {"free", "sync"}
Settled(s) ==
  \A i \in 1..Len(s) : s[i][1] \notin Bound /\ (s[i][1] \in Pauses => i = Len(s))

Plain(s) == Lacks(s, Bound \cup Pauses \cup Stop)

LEMMA SettledInOrder ==
  ASSUME NEW s \in Seq(Items), NEW F, Settled(s)
  PROVE  InOrder(s, F)
  BY DEF Settled, InOrder, Ready, Bound

LEMMA Joined ==
  ASSUME NEW s \in Seq(Items), NEW r \in Seq(Items), NEW F,
         InOrder(s, F), Lacks(s, Pauses), Settled(r)
  PROVE  s \o r \in Seq(Items) /\ InOrder(s \o r, F)
  <1>1. /\ s \o r \in Seq(Items)
        /\ Len(s \o r) = Len(s) + Len(r)
        /\ \A i \in 1..(Len(s) + Len(r)) :
             (s \o r)[i] = IF i <= Len(s) THEN s[i] ELSE r[i - Len(s)]
    BY ConcatProperties
  <1>2. Len(s) \in Nat /\ Len(r) \in Nat
    OBVIOUS
  <1> DEFINE u == s \o r
  <1>3. ASSUME NEW i \in 1..Len(u), i <= Len(s)
        PROVE  /\ Ready(u, F, i)
               /\ u[i][1] \in {"free", "sync"} => i = 1
               /\ u[i][1] \notin Pauses
    <2>1. i \in 1..Len(s) /\ u[i] = s[i] /\ u[1] = s[1]
      BY <1>1, <1>2, <1>3
    <2> HIDE DEF u
    <2> QED
      BY <2>1 DEF InOrder, Ready, Lacks
  <1>4. ASSUME NEW i \in 1..Len(u), ~(i <= Len(s))
        PROVE  u[i][1] \notin Bound /\ (u[i][1] \in Pauses => i = Len(u))
    <2>1. i - Len(s) \in 1..Len(r) /\ u[i] = r[i - Len(s)]
      BY <1>1, <1>2, <1>4
    <2>2. i - Len(s) = Len(r) => i = Len(u)
      BY <1>1, <1>2, <1>4
    <2> HIDE DEF u
    <2> QED
      BY <2>1, <2>2 DEF Settled
  <1> HIDE DEF u
  <1>5. InOrder(u, F)
    BY <1>3, <1>4 DEF InOrder, Ready, Bound
  <1> QED
    BY <1>1, <1>5 DEF u

LEMMA SettledJoined ==
  ASSUME NEW s \in Seq(Items), NEW r \in Seq(Items),
         Plain(s), Settled(r)
  PROVE  s \o r \in Seq(Items) /\ Settled(s \o r)
  <1>1. /\ s \o r \in Seq(Items)
        /\ Len(s \o r) = Len(s) + Len(r)
        /\ \A i \in 1..(Len(s) + Len(r)) :
             (s \o r)[i] = IF i <= Len(s) THEN s[i] ELSE r[i - Len(s)]
    BY ConcatProperties
  <1>2. Len(s) \in Nat /\ Len(r) \in Nat
    OBVIOUS
  <1> DEFINE u == s \o r
  <1>3. ASSUME NEW i \in 1..Len(u), i <= Len(s)
        PROVE  u[i][1] \notin Bound /\ (u[i][1] \in Pauses => i = Len(u))
    <2>1. i \in 1..Len(s) /\ u[i] = s[i]
      BY <1>1, <1>2, <1>3
    <2> HIDE DEF u
    <2> QED
      BY <2>1 DEF Lacks, Plain
  <1>4. ASSUME NEW i \in 1..Len(u), ~(i <= Len(s))
        PROVE  u[i][1] \notin Bound /\ (u[i][1] \in Pauses => i = Len(u))
    <2>1. i - Len(s) \in 1..Len(r) /\ u[i] = r[i - Len(s)]
      BY <1>1, <1>2, <1>4
    <2>2. i - Len(s) = Len(r) => i = Len(u)
      BY <1>1, <1>2, <1>4
    <2> HIDE DEF u
    <2> QED
      BY <2>1, <2>2 DEF Settled
  <1> HIDE DEF u
  <1>5. Settled(u)
    BY <1>3, <1>4 DEF Settled
  <1> QED
    BY <1>1, <1>5 DEF u

LEMMA LacksJoined ==
  ASSUME NEW s \in Seq(Items), NEW r \in Seq(Items), NEW names,
         Lacks(s, names), Lacks(r, names)
  PROVE  Lacks(s \o r, names)
  <1>1. /\ Len(s \o r) = Len(s) + Len(r)
        /\ \A i \in 1..(Len(s) + Len(r)) :
             (s \o r)[i] = IF i <= Len(s) THEN s[i] ELSE r[i - Len(s)]
    BY ConcatProperties
  <1>2. Len(s) \in Nat /\ Len(r) \in Nat
    OBVIOUS
  <1>3. \A i \in 1..(Len(s) + Len(r)) : i \in 1..Len(s) \/ (i - Len(s) \in 1..Len(r) /\ ~(i <= Len(s)))
    BY <1>2
  <1> QED
    BY <1>1, <1>2, <1>3 DEF Lacks

LEMMA PromisedJoined ==
  ASSUME NEW s \in Seq(Items), NEW r \in Seq(Items), NEW t
  PROVE  /\ Promised(s \o r, t) <=> Promised(s, t) \/ Promised(r, t)
         /\ Frees(s \o r, t) <=> Frees(s, t) \/ Frees(r, t)
  <1> DEFINE u == s \o r
  <1>1. /\ Len(u) = Len(s) + Len(r)
        /\ \A i \in 1..(Len(s) + Len(r)) : u[i] = IF i <= Len(s) THEN s[i] ELSE r[i - Len(s)]
    BY ConcatProperties
  <1>2. Len(s) \in Nat /\ Len(r) \in Nat
    OBVIOUS
  <1>3. \A i \in 1..Len(s) : i \in 1..Len(u) /\ u[i] = s[i]
    BY <1>1, <1>2
  <1>4. \A i \in 1..Len(r) : i + Len(s) \in 1..Len(u) /\ u[i + Len(s)] = r[i]
    <2> SUFFICES ASSUME NEW i \in 1..Len(r)
                 PROVE  i + Len(s) \in 1..Len(u) /\ u[i + Len(s)] = r[i]
      OBVIOUS
    <2>1. /\ i + Len(s) \in 1..(Len(s) + Len(r)) /\ ~(i + Len(s) <= Len(s))
          /\ (i + Len(s)) - Len(s) = i
      BY <1>2
    <2> QED
      BY <1>1, <2>1
  <1>5. \A i \in 1..Len(u) : \/ i \in 1..Len(s) /\ u[i] = s[i]
                             \/ i - Len(s) \in 1..Len(r) /\ u[i] = r[i - Len(s)]
    BY <1>1, <1>2
  <1> HIDE DEF u
  <1>6. Promised(u, t) <=> Promised(s, t) \/ Promised(r, t)
    BY <1>3, <1>4, <1>5 DEF Promised
  <1>7. Frees(u, t) <=> Frees(s, t) \/ Frees(r, t)
    BY <1>3, <1>4, <1>5 DEF Frees
  <1> QED
    BY <1>6, <1>7 DEF u

LEMMA PlainFrees ==
  ASSUME NEW s \in Seq(Items), Plain(s) \/ Settled(s), NEW t
  PROVE  ~Frees(s, t)
  BY DEF Plain, Settled, Lacks, Frees, Bound, S

(* What is left of an agenda when its first step is taken off.               *)
LEMMA TailIs ==
  ASSUME NEW s \in Seq(Items), s # <<>>
  PROVE  /\ Head(s) = s[1] /\ Head(s) \in Items
         /\ Tail(s) \in Seq(Items)
         /\ Len(Tail(s)) = Len(s) - 1 /\ Len(s) \in Nat \ {0}
         /\ \A i \in 1..Len(Tail(s)) : i + 1 \in 1..Len(s) /\ Tail(s)[i] = s[i + 1]
         /\ \A names : Lacks(s, names) => Lacks(Tail(s), names)
         /\ \A t : /\ Promised(s, t) <=> Promises(Head(s), t) \/ Promised(Tail(s), t)
                   /\ Frees(s, t) <=> Head(s) = S("free", t) \/ Frees(Tail(s), t)
  <1>1. Head(s) = s[1]
    OBVIOUS
  <1>2. /\ Head(s) \in Items
        /\ Tail(s) \in Seq(Items)
        /\ Len(Tail(s)) = Len(s) - 1
        /\ \A i \in 1..Len(Tail(s)) : Tail(s)[i] = s[i + 1]
    BY HeadTailProperties
  <1>3. Len(s) \in Nat \ {0}
    BY EmptySeq
  <1>4. \A i \in 1..Len(Tail(s)) : i + 1 \in 1..Len(s)
    BY <1>2, <1>3
  <1>5. \A i \in 1..Len(s) : i = 1 \/ (i - 1 \in 1..Len(Tail(s)) /\ s[i] = Tail(s)[i - 1])
    <2>1. \A i \in 1..Len(s) : i = 1 \/ (i - 1 \in 1..Len(Tail(s)) /\ (i - 1) + 1 = i)
      BY <1>2, <1>3
    <2> QED
      BY <1>2, <2>1
  <1>6. \A names : Lacks(s, names) => Lacks(Tail(s), names)
    BY <1>2, <1>4 DEF Lacks
  <1>7. \A t : Promised(s, t) <=> Promises(Head(s), t) \/ Promised(Tail(s), t)
    <2>1. \A t : Promised(s, t) => Promises(Head(s), t) \/ Promised(Tail(s), t)
      BY <1>1, <1>5 DEF Promised
    <2>2. \A t : Promises(Head(s), t) => Promised(s, t)
      BY <1>1, <1>3 DEF Promised
    <2>3. \A t : Promised(Tail(s), t) => Promised(s, t)
      BY <1>2, <1>4 DEF Promised
    <2> QED
      BY <2>1, <2>2, <2>3
  <1>8. \A t : Frees(s, t) <=> Head(s) = S("free", t) \/ Frees(Tail(s), t)
    <2>1. \A t : Frees(s, t) => Head(s) = S("free", t) \/ Frees(Tail(s), t)
      BY <1>1, <1>5 DEF Frees
    <2>2. \A t : Head(s) = S("free", t) => Frees(s, t)
      BY <1>1, <1>3 DEF Frees
    <2>3. \A t : Frees(Tail(s), t) => Frees(s, t)
      BY <1>2, <1>4 DEF Frees
    <2> QED
      BY <2>1, <2>2, <2>3
  <1> QED
    BY <1>1, <1>2, <1>3, <1>4, <1>6, <1>7, <1>8

LEMMA TailSettled ==
  ASSUME NEW s \in Seq(Items), s # <<>>, NEW F, InOrder(s, F),
         Head(s)[1] \notin {"free", "sync", "signal"}
  PROVE  Settled(Tail(s))
  <1>1. \A i \in 1..Len(Tail(s)) :
          i + 1 \in 1..Len(s) /\ i + 1 # 1 /\ Tail(s)[i] = s[i + 1] /\ (i + 1 = Len(s) => i = Len(Tail(s)))
    BY TailIs
  <1>2. s[1][1] \notin {"free", "sync", "signal"}
    BY TailIs
  <1> QED
    BY <1>1, <1>2 DEF InOrder, Ready, Settled, Bound, S

(* The step before the one that needs no filter is over.                     *)
LEMMA TailInOrder ==
  ASSUME NEW s \in Seq(Items), s # <<>>, NEW F, NEW G, InOrder(s, F),
         Head(s)[1] \in {"sync", "signal"} => \A t : F[t] = -1 => G[t] = -1,
         Head(s)[1] = "free" => G[Head(s)[2]] = -1,
         Head(s)[1] \in {"free", "sync", "signal"}
  PROVE  InOrder(Tail(s), G)
  <1>1. \A i \in 1..Len(Tail(s)) :
          i + 1 \in 1..Len(s) /\ i + 1 # 1 /\ Tail(s)[i] = s[i + 1] /\ (i + 1 = Len(s) => i = Len(Tail(s)))
    BY TailIs
  <1>2. s[1] = Head(s) /\ (\A i \in 1..Len(Tail(s)) : i + 1 = 2 => i = 1)
    BY TailIs
  <1>3. ASSUME NEW i \in 1..Len(Tail(s))
        PROVE  Ready(Tail(s), G, i)
    <2>1. Ready(s, F, i + 1)
      BY <1>1 DEF InOrder
    <2> QED
      BY <1>1, <1>2, <1>3, <2>1 DEF Ready, S
  <1>4. \A i \in 1..Len(Tail(s)) :
          Tail(s)[i][1] \notin {"free", "sync"} /\ (Tail(s)[i][1] \in Pauses => i = Len(Tail(s)))
    BY <1>1 DEF InOrder
  <1> QED
    BY <1>3, <1>4 DEF InOrder

--------------------------------------------------------------------------------
(* What the operators of the model put into an agenda.                       *)

LEMMA OrderIs ==
  /\ DOMAIN ModeOrder = 1..13 /\ DOMAIN DoneOrder = 1..13
  /\ \A t \in Tables : /\ \E i \in 1..13 : ModeOrder[i] = t
                       /\ \E i \in 1..13 : DoneOrder[i] = t
  <1>1. DOMAIN ModeOrder = 1..13 /\ DOMAIN DoneOrder = 1..13
    BY DEF ModeOrder, DoneOrder
  <1>2. /\ ModeOrder[1] = "pat" /\ ModeOrder[2] = "pmt" /\ ModeOrder[3] = "cat"
        /\ ModeOrder[4] = "sdt" /\ ModeOrder[5] = "nit" /\ ModeOrder[6] = "tot"
        /\ ModeOrder[7] = "eit4e" /\ ModeOrder[8] = "eit4f" /\ ModeOrder[9] = "eit50"
        /\ ModeOrder[10] = "eit51" /\ ModeOrder[11] = "eit60" /\ ModeOrder[12] = "eit61"
        /\ ModeOrder[13] = "stt"
    BY DEF ModeOrder
  <1>3. /\ DoneOrder[1] = "pat" /\ DoneOrder[2] = "pmt" /\ DoneOrder[3] = "cat"
        /\ DoneOrder[4] = "sdt" /\ DoneOrder[5] = "nit" /\ DoneOrder[6] = "eit4e"
        /\ DoneOrder[7] = "eit4f" /\ DoneOrder[8] = "eit50" /\ DoneOrder[9] = "eit51"
        /\ DoneOrder[10] = "eit60" /\ DoneOrder[11] = "eit61" /\ DoneOrder[12] = "tot"
        /\ DoneOrder[13] = "stt"
    BY DEF DoneOrder
  <1>4. \A t \in Tables :
          t \in {"pat", "pmt", "cat", "sdt", "nit", "tot", "eit4e", "eit4f", "eit50",
                "eit51", "eit60", "eit61", "stt"}
    BY EpgAssumption DEF EpgAssumption, Versioned, Timed, Eit
  <1> QED
    BY <1>1, <1>2, <1>3, <1>4

LEMMA FirstIsMember ==
  ASSUME NEW order, DOMAIN order = 1..13,
         NEW U, U # {}, \A t \in U : \E i \in 1..13 : order[i] = t
  PROVE  First(order, U) \in U
  <1> DEFINE P(i) == order[i] \in U /\ \A j \in 1..(i - 1) : order[j] \notin U
  <1>1. PICK k \in 1..13 : order[k] \in U
    OBVIOUS
  <1>2. \E i \in 1..13 : P(i)
    <2> SUFFICES ASSUME \A i \in 1..13 : ~P(i) PROVE FALSE
      OBVIOUS
    <2>1. order[1] \notin U
      OBVIOUS
    <2>2. order[2] \notin U
      BY <2>1
    <2>3. order[3] \notin U
      BY <2>1, <2>2
    <2>4. order[4] \notin U
      BY <2>1, <2>2, <2>3
    <2>5. order[5] \notin U
      BY <2>1, <2>2, <2>3, <2>4
    <2>6. order[6] \notin U
      BY <2>1, <2>2, <2>3, <2>4, <2>5
    <2>7. order[7] \notin U
      BY <2>1, <2>2, <2>3, <2>4, <2>5, <2>6
    <2>8. order[8] \notin U
      BY <2>1, <2>2, <2>3, <2>4, <2>5, <2>6, <2>7
    <2>9. order[9] \notin U
      BY <2>1, <2>2, <2>3, <2>4, <2>5, <2>6, <2>7, <2>8
    <2>10. order[10] \notin U
      BY <2>1, <2>2, <2>3, <2>4, <2>5, <2>6, <2>7, <2>8, <2>9
    <2>11. order[11] \notin U
      BY <2>1, <2>2, <2>3, <2>4, <2>5, <2>6, <2>7, <2>8, <2>9, <2>10
    <2>12. order[12] \notin U
      BY <2>1, <2>2, <2>3, <2>4, <2>5, <2>6, <2>7, <2>8, <2>9, <2>10, <2>11
    <2>13. order[13] \notin U
      BY <2>1, <2>2, <2>3, <2>4, <2>5, <2>6, <2>7, <2>8, <2>9, <2>10, <2>11, <2>12
    <2> QED
      BY <1>1, <2>1, <2>2, <2>3, <2>4, <2>5, <2>6, <2>7, <2>8, <2>9, <2>10, <2>11, <2>12, <2>13
  <1>3. First(order, U) = order[CHOOSE i \in DOMAIN order : P(i)]
    BY Zenon DEF First
  <1> QED
    BY <1>2, <1>3

LEMMA FirstTable ==
  ASSUME NEW U \in SUBSET Tables, U # {}
  PROVE  First(ModeOrder, U) \in U /\ First(DoneOrder, U) \in U
  <1>1. /\ \A t \in U : \E i \in 1..13 : ModeOrder[i] = t
        /\ \A t \in U : \E i \in 1..13 : DoneOrder[i] = t
    BY OrderIs
  <1> QED
    BY <1>1, OrderIs, FirstIsMember

(* Agendas of one step and of two.                                           *)
LEMMA OneStep ==
  ASSUME NEW q \in Items
  PROVE  /\ <<q>> \in Seq(Items) /\ Len(<<q>>) = 1 /\ <<q>>[1] = q
         /\ \A names : Lacks(<<q>>, names) <=> q[1] \notin names
         /\ \A t : Promised(<<q>>, t) <=> Promises(q, t)
         /\ \A t : Frees(<<q>>, t) <=> q = S("free", t)
  <1>1. /\ <<q>> \in Seq(Items) /\ Len(<<q>>) = 1 /\ <<q>>[1] = q
        /\ 1 \in 1..Len(<<q>>) /\ \A i \in 1..Len(<<q>>) : <<q>>[i] = q
    OBVIOUS
  <1> DEFINE s == <<q>>
  <1> HIDE DEF s
  <1>2. \A names : Lacks(s, names) <=> q[1] \notin names
    BY <1>1 DEF Lacks, s
  <1>3. \A t : Promised(s, t) <=> Promises(q, t)
    BY <1>1 DEF Promised, s
  <1>4. \A t : Frees(s, t) <=> q = S("free", t)
    BY <1>1 DEF Frees, s
  <1> QED
    BY <1>1, <1>2, <1>3, <1>4 DEF s

LEMMA TwoSteps ==
  ASSUME NEW p \in Items, NEW q \in Items
  PROVE  /\ <<p, q>> \in Seq(Items) /\ Len(<<p, q>>) = 2
         /\ <<p, q>>[1] = p /\ <<p, q>>[2] = q
         /\ \A names : Lacks(<<p, q>>, names) <=> p[1] \notin names /\ q[1] \notin names
         /\ \A t : Promised(<<p, q>>, t) <=> Promises(p, t) \/ Promises(q, t)
         /\ \A t : Frees(<<p, q>>, t) <=> p = S("free", t) \/ q = S("free", t)
  <1>1. /\ <<p, q>> \in Seq(Items) /\ Len(<<p, q>>) = 2
        /\ <<p, q>>[1] = p /\ <<p, q>>[2] = q
        /\ 1 \in 1..2 /\ 2 \in 1..2 /\ \A i \in 1..2 : i = 1 \/ i = 2
    OBVIOUS
  <1> DEFINE s == <<p, q>>
  <1>2. Len(s) = 2 /\ s[1] = p /\ s[2] = q
    BY <1>1
  <1> HIDE DEF s
  <1>3. \A names : Lacks(s, names) <=> p[1] \notin names /\ q[1] \notin names
    BY <1>1, <1>2 DEF Lacks
  <1>4. \A t : Promised(s, t) <=> Promises(p, t) \/ Promises(q, t)
    BY <1>1, <1>2 DEF Promised
  <1>5. \A t : Frees(s, t) <=> p = S("free", t) \/ q = S("free", t)
    BY <1>1, <1>2 DEF Frees
  <1> QED
    BY <1>1, <1>3, <1>4, <1>5 DEF s

LEMMA PairIs ==
  ASSUME NEW p \in Items, NEW q \in Items
  PROVE  <<p>> \o <<q>> = <<p, q>>
  <1>1. /\ <<p>> \o <<q>> \in Seq(Items) /\ Len(<<p>> \o <<q>>) = 2
        /\ (<<p>> \o <<q>>)[1] = p /\ (<<p>> \o <<q>>)[2] = q
    BY OneStep, ConcatProperties
  <1> DEFINE s == <<p>> \o <<q>>
             u == <<p, q>>
  <1>2. u \in Seq(Items) /\ Len(u) = 2 /\ u[1] = p /\ u[2] = q
    BY TwoSteps
  <1> HIDE DEF s, u
  <1>3. s \in Seq(Items) /\ Len(s) = Len(u) /\ \A i \in 1..Len(s) : s[i] = u[i]
    BY <1>1, <1>2 DEF s
  <1>4. s = u
    BY <1>2, <1>3, SeqEqual
  <1> QED
    BY <1>4 DEF s, u

LEMMA LoopIs ==
  ASSUME NEW name \in LoopSteps, NEW U \in SUBSET Tables, name = "setSche" => U \subseteq Schedule
  PROVE  /\ Loop(name, U) \in Seq(Items)
         /\ Plain(Loop(name, U)) /\ Settled(Loop(name, U))
         /\ \A t : Promised(Loop(name, U), t) <=> name = "reset" /\ t \in U
         /\ \A t : ~Frees(Loop(name, U), t)
  <1>1. CASE U = {}
    <2>1. Loop(name, U) = <<>>
      BY <1>1 DEF Loop
    <2>2. Plain(<<>>) /\ Settled(<<>>)
      BY DEF Plain, Lacks, Settled
    <2>3. \A t : ~Promised(<<>>, t) /\ ~Frees(<<>>, t)
      BY DEF Promised, Frees
    <2>4. <<>> \in Seq(Items)
      OBVIOUS
    <2> QED
      BY <1>1, <2>1, <2>2, <2>3, <2>4
  <1>2. CASE U # {}
    <2> DEFINE q == S(name, U)
    <2>1. Loop(name, U) = <<q>> /\ q[1] = name /\ q[2] = U
      BY <1>2 DEF Loop, S
    <2>2. q \in Items
      <3>1. U \in (SUBSET Tables) \ {{}}
        BY <1>2
      <3>2. q \in LoopSteps \X ((SUBSET Tables) \ {{}})
        BY <3>1 DEF S
      <3>3. q \in LoopItems
        BY <2>1, <3>2 DEF LoopItems
      <3> QED
        BY <3>3 DEF Items
    <2> HIDE DEF q
    <2>3. name \notin Bound \cup Pauses \cup Stop \cup Owing \cup {"service", "free"}
      BY DEF LoopSteps, Bound, Pauses, Stop, Owing
    <2>4. Plain(<<q>>) /\ Settled(<<q>>)
      BY <2>1, <2>2, <2>3, OneStep DEF Plain, Settled
    <2>5. \A t : Promises(q, t) <=> name = "reset" /\ t \in U
      BY <2>1, <2>3 DEF Promises
    <2>6. \A t : q # S("free", t)
      BY <2>1, <2>3 DEF S
    <2> QED
      BY <2>1, <2>2, <2>4, <2>5, <2>6, OneStep
  <1> QED
    BY <1>1, <1>2

(* A single step without a table.                                            *)
LEMMA StepIs ==
  ASSUME NEW name \in PlainSteps
  PROVE  /\ <<S(name, "")>> \in Seq(Items)
         /\ \A names : Lacks(<<S(name, "")>>, names) <=> name \notin names
         /\ name # "sync" => Settled(<<S(name, "")>>)
         /\ \A t : Promised(<<S(name, "")>>, t) <=> name = "service" /\ t \in {"pmt", "eit4e"}
         /\ \A t : ~Frees(<<S(name, "")>>, t)
  <1> DEFINE q == S(name, "")
  <1>1. q \in Items /\ q[1] = name
    BY DEF Items, S
  <1> HIDE DEF q
  <1>2. name \notin Owing \cup {"reset", "free"}
    BY DEF PlainSteps, Pauses, Owing
  <1>3. \A t : Promises(q, t) <=> name = "service" /\ t \in {"pmt", "eit4e"}
    BY <1>1, <1>2 DEF Promises
  <1>4. \A t : q # S("free", t)
    BY <1>1, <1>2 DEF S
  <1>5. name # "sync" => Settled(<<q>>)
    BY <1>1, <1>2, OneStep DEF Settled, Bound
  <1>6. /\ \A names : Lacks(<<q>>, names) <=> name \notin names
        /\ \A t : Promised(<<q>>, t) <=> name = "service" /\ t \in {"pmt", "eit4e"}
        /\ \A t : ~Frees(<<q>>, t)
        /\ <<q>> \in Seq(Items)
    BY <1>1, <1>3, <1>4, OneStep
  <1> QED
    BY <1>5, <1>6 DEF q

(* What a step may put before the rest of the agenda.                        *)
Front(s, F) == s \in Seq(Items) /\ InOrder(s, F) /\ Lacks(s, Pauses \cup Stop)

LEMMA FrontIs ==
  ASSUME NEW t \in Tables, NEW o \in Owing, NEW F
  PROVE  /\ Front(<<S("free", t)>>, F) /\ Front(<<S("free", t), S(o, t)>>, F)
         /\ F[t] = -1 => Front(<<S(o, t)>>, F)
         /\ \A x : /\ ~Promised(<<S("free", t)>>, x)
                   /\ Promised(<<S("free", t), S(o, t)>>, x) <=> x = t
                   /\ Promised(<<S(o, t)>>, x) <=> x = t
                   /\ Frees(<<S("free", t)>>, x) <=> x = t
                   /\ Frees(<<S("free", t), S(o, t)>>, x) <=> x = t
                   /\ ~Frees(<<S(o, t)>>, x)
  <1> DEFINE p == S("free", t)
             q == S(o, t)
  <1>1. /\ p \in Items /\ p[1] = "free" /\ p[2] = t
        /\ q \in Items /\ q[1] = o /\ q[2] = t
        /\ \A x : p = S("free", x) <=> x = t
        /\ \A x : q # S("free", x)
    BY DEF S, Items, TableSteps, Owing
  <1>2. o \notin {"free", "sync"} \cup Pauses \cup Stop /\ "free" \notin Owing \cup Pauses \cup Stop
    BY DEF Owing, Pauses, Stop
  <1> HIDE DEF p, q
  <1>3. /\ \A x : Promises(p, x) <=> FALSE
        /\ \A x : Promises(q, x) <=> x = t
    BY <1>1 DEF Promises, Owing
  <1>4. InOrder(<<p>>, F)
    BY <1>1, <1>2, OneStep DEF InOrder, Ready
  <1>5. F[t] = -1 => InOrder(<<q>>, F)
    BY <1>1, <1>2, OneStep DEF InOrder, Ready
  <1>6. InOrder(<<p, q>>, F)
    <2>1. p = S("free", q[2])
      BY <1>1
    <2> QED
      BY <1>1, <1>2, <2>1, TwoSteps DEF InOrder, Ready
  <1>7. Front(<<p>>, F) /\ Front(<<p, q>>, F) /\ (F[t] = -1 => Front(<<q>>, F))
    BY <1>1, <1>2, <1>4, <1>5, <1>6, OneStep, TwoSteps DEF Front
  <1>8. \A x : /\ ~Promised(<<p>>, x)
               /\ Promised(<<q>>, x) <=> x = t
               /\ Promised(<<p, q>>, x) <=> x = t
    BY <1>1, <1>3, OneStep, TwoSteps
  <1>9. \A x : /\ Frees(<<p>>, x) <=> x = t
               /\ ~Frees(<<q>>, x)
               /\ Frees(<<p, q>>, x) <=> x = t
    BY <1>1, OneStep, TwoSteps
  <1> QED
    BY <1>7, <1>8, <1>9 DEF p, q

LEMMA EmptyFront ==
  ASSUME NEW F
  PROVE  /\ Front(<<>>, F) /\ Plain(<<>>)
         /\ \A x : ~Promised(<<>>, x) /\ ~Frees(<<>>, x)
  <1>1. <<>> \in Seq(Items) /\ Len(<<>>) = 0
    OBVIOUS
  <1> QED
    BY <1>1 DEF Front, InOrder, Lacks, Plain, Promised, Frees

LEMMA FrontJoined ==
  ASSUME NEW F, NEW s, Front(s, F), NEW r \in Seq(Items), Plain(r), Settled(r)
  PROVE  Front(s \o r, F)
  <1>1. /\ s \in Seq(Items) /\ InOrder(s, F) /\ Lacks(s, Pauses)
        /\ Lacks(s, Pauses \cup Stop) /\ Lacks(r, Pauses \cup Stop)
    BY DEF Front, Lacks, Plain
  <1>2. s \o r \in Seq(Items) /\ InOrder(s \o r, F)
    BY <1>1, Joined
  <1>3. Lacks(s \o r, Pauses \cup Stop)
    BY <1>1, LacksJoined
  <1> QED
    BY <1>2, <1>3 DEF Front

--------------------------------------------------------------------------------
(* What every step keeps.                                                    *)

LEMMA HeadIs ==
  ASSUME Agenda, todo # <<>>
  PROVE  /\ todo \in Seq(Items) /\ Head(todo) \in Items /\ Rest \in Seq(Items)
         /\ Head(todo)[1] \in TableSteps => Arg \in Tables /\ Head(todo) = S(Head(todo)[1], Arg)
         /\ Head(todo)[1] \in LoopSteps =>
              Arg \in SUBSET Tables /\ Arg # {} /\ Head(todo) = S(Head(todo)[1], Arg)
         /\ Head(todo)[1] = "setSche" => Arg \subseteq Schedule
         /\ Head(todo)[1] \in Owing => fid[Arg] = -1
         /\ Head(todo)[1] \in Pauses =>
              Len(todo) = 1 /\ \A t : ~Promised(todo, t) /\ ~Frees(todo, t)
  <1>1. /\ todo \in Seq(Items) /\ Head(todo) \in Items /\ Rest \in Seq(Items)
        /\ Head(todo) = todo[1] /\ Len(todo) \in Nat \ {0}
    BY TailIs DEF Agenda, Rest
  <1>2. ASSUME NEW q \in Items
        PROVE  /\ q[1] \in TableSteps => q[2] \in Tables /\ q = <<q[1], q[2]>>
               /\ q[1] \in LoopSteps => q[2] \in SUBSET Tables /\ q[2] # {} /\ q = <<q[1], q[2]>>
               /\ q[1] = "setSche" => q[2] \subseteq Schedule
    <2>1. CASE q \in TableSteps \X Tables
      BY <2>1 DEF TableSteps, LoopSteps, Owing
    <2>2. CASE q \in LoopItems
      BY <2>2 DEF LoopItems, TableSteps, LoopSteps, Owing
    <2>3. CASE q \in PlainSteps \X {""}
      BY <2>3 DEF PlainSteps, Pauses, TableSteps, LoopSteps, Owing
    <2> QED
      BY <2>1, <2>2, <2>3 DEF Items
  <1>3. /\ Head(todo)[1] \in Owing => fid[Arg] = -1
        /\ Head(todo)[1] \in Pauses => Len(todo) = 1
    <2>1. 1 \in 1..Len(todo)
      BY <1>1
    <2>2. Ready(todo, fid, 1) /\ (todo[1][1] \in Pauses => 1 = Len(todo))
      BY <2>1 DEF Agenda, InOrder
    <2> QED
      BY <1>1, <2>2 DEF Ready, Arg
  <1>4. ASSUME Head(todo)[1] \in Pauses, NEW t
        PROVE  ~Promised(todo, t) /\ ~Frees(todo, t)
    <2>1. \A i \in 1..Len(todo) : todo[i] = Head(todo)
      BY <1>1, <1>3, <1>4
    <2> QED
      BY <1>4, <2>1 DEF Promised, Promises, Frees, Pauses, Owing, S
  <1> QED
    BY <1>1, <1>2, <1>3, <1>4 DEF Arg, S

LEMMA Continues ==
  ASSUME IInv, todo # <<>>, Head(todo)[1] \notin {"free", "sync", "signal"},
         NEW front, Front(front, fid'), todo' = front \o Rest
  PROVE  /\ Agenda'
         /\ \A names : Lacks(front, names) /\ Lacks(todo, names) => Lacks(todo', names)
         /\ \A t : /\ Promised(todo, t) <=> Promises(Head(todo), t) \/ Promised(Rest, t)
                   /\ Promised(todo', t) <=> Promised(front, t) \/ Promised(Rest, t)
                   /\ Frees(todo', t) <=> Frees(front, t)
  <1>1. /\ todo \in Seq(Items) /\ InOrder(todo, fid) /\ Rest \in Seq(Items)
        /\ front \in Seq(Items) /\ InOrder(front, fid') /\ Lacks(front, Pauses)
    BY HeadIs DEF IInv, Agenda, Front, Lacks
  <1>2. Settled(Rest)
    BY <1>1, TailSettled DEF Rest
  <1>3. Agenda'
    BY <1>1, <1>2, Joined DEF Agenda
  <1>4. ASSUME NEW names, Lacks(front, names), Lacks(todo, names)
        PROVE  Lacks(todo', names)
    <2>1. Lacks(Rest, names)
      BY <1>1, <1>4, TailIs DEF Rest
    <2> QED
      BY <1>1, <1>4, <2>1, LacksJoined
  <1>5. \A t : Promised(todo, t) <=> Promises(Head(todo), t) \/ Promised(Rest, t)
    BY <1>1, TailIs DEF Rest
  <1>6. \A t : /\ Promised(todo', t) <=> Promised(front, t) \/ Promised(Rest, t)
               /\ Frees(todo', t) <=> Frees(front, t)
    BY <1>1, <1>2, PromisedJoined, PlainFrees
  <1> QED
    BY <1>3, <1>4, <1>5, <1>6

LEMMA FirstStep ==
  ASSUME NEW q \in Items, NEW r \in Seq(Items)
  PROVE  /\ <<q>> \o r \in Seq(Items) /\ <<q>> \o r # <<>>
         /\ Head(<<q>> \o r) = q /\ Tail(<<q>> \o r) = r
  OBVIOUS

LEMMA ExitIs ==
  ASSUME NEW U \in SUBSET Tables
  PROVE  /\ ExitSteps(U) \in Seq(Items) /\ ExitSteps(U) # <<>>
         /\ Head(ExitSteps(U)) = IF U = {} THEN S("exitSync", "") ELSE S("setMode", U)
         /\ Tail(ExitSteps(U)) = IF U = {} THEN <<S("release", "")>> ELSE ExitSteps({})
         /\ Settled(ExitSteps(U))
  <1> DEFINE x == S("exitSync", "")
             y == S("release", "")
             m == S("setMode", U)
  <1>1. /\ x \in Items /\ y \in Items /\ x[1] = "exitSync" /\ y[1] = "release" /\ m[1] = "setMode"
    BY DEF Items, PlainSteps, Pauses, S
  <1>2. U # {} => m \in Items
    BY DEF Items, LoopItems, LoopSteps, S
  <1>3. /\ ExitSteps({}) = <<>> \o <<x, y>>
        /\ U # {} => ExitSteps(U) = <<m>> \o <<x, y>>
    BY DEF ExitSteps, Loop
  <1> HIDE DEF x, y, m
  <1>4. /\ <<>> \o <<x, y>> = <<x, y>> /\ <<x, y>> \in Seq(Items) /\ <<x, y>> # <<>>
        /\ Head(<<x, y>>) = x /\ Tail(<<x, y>>) = <<y>> /\ Len(<<x, y>>) = 2
        /\ <<x, y>>[1] = x /\ <<x, y>>[2] = y
    BY <1>1
  <1>5. Settled(<<x, y>>)
    BY <1>1, <1>4 DEF Settled, Bound, Owing, Pauses
  <1>6. U # {} =>
          /\ <<m>> \o <<x, y>> \in Seq(Items) /\ <<m>> \o <<x, y>> # <<>>
          /\ Head(<<m>> \o <<x, y>>) = m /\ Tail(<<m>> \o <<x, y>>) = <<x, y>>
    BY <1>1, <1>2, <1>4, FirstStep
  <1>7. U # {} => Settled(<<m>> \o <<x, y>>)
    <2>1. U # {} => <<m>> \in Seq(Items) /\ Plain(<<m>>)
      BY <1>1, <1>2, OneStep DEF Plain, Bound, Pauses, Stop, Owing
    <2> QED
      BY <1>4, <1>5, <2>1, SettledJoined
  <1> QED
    BY <1>3, <1>4, <1>5, <1>6, <1>7 DEF x, y, m

(* Where an agenda with the exit steps has got to.                           *)
LEMMA ExitingIs ==
  ASSUME Exiting
  PROVE  \/ \E U \in SUBSET Tables :
              \/ todo = ExitSteps(U) /\ Remaining(U)
              \/ \E u \in Tables : /\ todo # <<>> /\ Head(todo) = S("free", u)
                                   /\ Rest = ExitSteps(U) /\ Remaining(U \cup {u})
              \/ /\ todo # <<>> /\ Head(todo) = S("sync", "")
                 /\ Rest = ExitSteps(U) /\ Remaining(U)
         \/ todo = <<S("release", "")>> /\ Remaining({})
  <1>1. \A u \in Tables : S("free", u) \in Items
    BY DEF Items, TableSteps, S
  <1>2. S("sync", "") \in Items
    BY DEF Items, PlainSteps, S
  <1>3. \A U \in SUBSET Tables : ExitSteps(U) \in Seq(Items)
    BY ExitIs
  <1>4. ASSUME NEW U \in SUBSET Tables, NEW u \in Tables,
               todo = <<S("free", u)>> \o ExitSteps(U)
        PROVE  todo # <<>> /\ Head(todo) = S("free", u) /\ Rest = ExitSteps(U)
    BY <1>1, <1>3, <1>4, FirstStep DEF Rest
  <1>5. ASSUME NEW U \in SUBSET Tables, todo = <<S("sync", "")>> \o ExitSteps(U)
        PROVE  todo # <<>> /\ Head(todo) = S("sync", "") /\ Rest = ExitSteps(U)
    BY <1>2, <1>3, <1>5, FirstStep DEF Rest
  <1> QED
    BY <1>4, <1>5 DEF Exiting

LEMMA NotExiting ==
  ASSUME IInv, todo # <<>>,
         Head(todo)[1] \notin {"setMode", "free", "sync", "exitSync", "release"}
  PROVE  Lacks(todo, Last)
  <1>1. \A name, arg : S(name, arg)[1] = name
    BY DEF S
  <1>2. S("release", "") \in Items
    BY DEF Items, PlainSteps, Pauses, S
  <1>3. Head(<<S("release", "")>>) = S("release", "")
    BY <1>2, OneStep, TailIs
  <1>4. ASSUME NEW U \in SUBSET Tables, todo = ExitSteps(U)
        PROVE  FALSE
    <2>1. Head(todo) = S("setMode", U) \/ Head(todo) = S("exitSync", "")
      BY <1>4, ExitIs
    <2> QED
      BY <1>1, <2>1
  <1>5. ASSUME NEW u, Head(todo) = S("free", u)
        PROVE  FALSE
    BY <1>1, <1>5
  <1>6. Head(todo) # S("sync", "")
    BY <1>1
  <1>7. todo # <<S("release", "")>>
    <2>1. S("release", "")[1] = "release"
      BY <1>1
    <2>2. Head(todo) # S("release", "")
      BY <2>1
    <2> QED
      BY <1>3, <2>2, Zenon
  <1>8. ~Exiting
    BY <1>4, <1>5, <1>6, <1>7, ExitingIs
  <1> QED
    BY <1>8 DEF IInv, Stopping

LEMMA FiltersKept ==
  ASSUME IInv, UNCHANGED <<fid, st>>, call' \in {call, None}, At("sync") => At("sync")'
  PROVE  Filters'
  BY EpgAssumption DEF EpgAssumption, IInv, Filters, Dmx!Quiescence

LEMMA HandlingKept ==
  ASSUME IInv, UNCHANGED <<fid, since, call, callTs, hpc, htab, tuned, feEvt, fendEvt>>,
         curr' \in {curr, feEvt}
  PROVE  Handling'
  BY DEF IInv, Handling

--------------------------------------------------------------------------------
(* Steps that only put more into the agenda.                                 *)

AgendaOnly ==
  UNCHANGED <<app, evt, batch, mode, service, always, fid, armed, ctl, want, since,
              frontend, feEvt, registry, demux, handler, history>>

LEMMA TypeKept ==
  ASSUME IInv, AgendaOnly, single' \in BOOLEAN, check' \subseteq Tables \ Versioned, curr' \in {curr, feEvt}
  PROVE  TypeOK'
  BY DEF AgendaOnly, IInv, TypeOK, app, frontend, registry, demux, handler, history, Evt!TypeOK, Dmx!TypeOK

LEMMA StepKeeps ==
  ASSUME IInv, todo # <<>>, Head(todo)[1] \notin {"free", "sync", "signal"},
         Lacks(todo, Last) \/ Stopping',
         NEW front, Front(front, fid), todo' = front \o Rest, AgendaOnly,
         single' \in BOOLEAN, check' \subseteq Tables \ Versioned, curr' \in {curr, feEvt},
         \A t \in Cared : Monitored(t) =>
           /\ Promises(Head(todo), t) => Promised(front, t) \/ Checked(t)'
           /\ Frees(front, t) => Promised(front, t)
           /\ Checked(t) => Checked(t)' \/ Promised(front, t) \/ fid[t] # -1
  PROVE  IInv'
  <1>1. TypeOK'
    BY TypeKept
  <1>2. Front(front, fid')
    BY DEF AgendaOnly
  <1>3. /\ Agenda'
        /\ \A names : Lacks(front, names) /\ Lacks(todo, names) => Lacks(todo', names)
        /\ \A t : /\ Promised(todo, t) <=> Promises(Head(todo), t) \/ Promised(Rest, t)
                  /\ Promised(todo', t) <=> Promised(front, t) \/ Promised(Rest, t)
                  /\ Frees(todo', t) <=> Frees(front, t)
    BY <1>2, Continues
  <1>4. Stopping'
    <2>1. Lacks(front, Last) /\ Lacks(front, Stop)
      BY DEF Front, Lacks, Last, Stop
    <2>2. Lacks(todo, Last) => Lacks(todo', Last)
      BY <1>3, <2>1
    <2>3. todo # <<>> => life = "live"
      BY DEF IInv, Stopping
    <2> QED
      BY <1>3, <2>1, <2>2, <2>3 DEF IInv, Stopping, AgendaOnly, app
  <1>5. Filters'
    BY FiltersKept DEF AgendaOnly, At, demux
  <1>6. Handling'
    BY HandlingKept DEF AgendaOnly, demux, handler, frontend
  <1>7. Watching'
    <2>1. /\ Undisturbed' <=> Undisturbed
          /\ \A t : Monitored(t)' <=> Monitored(t)
          /\ \A t : Pending(t)' <=> Pending(t)
      BY DEF AgendaOnly, Undisturbed, Monitored, Pending, history
    <2>2. ASSUME NEW t \in Cared, Monitored(t), Minded(t)
          PROVE  Minded(t)'
      BY <1>3, <2>1, <2>2 DEF AgendaOnly, Minded
    <2> QED
      BY <2>1, <2>2 DEF IInv, Watching
  <1> QED
    BY <1>1, <1>3, <1>4, <1>5, <1>6, <1>7 DEF IInv

LEMMA FreedIs ==
  ASSUME NEW t \in Tables
  PROVE  /\ Front(Freed(t), fid)
         /\ \A x : ~Promised(Freed(t), x) /\ (Frees(Freed(t), x) => x = t)
  <1>1. "open" \in Owing
    BY DEF Owing
  <1>2. CASE fid[t] = -1
    BY <1>2, EmptyFront DEF Freed
  <1>3. CASE fid[t] # -1
    BY <1>1, <1>3, FrontIs DEF Freed
  <1> QED
    BY <1>2, <1>3

LEMMA FreedThen ==
  ASSUME NEW t \in Tables, NEW o \in Owing
  PROVE  /\ Front(Freed(t) \o <<S(o, t)>>, fid)
         /\ \A x : /\ Promised(Freed(t) \o <<S(o, t)>>, x) <=> x = t
                   /\ Frees(Freed(t) \o <<S(o, t)>>, x) => x = t
  <1> DEFINE p == S("free", t)
             q == S(o, t)
  <1>1. p \in Items /\ q \in Items
    BY DEF S, Items, TableSteps, Owing
  <1>4. /\ Front(<<p, q>>, fid) /\ (fid[t] = -1 => Front(<<q>>, fid))
        /\ \A x : /\ Promised(<<q>>, x) <=> x = t
                  /\ Promised(<<p, q>>, x) <=> x = t
                  /\ Frees(<<p, q>>, x) <=> x = t
                  /\ ~Frees(<<q>>, x)
    BY FrontIs
  <1> SUFFICES /\ Front(Freed(t) \o <<q>>, fid)
               /\ \A x : /\ Promised(Freed(t) \o <<q>>, x) <=> x = t
                         /\ Frees(Freed(t) \o <<q>>, x) => x = t
    OBVIOUS
  <1>2. CASE fid[t] = -1
    <2>1. Freed(t) = <<>>
      BY <1>2 DEF Freed
    <2> HIDE DEF q
    <2>2. <<q>> \in Seq(Items)
      BY <1>1
    <2>3. Freed(t) \o <<q>> = <<q>>
      BY <2>1, <2>2, ConcatEmptySeq
    <2> QED
      BY <1>2, <1>4, <2>3
  <1>3. CASE fid[t] # -1
    <2>1. Freed(t) = <<p>>
      BY <1>3 DEF Freed
    <2> HIDE DEF p, q
    <2>2. Freed(t) \o <<q>> = <<p, q>>
      BY <1>1, <2>1, PairIs
    <2> QED
      BY <1>4, <2>2
  <1> QED
    BY <1>2, <1>3

LEMMA ResetKeeps ==
  ASSUME IInv, Reset
  PROVE  IInv'
  <1> DEFINE t == First(ModeOrder, Arg)
             a == Freed(t)
             b == IF Monitored(t) THEN <<S("renew", t)>> ELSE <<>>
             c == Loop("reset", Arg \ {t})
  <1>1. /\ todo # <<>> /\ Head(todo)[1] = "reset" /\ Arg \in SUBSET Tables /\ Arg # {}
        /\ Head(todo) = S("reset", Arg)
    BY HeadIs DEF Reset, At, IInv, LoopSteps
  <1>2. t \in Arg
    BY <1>1, FirstTable
  <1>3. todo' = (a \o b \o c) \o Rest
    BY DEF Reset, Then
  <1>4. /\ Front(a \o b, fid)
        /\ \A x : /\ Promised(a \o b, x) <=> Monitored(t) /\ x = t
                  /\ Frees(a \o b, x) => x = t
    <2> HIDE DEF t
    <2>1. t \in Tables /\ "renew" \in Owing
      BY <1>1, <1>2 DEF Owing
    <2>2. CASE ~Monitored(t)
      <3>1. a \in Seq(Items) /\ b = <<>>
        BY <2>1, <2>2, FreedIs DEF Front
      <3>2. a \o b = a
        BY <3>1, ConcatEmptySeq
      <3> HIDE DEF b
      <3> QED
        BY <2>1, <2>2, <3>2, FreedIs
    <2>3. CASE Monitored(t)
      <3>1. a \o b = Freed(t) \o <<S("renew", t)>>
        BY <2>3
      <3> HIDE DEF a, b
      <3> QED
        BY <2>1, <2>3, <3>1, FreedThen
    <2> QED
      BY <2>2, <2>3
  <1>5. /\ c \in Seq(Items) /\ Plain(c) /\ Settled(c)
        /\ \A x : ~Frees(c, x) /\ (Promised(c, x) <=> x \in Arg \ {t})
    BY <1>1, LoopIs DEF LoopSteps
  <1> DEFINE front == a \o b \o c
  <1>6. /\ Front(front, fid)
        /\ \A x : /\ Promised(front, x) <=> (Monitored(t) /\ x = t) \/ x \in Arg \ {t}
                  /\ Frees(front, x) => x = t
    <2> HIDE DEF a, b, c, t
    <2>1. a \o b \in Seq(Items)
      BY <1>4 DEF Front
    <2> QED
      BY <1>4, <1>5, <2>1, FrontJoined, PromisedJoined
  <1>7. AgendaOnly /\ single' = single /\ check' = check /\ curr' = curr
    BY DEF Reset, AgendaOnly, settings, tables, ts
  <1>8. single \in BOOLEAN /\ check \subseteq Tables \ Versioned
    BY DEF IInv, TypeOK
  <1>9. \A x : Promises(Head(todo), x) <=> x \in Arg
    BY <1>1 DEF Promises, S, Owing
  <1> HIDE DEF front, t
  <1>10. \A x \in Cared : Monitored(x) =>
           /\ Promises(Head(todo), x) => Promised(front, x) \/ Checked(x)'
           /\ Frees(front, x) => Promised(front, x)
           /\ Checked(x) => Checked(x)' \/ Promised(front, x) \/ fid[x] # -1
    BY <1>6, <1>7, <1>9 DEF Checked, AgendaOnly
  <1>11. todo' = front \o Rest
    BY <1>3 DEF front, t
  <1>12. Lacks(todo, Last)
    BY <1>1, NotExiting
  <1> QED
    BY <1>1, <1>6, <1>7, <1>8, <1>10, <1>11, <1>12, StepKeeps

(* A step that puts a loop, or nothing, before the rest.                     *)
LEMMA LoopKeeps ==
  ASSUME IInv, todo # <<>>,
         Head(todo)[1] \notin {"free", "sync", "signal", "setMode", "exitSync", "release"},
         NEW name \in LoopSteps, NEW U \in SUBSET Tables, name = "setSche" => U \subseteq Schedule,
         todo' = Loop(name, U) \o Rest, AgendaOnly,
         single' \in BOOLEAN, check' \subseteq Tables \ Versioned, curr' \in {curr, feEvt},
         check \subseteq check',
         \A t \in Cared : Monitored(t) /\ Promises(Head(todo), t) =>
           (name = "reset" /\ t \in U) \/ Checked(t)'
  PROVE  IInv'
  <1> DEFINE front == Loop(name, U)
  <1>1. /\ front \in Seq(Items) /\ Plain(front) /\ Settled(front)
        /\ \A t : Promised(front, t) <=> name = "reset" /\ t \in U
        /\ \A t : ~Frees(front, t)
    BY LoopIs
  <1> HIDE DEF front
  <1>2. Front(front, fid)
    BY <1>1, SettledInOrder DEF Front, Plain, Lacks
  <1>3. todo' = front \o Rest
    BY DEF front
  <1>4. Lacks(todo, Last)
    BY NotExiting
  <1>5. \A t \in Cared : Monitored(t) =>
          /\ Promises(Head(todo), t) => Promised(front, t) \/ Checked(t)'
          /\ Frees(front, t) => Promised(front, t)
          /\ Checked(t) => Checked(t)' \/ Promised(front, t) \/ fid[t] # -1
    BY <1>1 DEF Checked, AgendaOnly
  <1> QED
    BY <1>2, <1>3, <1>4, <1>5, StepKeeps

LEMMA EmptyLoop == \A name : Loop(name, {}) = <<>>
  BY DEF Loop

(* What a plain step at the head of the agenda promises.                     *)
LEMMA HeadPromises ==
  ASSUME NEW name, At(name)
  PROVE  /\ todo # <<>> /\ Head(todo)[1] = name
         /\ name \notin Owing \cup {"reset", "service"} => \A t : ~Promises(Head(todo), t)
         /\ name = "service" => \A t : Promises(Head(todo), t) <=> t \in {"pmt", "eit4e"}
         /\ name \in Owing => \A t : Promises(Head(todo), t) <=> t = Arg
  BY DEF At, Promises, Owing, Arg

LEMMA SettingsKeep ==
  ASSUME IInv, SolveFendEvt \/ ApplyPf \/ ApplySche
  PROVE  IInv'
  <1>1. AgendaOnly /\ single' = single /\ check' = check /\ curr' \in {curr, feEvt}
    BY DEF SolveFendEvt, ApplyPf, ApplySche, AgendaOnly, settings, tables, ts
  <1>2. single \in BOOLEAN /\ check \subseteq Tables \ Versioned
    BY DEF IInv, TypeOK
  <1>3. /\ todo # <<>> /\ Head(todo)[1] \in {"fend", "pf", "sche"}
        /\ \A t : ~Promises(Head(todo), t)
    BY HeadPromises DEF SolveFendEvt, ApplyPf, ApplySche, Owing
  <1>4. \E name \in LoopSteps, U \in SUBSET Tables :
          (name = "setSche" => U \subseteq Schedule) /\ todo' = Loop(name, U) \o Rest
    <2>1. "reset" \in LoopSteps /\ "setMode" \in LoopSteps /\ "setSche" \in LoopSteps
      BY DEF LoopSteps
    <2>2. CASE SolveFendEvt
      <3>1. todo' = Loop("reset", IF feEvt = curr THEN {} ELSE Tables) \o Rest
        BY <2>2, EmptyLoop DEF SolveFendEvt, Then
      <3> QED
        BY <2>1, <3>1
    <2>3. CASE ApplyPf
      <3> DEFINE U == IF "pf" \in always
                      THEN Tables \cap (IF service THEN {"eit4f"} ELSE {"eit4e", "eit4f"})
                      ELSE {}
      <3>1. todo' = Loop("setMode", U) \o Rest
        BY <2>3, EmptyLoop DEF ApplyPf, Then
      <3>2. U \in SUBSET Tables
        OBVIOUS
      <3> HIDE DEF U
      <3> QED
        BY <2>1, <3>1, <3>2
    <2>4. CASE ApplySche
      <3> DEFINE U == IF "sche" \in always THEN Tables \cap Schedule ELSE {}
      <3>1. todo' = Loop("setSche", U) \o Rest
        BY <2>4, EmptyLoop DEF ApplySche, Then, Schedule
      <3>2. U \in SUBSET Tables /\ U \subseteq Schedule
        OBVIOUS
      <3> HIDE DEF U
      <3> QED
        BY <2>1, <3>1, <3>2
    <2> QED
      BY <2>2, <2>3, <2>4
  <1>5. PICK name \in LoopSteps, U \in SUBSET Tables :
          (name = "setSche" => U \subseteq Schedule) /\ todo' = Loop(name, U) \o Rest
    BY <1>4
  <1> QED
    BY <1>1, <1>2, <1>3, <1>5, LoopKeeps

LEMMA ApplyServiceKeeps ==
  ASSUME IInv, ApplyService
  PROVE  IInv'
  <1> DEFINE U == Tables \cap {"pmt", "eit4e"}
  <1>1. /\ AgendaOnly /\ single' \in BOOLEAN /\ check' = check /\ curr' = curr
        /\ todo' = Loop("reset", U) \o Rest
    BY DEF ApplyService, AgendaOnly, Then, settings, tables, ts
  <1>2. check \subseteq Tables \ Versioned /\ "reset" \in LoopSteps
    BY DEF IInv, TypeOK, LoopSteps
  <1>3. /\ todo # <<>> /\ Head(todo)[1] = "service"
        /\ \A t \in Tables : Promises(Head(todo), t) => t \in U
    BY HeadPromises DEF ApplyService
  <1>4. U \in SUBSET Tables /\ \A t \in Cared : t \in Tables
    BY DEF Cared
  <1> HIDE DEF U
  <1> QED
    BY <1>1, <1>2, <1>3, <1>4, LoopKeeps

LEMMA RefreshDoneKeeps ==
  ASSUME IInv, RefreshDone
  PROVE  IInv'
  <1>1. AgendaOnly /\ single' = single /\ curr' = curr /\ check' = check \cup {Arg} /\ todo' = Rest
    BY DEF RefreshDone, AgendaOnly, settings, tables, ts
  <1>2. /\ todo # <<>> /\ Head(todo)[1] = "done" /\ Arg \in Tables \ Versioned
        /\ Rest \in Seq(Items) /\ \A t : Promises(Head(todo), t) <=> t = Arg
    BY HeadIs, HeadPromises DEF RefreshDone, At, IInv, TableSteps, Owing
  <1>3. check' \subseteq Tables \ Versioned /\ single' \in BOOLEAN
    BY <1>1, <1>2 DEF IInv, TypeOK
  <1>4. \A t : t = Arg => Checked(t)'
    BY <1>1 DEF RefreshDone, Checked, AgendaOnly
  <1>5. todo' = Loop("reset", {}) \o Rest /\ "reset" \in LoopSteps
    BY <1>1, <1>2, EmptyLoop, ConcatEmptySeq DEF LoopSteps
  <1>6. \A t \in Cared : Monitored(t) /\ Promises(Head(todo), t) =>
          ("reset" = "reset" /\ t \in {}) \/ Checked(t)'
    BY <1>2, <1>4
  <1>7. {} \in SUBSET Tables /\ "reset" # "setSche" /\ check \subseteq check' /\ curr' \in {curr, feEvt}
    BY <1>1
  <1> QED
    BY <1>1, <1>2, <1>3, <1>5, <1>6, <1>7, LoopKeeps

LEMMA SetModeExits ==
  ASSUME IInv, SetMode, Exiting, mode = {}
  PROVE  Exiting'
  <1>1. /\ todo # <<>> /\ Head(todo)[1] \in {"setMode", "setSche"}
        /\ Arg \in SUBSET Tables /\ Arg # {} /\ fid' = fid
    BY HeadIs DEF SetMode, At, IInv, LoopSteps, tables
  <1> \A name, arg : S(name, arg)[1] = name /\ S(name, arg)[2] = arg
    BY DEF S
  <1>2. /\ S("release", "")[1] = "release" /\ S("sync", "")[1] = "sync"
        /\ S("exitSync", "")[1] = "exitSync"
    BY DEF S
  <1>3. \E U \in SUBSET Tables : todo = ExitSteps(U) /\ Remaining(U)
    <2>1. S("release", "") \in Items
      BY DEF Items, PlainSteps, Pauses, S
    <2>2. Head(<<S("release", "")>>) = S("release", "")
      BY <2>1, OneStep, TailIs
    <2>3. ASSUME todo = <<S("release", "")>> PROVE FALSE
      BY <1>1, <1>2, <2>2, <2>3
    <2>4. ASSUME NEW u, Head(todo) = S("free", u) PROVE FALSE
      BY <1>1, <2>4
    <2>5. ASSUME Head(todo) = S("sync", "") PROVE FALSE
      BY <1>1, <1>2, <2>5
    <2> QED
      BY <2>3, <2>4, <2>5, ExitingIs
  <1>4. PICK U \in SUBSET Tables : todo = ExitSteps(U) /\ Remaining(U)
    BY <1>3
  <1>5. U # {} /\ Arg = U /\ Head(todo)[1] = "setMode" /\ Rest = ExitSteps({})
    <2>1. Head(todo) = IF U = {} THEN S("exitSync", "") ELSE S("setMode", U)
      BY <1>4, ExitIs
    <2>2. Tail(todo) = IF U = {} THEN <<S("release", "")>> ELSE ExitSteps({})
      BY <1>4, ExitIs
    <2>3. ASSUME U = {} PROVE FALSE
      <3>1. Head(todo) = S("exitSync", "")
        BY <2>1, <2>3
      <3> QED
        BY <1>1, <1>2, <3>1
    <2>4. Head(todo) = S("setMode", U) /\ Rest = ExitSteps({})
      BY <2>1, <2>2, <2>3 DEF Rest
    <2> QED
      BY <2>3, <2>4 DEF Arg
  <1>6. PICK t \in U : t = First(ModeOrder, Arg)
    BY <1>5, FirstTable
  <1> DEFINE c == Loop("setMode", U \ {t})
             z == <<S("exitSync", ""), S("release", "")>>
  <1>7. todo' = (Freed(t) \o c) \o z
    <2>1. ~Monitored(t)
      BY DEF Monitored
    <2>2. todo' = (Freed(t) \o c) \o Rest
      BY <1>1, <1>5, <1>6, <2>1 DEF SetMode, Then, At
    <2>3. z \in Seq(Items)
      <3>1. S("exitSync", "") \in Items /\ S("release", "") \in Items
        BY DEF Items, PlainSteps, Pauses, S
      <3> QED
        BY <3>1, TwoSteps
    <2>4. ExitSteps({}) = z
      BY <2>3, EmptyLoop, ConcatEmptySeq DEF ExitSteps
    <2> QED
      BY <1>5, <2>2, <2>4
  <1>8. Freed(t) \in Seq(Items) /\ c \in Seq(Items) /\ z \in Seq(Items)
    <2>1. S("exitSync", "") \in Items /\ S("release", "") \in Items
      BY DEF Items, PlainSteps, Pauses, S
    <2>2. Freed(t) \in Seq(Items)
      BY <1>6, FreedIs DEF Front
    <2>3. c \in Seq(Items)
      BY LoopIs DEF LoopSteps
    <2> QED
      BY <2>1, <2>2, <2>3, TwoSteps
  <1>9. todo' = Freed(t) \o ExitSteps(U \ {t})
    <2>1. (Freed(t) \o c) \o z = Freed(t) \o (c \o z)
      <3> HIDE DEF c, z
      <3> QED
        BY <1>8, ConcatAssociative
    <2> QED
      BY <1>7, <2>1 DEF ExitSteps
  <1>10. /\ Remaining(U)' /\ Remaining((U \ {t}) \cup {t})'
         /\ fid[t] = -1 => Remaining(U \ {t})'
    BY <1>1, <1>4 DEF Remaining
  <1> HIDE DEF c, z
  <1>11. CASE fid[t] = -1
    <2>1. Freed(t) = <<>> /\ ExitSteps(U \ {t}) \in Seq(Items)
      BY <1>11, ExitIs DEF Freed
    <2>2. todo' = ExitSteps(U \ {t})
      BY <1>9, <2>1, ConcatEmptySeq
    <2> QED
      BY <1>10, <1>11, <2>2 DEF Exiting
  <1>12. CASE fid[t] # -1
    <2>1. Freed(t) = <<S("free", t)>>
      BY <1>12 DEF Freed
    <2> QED
      BY <1>6, <1>9, <1>10, <2>1 DEF Exiting
  <1> QED
    BY <1>11, <1>12

LEMMA FrontLoop ==
  ASSUME NEW a, Front(a, fid), NEW name \in LoopSteps, NEW U \in SUBSET Tables,
         name = "setSche" => U \subseteq Schedule
  PROVE  /\ Front(a \o Loop(name, U), fid)
         /\ \A x : /\ Promised(a \o Loop(name, U), x) <=> Promised(a, x) \/ (name = "reset" /\ x \in U)
                   /\ Frees(a \o Loop(name, U), x) <=> Frees(a, x)
  <1> DEFINE c == Loop(name, U)
  <1>1. /\ c \in Seq(Items) /\ Plain(c) /\ Settled(c)
        /\ \A x : ~Frees(c, x) /\ (Promised(c, x) <=> name = "reset" /\ x \in U)
    BY LoopIs
  <1> HIDE DEF c
  <1>2. a \in Seq(Items)
    BY DEF Front
  <1>3. /\ Front(a \o c, fid)
        /\ \A x : /\ Promised(a \o c, x) <=> Promised(a, x) \/ Promised(c, x)
                  /\ Frees(a \o c, x) <=> Frees(a, x) \/ Frees(c, x)
    BY <1>1, <1>2, FrontJoined, PromisedJoined
  <1> QED
    BY <1>1, <1>3 DEF c

LEMMA BitIs == Bit("eit50") = "sche_act" /\ Bit("eit51") = "sche_act"
  BY DEF Bit

LEMMA SetModeStops ==
  ASSUME IInv, SetMode
  PROVE  Lacks(todo, Last) \/ Stopping'
  <1> SUFFICES ASSUME ~Lacks(todo, Last)
               PROVE  Stopping'
    OBVIOUS
  <1>1. Exiting /\ mode = {} /\ Callback \notin subs
    BY DEF IInv, Stopping
  <1>2. Exiting'
    BY <1>1, SetModeExits
  <1>3. UNCHANGED <<life, joiner, mode, subs>> /\ todo # <<>>
    BY DEF SetMode, At, app, settings, registry
  <1>4. life = "live" /\ joiner
    BY <1>3 DEF IInv, Stopping, Lacks, Last, Stop
  <1> QED
    BY <1>1, <1>2, <1>3, <1>4 DEF Stopping

LEMMA SetModeKeeps ==
  ASSUME IInv, SetMode
  PROVE  IInv'
  <1> DEFINE name == Head(todo)[1]
  <1>1. /\ todo # <<>> /\ name \in {"setMode", "setSche"} /\ name \in LoopSteps
        /\ Arg \in SUBSET Tables /\ Arg # {} /\ (name = "setSche" => Arg \subseteq Schedule)
    <2>1. todo # <<>> /\ name \in {"setMode", "setSche"} /\ name \in LoopSteps
      BY DEF SetMode, At, LoopSteps
    <2> QED
      BY <2>1, HeadIs DEF IInv
  <1>2. PICK t \in Arg : t = First(ModeOrder, Arg)
    BY <1>1, FirstTable
  <1> DEFINE on == (name = "setMode" /\ Monitored(t)) \/ (name # "setMode" /\ "sche_act" \in mode)
             a == IF ~on THEN Freed(t) ELSE IF fid[t] = -1 THEN <<S("open", t)>> ELSE <<>>
             front == a \o Loop(name, Arg \ {t})
  <1>3. todo' = front \o Rest
    BY <1>1, <1>2 DEF SetMode, Then, At
  <1>4. Front(a, fid) /\ \A x : Frees(a, x) => x = t /\ ~on
    <2>1. t \in Tables /\ "open" \in Owing
      BY <1>1 DEF Owing
    <2>2. CASE ~on
      BY <2>1, <2>2, FreedIs
    <2>3. CASE on /\ fid[t] = -1
      <3>1. a = <<S("open", t)>>
        BY <2>3
      <3> QED
        BY <2>1, <2>3, <3>1, FrontIs
    <2>4. CASE on /\ fid[t] # -1
      <3>1. a = <<>>
        BY <2>4
      <3> QED
        BY <3>1, EmptyFront
    <2> QED
      BY <2>2, <2>3, <2>4
  <1>5. \A x \in Cared : Monitored(x) /\ x = t => on
    BY <1>1, BitIs DEF Cared, Schedule, Monitored
  <1>6. Front(front, fid) /\ \A x : Frees(front, x) <=> Frees(a, x)
    <2> HIDE DEF a
    <2> QED
      BY <1>1, <1>4, FrontLoop
  <1>7. AgendaOnly /\ single' = single /\ check' = check /\ curr' = curr
    BY DEF SetMode, AgendaOnly, settings, tables, ts
  <1>8. single \in BOOLEAN /\ check \subseteq Tables \ Versioned
    BY DEF IInv, TypeOK
  <1>9. \A x : ~Promises(Head(todo), x)
    BY <1>1 DEF Promises, Owing
  <1>10. Lacks(todo, Last) \/ Stopping'
    BY SetModeStops
  <1> HIDE DEF front, on
  <1>11. \A x \in Cared : Monitored(x) =>
           /\ Promises(Head(todo), x) => Promised(front, x) \/ Checked(x)'
           /\ Frees(front, x) => Promised(front, x)
           /\ Checked(x) => Checked(x)' \/ Promised(front, x) \/ fid[x] # -1
    BY <1>4, <1>5, <1>6, <1>7, <1>9 DEF Checked, AgendaOnly
  <1> QED
    BY <1>1, <1>3, <1>6, <1>7, <1>8, <1>10, <1>11, StepKeeps

LEMMA TablesDoneKeeps ==
  ASSUME IInv, TablesDone
  PROVE  IInv'
  <1>1. /\ todo # <<>> /\ Head(todo)[1] = "tables" /\ Arg \in SUBSET Tables /\ Arg # {}
    BY HeadIs DEF TablesDone, At, IInv, LoopSteps
  <1>2. PICK t \in Arg : t = First(DoneOrder, Arg)
    BY <1>1, FirstTable
  <1> DEFINE a == <<S("free", t), S("done", t)>>
             front == a \o Loop("tables", Arg \ {t})
  <1>3. todo' = front \o Rest
    BY <1>2 DEF TablesDone, Then
  <1>4. Front(a, fid) /\ \A x : (Frees(a, x) <=> x = t) /\ (Promised(a, x) <=> x = t)
    BY <1>1, FrontIs DEF Owing
  <1> HIDE DEF a
  <1>5. Front(front, fid) /\ \A x : (Frees(front, x) <=> x = t) /\ (Promised(front, x) <=> x = t)
    BY <1>1, <1>4, FrontLoop DEF LoopSteps
  <1>6. AgendaOnly /\ single' = single /\ check' = check /\ curr' = curr
    BY DEF TablesDone, AgendaOnly, settings, tables, ts
  <1>7. single \in BOOLEAN /\ check \subseteq Tables \ Versioned
    BY DEF IInv, TypeOK
  <1>8. \A x : ~Promises(Head(todo), x)
    BY <1>1 DEF Promises, Owing
  <1>9. Lacks(todo, Last)
    BY <1>1, NotExiting
  <1> HIDE DEF front
  <1>10. \A x \in Cared : Monitored(x) =>
           /\ Promises(Head(todo), x) => Promised(front, x) \/ Checked(x)'
           /\ Frees(front, x) => Promised(front, x)
           /\ Checked(x) => Checked(x)' \/ Promised(front, x) \/ fid[x] # -1
    BY <1>5, <1>6, <1>8 DEF Checked, AgendaOnly
  <1> QED
    BY <1>1, <1>3, <1>5, <1>6, <1>7, <1>9, <1>10, StepKeeps

LEMMA SignalThen ==
  ASSUME NEW t \in Tables, fid[t] = -1, NEW o \in Owing
  PROVE  /\ Front(<<S(o, t)>>, fid) /\ Front(Signal \o <<S(o, t)>>, fid)
         /\ \A x : /\ ~Frees(<<S(o, t)>>, x) /\ (Promised(<<S(o, t)>>, x) <=> x = t)
                   /\ ~Frees(Signal \o <<S(o, t)>>, x)
                   /\ Promised(Signal \o <<S(o, t)>>, x) <=> x = t
  <1> DEFINE p == S("signal", "")
             q == S(o, t)
             u == <<p, q>>
  <1>1. /\ p \in Items /\ p[1] = "signal"
        /\ q \in Items /\ q[1] = o /\ q[2] = t
        /\ \A x : p # S("free", x) /\ q # S("free", x)
    BY DEF S, Items, PlainSteps, TableSteps, Owing
  <1>2. /\ Front(<<q>>, fid)
        /\ \A x : ~Frees(<<q>>, x) /\ (Promised(<<q>>, x) <=> x = t)
    BY FrontIs
  <1>3. Signal \o <<q>> = u
    <2>1. Signal = <<p>>
      BY DEF Signal
    <2> HIDE DEF p, q
    <2> QED
      BY <1>1, <2>1, PairIs
  <1> HIDE DEF p, q
  <1>4. /\ \A x : ~Promises(p, x)
        /\ \A x : Promises(q, x) <=> x = t
    BY <1>1 DEF Promises, Owing
  <1>5. /\ u \in Seq(Items) /\ Len(u) = 2 /\ u[1] = p /\ u[2] = q
        /\ \A names : Lacks(u, names) <=> p[1] \notin names /\ q[1] \notin names
        /\ \A x : Promised(u, x) <=> Promises(p, x) \/ Promises(q, x)
        /\ \A x : Frees(u, x) <=> p = S("free", x) \/ q = S("free", x)
    BY <1>1, TwoSteps
  <1> HIDE DEF u
  <1>6. /\ "signal" \notin Owing \cup {"free", "sync"} \cup Pauses \cup Stop
        /\ o \notin {"free", "sync"} \cup Pauses \cup Stop
    BY DEF Owing, Pauses, Stop
  <1>7. Lacks(u, Pauses \cup Stop)
    BY <1>1, <1>5, <1>6
  <1>8. InOrder(u, fid)
    <2>1. Ready(u, fid, 1) /\ Ready(u, fid, 2)
      BY <1>1, <1>5, <1>6 DEF Ready
    <2> QED
      BY <1>1, <1>5, <1>6, <2>1 DEF InOrder
  <1>9. Front(u, fid) /\ \A x : ~Frees(u, x) /\ (Promised(u, x) <=> x = t)
    BY <1>1, <1>4, <1>5, <1>7, <1>8 DEF Front
  <1> QED
    BY <1>2, <1>3, <1>9 DEF q

LEMMA VersionDoneKeeps ==
  ASSUME IInv, VersionDone
  PROVE  IInv'
  <1>1. /\ todo # <<>> /\ Head(todo)[1] = "done" /\ Arg \in Tables /\ fid[Arg] = -1
    BY HeadIs DEF VersionDone, At, IInv, TableSteps, Owing
  <1>2. PICK t \in Tables : t = Arg
    BY <1>1
  <1> DEFINE q == S("openNext", t)
             a == IF t = "eit4e" THEN <<>> ELSE Signal
             front == a \o <<q>>
  <1>3. todo' = front \o Rest
    BY <1>2 DEF VersionDone, Then
  <1>4. Front(front, fid) /\ \A x : ~Frees(front, x) /\ (Promised(front, x) <=> x = t)
    <2>1. /\ Front(<<q>>, fid) /\ Front(Signal \o <<q>>, fid)
          /\ \A x : /\ ~Frees(<<q>>, x) /\ (Promised(<<q>>, x) <=> x = t)
                    /\ ~Frees(Signal \o <<q>>, x)
                    /\ Promised(Signal \o <<q>>, x) <=> x = t
      BY <1>1, <1>2, SignalThen DEF Owing
    <2>2. CASE t = "eit4e"
      <3> HIDE DEF q
      <3>1. <<q>> \in Seq(Items)
        BY <2>1 DEF Front
      <3>2. front = <<q>>
        BY <2>2, <3>1, ConcatEmptySeq
      <3> QED
        BY <2>1, <3>2
    <2>3. CASE t # "eit4e"
      BY <2>1, <2>3
    <2> QED
      BY <2>2, <2>3
  <1>6. AgendaOnly /\ single' = single /\ check' = check /\ curr' = curr
    BY DEF VersionDone, AgendaOnly, settings, tables, ts
  <1>7. single \in BOOLEAN /\ check \subseteq Tables \ Versioned
    BY DEF IInv, TypeOK
  <1>8. \A x : Promises(Head(todo), x) <=> x = t
    BY <1>1, <1>2 DEF Promises, Owing, Arg
  <1>9. Lacks(todo, Last)
    BY <1>1, NotExiting
  <1> HIDE DEF front
  <1>10. \A x \in Cared : Monitored(x) =>
           /\ Promises(Head(todo), x) => Promised(front, x) \/ Checked(x)'
           /\ Frees(front, x) => Promised(front, x)
           /\ Checked(x) => Checked(x)' \/ Promised(front, x) \/ fid[x] # -1
    BY <1>4, <1>6, <1>8 DEF Checked, AgendaOnly
  <1> QED
    BY <1>1, <1>3, <1>4, <1>6, <1>7, <1>9, <1>10, StepKeeps

LEMMA RefreshKeeps ==
  ASSUME IInv, Refresh
  PROVE  IInv'
  <1>1. /\ todo # <<>> /\ Head(todo)[1] = "refresh" /\ Arg \in SUBSET Tables /\ Arg # {}
    BY HeadIs DEF Refresh, At, IInv, LoopSteps
  <1>2. PICK t \in Arg : t = First(ModeOrder, Arg)
    BY <1>1, FirstTable
  <1> DEFINE a == IF fid[t] = -1 THEN <<S("open", t)>> ELSE <<>>
             front == a \o Loop("refresh", Arg \ {t})
  <1>3. todo' = front \o Rest /\ check' = check \ {t}
    BY <1>2 DEF Refresh, Then
  <1>4. /\ Front(a, fid) /\ \A x : ~Frees(a, x)
        /\ fid[t] = -1 => Promised(a, t)
    <2>1. t \in Tables /\ "open" \in Owing
      BY <1>1 DEF Owing
    <2>2. CASE fid[t] = -1
      <3>1. a = <<S("open", t)>>
        BY <2>2
      <3> QED
        BY <2>1, <2>2, <3>1, FrontIs
    <2>3. CASE fid[t] # -1
      <3>1. a = <<>>
        BY <2>3
      <3> QED
        BY <2>3, <3>1, EmptyFront
    <2> QED
      BY <2>2, <2>3
  <1> HIDE DEF a
  <1>5. /\ Front(front, fid) /\ \A x : ~Frees(front, x)
        /\ fid[t] = -1 => Promised(front, t)
    BY <1>1, <1>4, FrontLoop DEF LoopSteps
  <1>6. AgendaOnly /\ single' = single /\ curr' = curr
    BY DEF Refresh, AgendaOnly, settings, ts
  <1>7. single \in BOOLEAN /\ check' \subseteq Tables \ Versioned
    BY <1>3 DEF IInv, TypeOK
  <1>8. \A x : ~Promises(Head(todo), x)
    BY <1>1 DEF Promises, Owing
  <1>9. Lacks(todo, Last)
    BY <1>1, NotExiting
  <1> HIDE DEF front
  <1>10. \A x \in Cared : Monitored(x) =>
           /\ Promises(Head(todo), x) => Promised(front, x) \/ Checked(x)'
           /\ Frees(front, x) => Promised(front, x)
           /\ Checked(x) => Checked(x)' \/ Promised(front, x) \/ fid[x] # -1
    BY <1>3, <1>5, <1>6, <1>8 DEF Checked, AgendaOnly
  <1> QED
    BY <1>1, <1>3, <1>5, <1>6, <1>7, <1>9, <1>10, StepKeeps

--------------------------------------------------------------------------------
(* Freeing a filter, and the steps that unlock.                              *)

LEMMA Replaced ==
  ASSUME NEW s \in Seq(Items), s # <<>>, NEW q \in Items
  PROVE  /\ <<q>> \o Tail(s) \in Seq(Items) /\ <<q>> \o Tail(s) # <<>>
         /\ Len(<<q>> \o Tail(s)) = Len(s) /\ (<<q>> \o Tail(s))[1] = q
         /\ \A i \in 1..Len(s) : i # 1 => (<<q>> \o Tail(s))[i] = s[i]
         /\ Head(<<q>> \o Tail(s)) = q /\ Tail(<<q>> \o Tail(s)) = Tail(s)
  <1> DEFINE r == Tail(s)
  <1>1. /\ r \in Seq(Items) /\ Len(r) = Len(s) - 1 /\ Len(s) \in Nat \ {0}
        /\ \A i \in 1..Len(r) : r[i] = s[i + 1]
    BY TailIs
  <1>2. <<q>> \in Seq(Items) /\ Len(<<q>>) = 1 /\ <<q>>[1] = q
    BY OneStep
  <1> HIDE DEF r
  <1>3. /\ <<q>> \o r \in Seq(Items)
        /\ Len(<<q>> \o r) = Len(s)
        /\ \A i \in 1..Len(s) : (<<q>> \o r)[i] = IF i <= 1 THEN <<q>>[i] ELSE r[i - 1]
    BY <1>1, <1>2, ConcatProperties
  <1>4. \A i \in 1..Len(s) : i # 1 => i - 1 \in 1..Len(r) /\ (i - 1) + 1 = i /\ ~(i <= 1)
    BY <1>1
  <1>5. \A i \in 1..Len(s) : i # 1 => (<<q>> \o r)[i] = s[i]
    BY <1>1, <1>3, <1>4
  <1>6. 1 \in 1..Len(s)
    BY <1>1
  <1>7. (<<q>> \o r)[1] = q
    BY <1>2, <1>3, <1>6
  <1>8. /\ Head(<<q>> \o r) = q /\ Tail(<<q>> \o r) = r /\ <<q>> \o r # <<>>
    BY <1>1, FirstStep
  <1> QED
    BY <1>3, <1>5, <1>7, <1>8 DEF r

RestOnly == UNCHANGED <<app, evt, batch, settings, tables, subs, history>>

LEMMA RestKeeps ==
  ASSUME IInv, todo # <<>>, Head(todo)[1] \in {"free", "sync", "signal"},
         Head(todo)[1] = "free" => fid[Arg] = -1,
         todo' = Rest, RestOnly
  PROVE  Agenda' /\ Stopping' /\ Watching'
  <1>1. todo \in Seq(Items) /\ InOrder(todo, fid) /\ fid' = fid
    BY DEF IInv, Agenda, RestOnly, tables
  <1>2. /\ Rest \in Seq(Items)
        /\ \A names : Lacks(todo, names) => Lacks(Rest, names)
        /\ \A t : /\ Promised(todo, t) <=> Promises(Head(todo), t) \/ Promised(Rest, t)
                  /\ Frees(todo, t) <=> Head(todo) = S("free", t) \/ Frees(Rest, t)
    BY <1>1, TailIs DEF Rest
  <1>3. Agenda'
    BY <1>1, <1>2, TailInOrder DEF Rest, Agenda, Arg
  <1>4. Stopping'
    <2>1. UNCHANGED <<life, joiner, evt, mode, subs>> /\ life = "live"
      BY DEF RestOnly, app, settings, IInv, Stopping
    <2>2. CASE Lacks(todo, Last)
      BY <1>2, <2>1, <2>2 DEF IInv, Stopping
    <2>3. CASE ~Lacks(todo, Last)
      <3>1. Exiting /\ mode = {} /\ Callback \notin subs
        BY <2>3 DEF IInv, Stopping
      <3>2. \A name, arg : S(name, arg)[1] = name /\ S(name, arg)[2] = arg
        BY DEF S
      <3>3. todo # <<S("release", "")>>
        <4>1. S("release", "") \in Items /\ S("release", "")[1] = "release"
          BY DEF Items, PlainSteps, Pauses, S
        <4>2. Head(<<S("release", "")>>) = S("release", "")
          BY <4>1, OneStep, TailIs
        <4> QED
          BY <4>1, <4>2
      <3>4. ASSUME NEW U, U \in SUBSET Tables, todo = ExitSteps(U)
            PROVE  FALSE
        <4>1. Head(todo) = S("setMode", U) \/ Head(todo) = S("exitSync", "")
          BY <3>4, ExitIs
        <4>2. S("exitSync", "")[1] = "exitSync" /\ S("setMode", U)[1] = "setMode"
          BY DEF S
        <4> QED
          BY <4>1, <4>2
      <3>5. PICK U \in SUBSET Tables :
              \/ \E u \in Tables : Head(todo) = S("free", u) /\ Rest = ExitSteps(U) /\ Remaining(U \cup {u})
              \/ Head(todo) = S("sync", "") /\ Rest = ExitSteps(U) /\ Remaining(U)
        BY <3>1, <3>3, <3>4, ExitingIs
      <3>6. Remaining(U)
        <4>1. ASSUME NEW u \in Tables, Head(todo) = S("free", u), Remaining(U \cup {u})
              PROVE  Remaining(U)
          BY <3>2, <4>1 DEF Remaining, Arg
        <4> QED
          BY <3>5, <4>1
      <3>7. todo' = ExitSteps(U) /\ Remaining(U)'
        BY <1>1, <3>5, <3>6 DEF Remaining
      <3>8. Exiting'
        BY <3>7 DEF Exiting
      <3>9. \A names : Lacks(todo, names) => Lacks(todo', names)
        BY <1>2
      <3> QED
        BY <2>1, <3>1, <3>8, <3>9 DEF IInv, Stopping
    <2> QED
      BY <2>2, <2>3
  <1>5. Watching'
    <2>1. /\ Undisturbed' <=> Undisturbed
          /\ \A t : Monitored(t)' <=> Monitored(t)
          /\ \A t : Pending(t)' <=> Pending(t)
          /\ \A t : Checked(t)' <=> Checked(t)
      BY DEF RestOnly, Undisturbed, Monitored, Pending, Checked, settings, tables, history
    <2>2. \A t : ~Promises(Head(todo), t)
      BY DEF Promises, Owing
    <2>3. \A t : Minded(t) => Minded(t)'
      BY <1>1, <1>2, <2>1, <2>2 DEF Minded
    <2> QED
      BY <2>1, <2>3 DEF IInv, Watching
  <1> QED
    BY <1>3, <1>4, <1>5

LEMMA DemuxKept ==
  ASSUME IInv
  PROVE  /\ Self \in {Self} /\ st \in [{Self} -> [FilterIds -> Dmx!Status]]
         /\ call \in (FilterIds \X {Self}) \cup {None} /\ -1 \notin FilterIds
         /\ \A f \in FilterIds : f \in Nat
  BY EpgAssumption DEF EpgAssumption, IInv, TypeOK, Dmx!TypeOK

LEMMA SyncEnds ==
  ASSUME IInv, Dmx!SyncEnd(Self, "freed"), UNCHANGED fid
  PROVE  Filters' /\ Dmx!TypeOK'
  <1>1. /\ st' = [st EXCEPT ![Self] =
                    [f \in FilterIds |-> IF st[Self][f] = "freed" THEN "quiet" ELSE st[Self][f]]]
        /\ call' = call
        /\ \A f \in FilterIds : st[Self][f] = "freed" => call # <<f, Self>>
    BY DEF Dmx!SyncEnd
  <1> DEFINE new == [f \in FilterIds |-> IF st[Self][f] = "freed" THEN "quiet" ELSE st[Self][f]]
  <1>2. new \in [FilterIds -> Dmx!Status]
    BY DemuxKept DEF Dmx!Status
  <1>3. st'[Self] = new /\ st' \in [{Self} -> [FilterIds -> Dmx!Status]]
    <2> HIDE DEF new
    <2> QED
      BY <1>1, <1>2, DemuxKept DEF new
  <1>4. \A f \in FilterIds :
          st'[Self][f] = IF st[Self][f] = "freed" THEN "quiet" ELSE st[Self][f]
    BY <1>3
  <1>5. Filters'
    BY <1>1, <1>4 DEF IInv, Filters, Dmx!Quiescence
  <1> QED
    BY <1>1, <1>3, <1>5, DemuxKept DEF Dmx!TypeOK

LEMMA SyncKeeps ==
  ASSUME IInv, Sync
  PROVE  IInv'
  <1>1. todo # <<>> /\ Head(todo)[1] = "sync" /\ todo' = Rest /\ RestOnly
    BY DEF Sync, At, RestOnly, registry
  <1>2. Agenda' /\ Stopping' /\ Watching'
    BY <1>1, RestKeeps
  <1>3. Filters' /\ Dmx!TypeOK'
    BY SyncEnds DEF Sync, tables
  <1>4. call' = call
    BY DEF Sync, Dmx!SyncEnd
  <1>5. TypeOK'
    BY <1>3 DEF Sync, IInv, TypeOK, app, settings, tables, frontend, ts, registry, handler,
                history, Evt!TypeOK
  <1>6. Handling'
    BY <1>4, HandlingKept DEF Sync, tables, frontend, ts, handler
  <1> QED
    BY <1>2, <1>3, <1>5, <1>6 DEF IInv

LEMMA SignalEventKeeps ==
  ASSUME IInv, SignalEvent
  PROVE  IInv'
  <1>1. /\ todo # <<>> /\ Head(todo)[1] = "signal" /\ todo' = Rest /\ RestOnly
        /\ UNCHANGED <<owner, subs>>
    BY DEF SignalEvent, At, RestOnly, Evt!Signal
  <1>2. Agenda' /\ Stopping' /\ Watching'
    BY <1>1, RestKeeps
  <1>3. Filters'
    <2>1. ~At("sync")
      BY <1>1 DEF At
    <2> QED
      BY <2>1, FiltersKept DEF SignalEvent, tables, demux
  <1>4. TypeOK'
    BY <1>1 DEF SignalEvent, IInv, TypeOK, app, settings, tables, frontend, ts, demux, handler,
                history, Evt!TypeOK, Dmx!TypeOK
  <1>5. Handling'
    BY HandlingKept DEF SignalEvent, tables, frontend, ts, handler, demux
  <1> QED
    BY <1>2, <1>3, <1>4, <1>5 DEF IInv

LEMMA FreeFilterKeeps ==
  ASSUME IInv, FreeFilter
  PROVE  IInv'
  <1>1. /\ todo # <<>> /\ Head(todo)[1] = "free" /\ Arg \in Tables
        /\ Head(todo) = S("free", Arg)
    BY HeadIs DEF FreeFilter, At, IInv, TableSteps
  <1>2. CASE fid[Arg] = -1
    <2>1. /\ todo' = Rest /\ RestOnly /\ UNCHANGED <<demux, owner>>
      BY <1>2 DEF FreeFilter, RestOnly, tables, registry
    <2>2. Agenda' /\ Stopping' /\ Watching'
      BY <1>1, <1>2, <2>1, RestKeeps
    <2>3. Filters'
      <3>1. ~At("sync")
        BY <1>1 DEF At
      <3> QED
        BY <2>1, <3>1, FiltersKept DEF RestOnly, tables, demux
    <2>4. TypeOK'
      BY <2>1 DEF FreeFilter, RestOnly, IInv, TypeOK, app, settings, tables, frontend, ts, demux,
                  handler, history, Evt!TypeOK, Dmx!TypeOK
    <2>5. Handling'
      BY <2>1, HandlingKept DEF FreeFilter, RestOnly, tables, frontend, ts, handler, demux
    <2> QED
      BY <2>2, <2>3, <2>4, <2>5 DEF IInv
  <1>3. CASE fid[Arg] # -1
    <2> DEFINE q == S("sync", "")
    <2>1. PICK u \in Tables : u = Arg
      BY <1>1
    <2>2. PICK f \in FilterIds : f = fid[u]
      BY <1>3, <2>1 DEF IInv, TypeOK
    <2>3. /\ st[Self][f] = "held" /\ st' = [st EXCEPT ![Self][f] = "freed"] /\ call' = call
          /\ fid' = [fid EXCEPT ![u] = -1] /\ armed' = armed \ {u}
          /\ todo' = <<q>> \o Tail(todo)
          /\ UNCHANGED <<app, evt, batch, settings, ctl, want, check, since, frontend, ts,
                         registry, handler, history>>
      BY <1>3, <2>1, <2>2 DEF FreeFilter, Dmx!Release, Then, Rest
    <2>4. todo \in Seq(Items) /\ InOrder(todo, fid) /\ q \in Items /\ q[1] = "sync"
      BY DEF IInv, Agenda, Items, PlainSteps, S
    <2>5. /\ fid \in [Tables -> FilterIds \cup {-1}] /\ fid'[u] = -1
          /\ \A t \in Tables : fid'[t] = IF t = u THEN -1 ELSE fid[t]
      BY <2>3 DEF IInv, TypeOK
    <2>6. \A g \in FilterIds : st'[Self][g] = IF g = f THEN "freed" ELSE st[Self][g]
      <3>1. st[Self] \in [FilterIds -> Dmx!Status]
        BY DemuxKept
      <3>2. st'[Self] = [st[Self] EXCEPT ![f] = "freed"]
        BY <2>3, DemuxKept
      <3> QED
        BY <3>1, <3>2
    <2>7. st' \in [{Self} -> [FilterIds -> Dmx!Status]]
      <3>1. st[Self] \in [FilterIds -> Dmx!Status]
        BY DemuxKept
      <3>2. [st[Self] EXCEPT ![f] = "freed"] \in [FilterIds -> Dmx!Status]
        BY <3>1 DEF Dmx!Status
      <3>3. st' = [st EXCEPT ![Self] = [st[Self] EXCEPT ![f] = "freed"]]
        BY <2>3
      <3> QED
        BY <3>2, <3>3, DemuxKept
    <2> HIDE DEF q
    <2>8. /\ todo' \in Seq(Items) /\ todo' # <<>> /\ Head(todo') = q /\ Tail(todo') = Tail(todo)
          /\ Len(todo') = Len(todo) /\ todo'[1] = q
          /\ \A i \in 1..Len(todo) : i # 1 => todo'[i] = todo[i]
      BY <1>1, <2>3, <2>4, Replaced
    <2>9. /\ todo[1] = S("free", u) /\ todo[1][1] = "free"
          /\ \A t : S("free", t) = S("free", u) => t = u
      BY <1>1, <2>1, <2>4, TailIs DEF S
    <2>10. Agenda'
      <3>1. ASSUME NEW i \in 1..Len(todo), i # 1
            PROVE  /\ todo'[i][1] \in Owing => i = 2 /\ fid'[todo'[i][2]] = -1
                   /\ todo'[i][1] \notin {"free", "sync"}
                   /\ todo'[i][1] \in Pauses => i = Len(todo)
        <4>1. /\ Ready(todo, fid, i) /\ todo'[i] = todo[i]
              /\ todo[i][1] \notin {"free", "sync"}
              /\ todo[i][1] \in Pauses => i = Len(todo)
          BY <2>4, <2>8, <3>1 DEF InOrder
        <4>2. todo[i][1] \in Owing => i = 2 /\ todo[i][2] = u
          BY <2>9, <3>1, <4>1 DEF Ready
        <4> QED
          BY <2>5, <4>1, <4>2
      <3>2. todo'[1][1] = "sync" /\ "sync" \notin Owing \cup Pauses
        BY <2>4, <2>8 DEF Owing, Pauses
      <3>3. InOrder(todo', fid')
        BY <2>8, <3>1, <3>2 DEF InOrder, Ready
      <3> QED
        BY <2>8, <3>3 DEF Agenda
    <2>11. /\ \A names : "sync" \notin names /\ Lacks(todo, names) => Lacks(todo', names)
           /\ \A t : /\ Promised(todo', t) <=> Promised(todo, t)
                     /\ Frees(todo', t) => Frees(todo, t)
           /\ Frees(todo, u)
      <3>1. /\ \A t : /\ Promised(todo, t) <=> Promises(Head(todo), t) \/ Promised(Tail(todo), t)
                      /\ Frees(todo, t) <=> Head(todo) = S("free", t) \/ Frees(Tail(todo), t)
            /\ \A t : /\ Promised(todo', t) <=> Promises(Head(todo'), t) \/ Promised(Tail(todo'), t)
                      /\ Frees(todo', t) <=> Head(todo') = S("free", t) \/ Frees(Tail(todo'), t)
        BY <1>1, <2>4, <2>8, TailIs
      <3>2. /\ \A t : ~Promises(Head(todo), t) /\ ~Promises(q, t)
            /\ \A t : q # S("free", t)
        BY <1>1, <2>4 DEF Promises, Owing, S
      <3>3. \A names : "sync" \notin names /\ Lacks(todo, names) => Lacks(todo', names)
        <4> SUFFICES ASSUME NEW names, "sync" \notin names, Lacks(todo, names)
                     PROVE  Lacks(todo', names)
          OBVIOUS
        <4>1. \A i \in 1..Len(todo) : todo[i][1] \notin names
          BY DEF Lacks
        <4>2. \A i \in 1..Len(todo) : todo'[i][1] \notin names
          BY <2>4, <2>8, <4>1
        <4> QED
          BY <2>8, <4>2 DEF Lacks
      <3>4. Head(todo) = S("free", u)
        BY <1>1, <2>1
      <3> QED
        BY <2>8, <3>1, <3>2, <3>3, <3>4
    <2>12. Stopping'
      <3>1. /\ UNCHANGED <<life, joiner, evt, mode, subs>> /\ life = "live"
        BY <1>1, <2>3 DEF app, settings, registry, IInv, Stopping
      <3>2. "sync" \notin Last /\ "sync" \notin Stop
        BY DEF Last, Stop
      <3>3. CASE Lacks(todo, Last)
        BY <2>11, <3>1, <3>2, <3>3 DEF IInv, Stopping
      <3>4. CASE ~Lacks(todo, Last)
        <4>1. Exiting /\ mode = {} /\ Callback \notin subs
          BY <3>4 DEF IInv, Stopping
        <4>2. \E U \in SUBSET Tables, v \in Tables :
                Head(todo) = S("free", v) /\ Rest = ExitSteps(U) /\ Remaining(U \cup {v})
          <5>1. todo # <<S("release", "")>>
            <6>1. S("release", "") \in Items /\ S("release", "")[1] = "release"
              BY DEF Items, PlainSteps, Pauses, S
            <6>2. Head(<<S("release", "")>>) = S("release", "")
              BY <6>1, OneStep, TailIs
            <6> QED
              BY <1>1, <6>1, <6>2
          <5>2. ASSUME NEW U, U \in SUBSET Tables, todo = ExitSteps(U)
                PROVE  FALSE
            <6>1. Head(todo) = S("setMode", U) \/ Head(todo) = S("exitSync", "")
              BY <5>2, ExitIs
            <6>2. S("exitSync", "")[1] = "exitSync" /\ S("setMode", U)[1] = "setMode"
              BY DEF S
            <6> QED
              BY <1>1, <6>1, <6>2
          <5>3. Head(todo) # S("sync", "")
            <6>1. S("sync", "")[1] = "sync"
              BY DEF S
            <6> QED
              BY <1>1, <6>1
          <5> QED
            BY <4>1, <5>1, <5>2, <5>3, ExitingIs
        <4>3. PICK U \in SUBSET Tables, v \in Tables :
                Head(todo) = S("free", v) /\ Rest = ExitSteps(U) /\ Remaining(U \cup {v})
          BY <4>2
        <4>4. v = u
          BY <1>1, <2>1, <4>3 DEF S
        <4>5. Remaining(U)'
          BY <2>5, <4>3, <4>4 DEF Remaining
        <4>6. todo' = <<S("sync", "")>> \o ExitSteps(U)
          BY <2>3, <4>3 DEF Rest, q
        <4>7. Exiting'
          BY <4>5, <4>6 DEF Exiting
        <4> QED
          BY <2>11, <3>1, <3>2, <4>1, <4>7 DEF IInv, Stopping
      <3> QED
        BY <3>3, <3>4
    <2>13. Watching'
      <3>1. /\ Undisturbed' <=> Undisturbed
            /\ \A t : Monitored(t)' <=> Monitored(t)
            /\ \A t : Pending(t)' <=> Pending(t)
            /\ \A t : Checked(t)' <=> Checked(t)
        BY <2>3 DEF Undisturbed, Monitored, Pending, Checked, settings, history
      <3>2. \A t \in Tables : Minded(t) => Minded(t)'
        BY <2>5, <2>11, <3>1 DEF Minded
      <3> QED
        BY <3>1, <3>2 DEF IInv, Watching, Cared
    <2>14. Filters'
      <3>1. At("sync")'
        BY <2>4, <2>8 DEF At
      <3>2. /\ \A g \in FilterIds : st[Self][g] = "held" <=> \E t \in Tables : fid[t] = g
            /\ \A t, v \in Tables : t # v /\ fid[t] = fid[v] => fid[t] = -1
        BY DEF IInv, Filters
      <3>3. ASSUME NEW g \in FilterIds
            PROVE  st'[Self][g] = "held" <=> \E t \in Tables : fid'[t] = g
        <4>1. CASE g = f
          BY <2>2, <2>5, <2>6, <3>2, <4>1, DemuxKept
        <4>2. CASE g # f
          BY <2>2, <2>5, <2>6, <3>2, <4>2, DemuxKept
        <4> QED
          BY <4>1, <4>2
      <3>4. \A g \in FilterIds : st'[Self][g] \in {"held", "freed", "quiet"}
        BY <2>6 DEF IInv, Filters
      <3>5. \A t, v \in Tables : t # v /\ fid'[t] = fid'[v] => fid'[t] = -1
        BY <2>5, <3>2
      <3>6. \A g \in FilterIds : st'[Self][g] = "quiet" => call' # <<g, Self>>
        BY <2>3, <2>6 DEF IInv, Filters, Dmx!Quiescence
      <3> QED
        BY <3>1, <3>3, <3>4, <3>5, <3>6 DEF Filters, Dmx!Quiescence
    <2>15. Handling'
      <3>1. call # None => call[1] \in FilterIds
        BY DemuxKept
      <3>2. \A t \in Tables : call # None /\ fid'[t] = call[1] => callTs >= since[t]
        BY <2>5, <3>1, DemuxKept DEF IInv, Handling
      <3> QED
        BY <2>3, <3>2 DEF IInv, Handling, handler, frontend, ts
    <2>16. TypeOK'
      <3>1. fid' \in [Tables -> FilterIds \cup {-1}]
        BY <2>3, <2>5
      <3>2. armed' \in SUBSET Tables
        BY <2>3 DEF IInv, TypeOK
      <3> QED
        BY <2>3, <2>7, <3>1, <3>2, DemuxKept DEF IInv, TypeOK, app, settings, frontend, ts,
           registry, handler, history, Evt!TypeOK, Dmx!TypeOK
    <2> QED
      BY <2>10, <2>12, <2>13, <2>14, <2>15, <2>16 DEF IInv
  <1> QED
    BY <1>2, <1>3

--------------------------------------------------------------------------------
(* Requests.  A table that gets no filter makes failed true.                 *)

(* The filter of a request, if there is one.                                 *)
Given(t, f) ==
  /\ Lowest(f) /\ Dmx!Take(Self, f) /\ fid' = [fid EXCEPT ![t] = f]
  /\ armed' \in {armed, armed \cup {t}}

LEMMA RequestIs ==
  ASSUME NEW t, NEW w, NEW c, RequestSection(t, w, c), failed \in BOOLEAN
  PROVE  /\ ctl' = c \/ ctl' = Fresh(t, c)
         /\ want' = [want EXCEPT ![t] = w] /\ since' = [since EXCEPT ![t] = curr]
         /\ todo' = Rest
         /\ UNCHANGED <<app, evt, batch, settings, frontend, ts, registry, handler, overrun>>
         /\ failed' \in BOOLEAN /\ (failed => failed')
         /\ \/ \E f \in FilterIds : Given(t, f)
            \/ failed' /\ UNCHANGED <<fid, armed, demux>>
  <1>1. \/ \E f \in FilterIds :
             /\ Lowest(f) /\ Dmx!Take(Self, f) /\ fid' = [fid EXCEPT ![t] = f]
             /\ armed' = armed \cup {t} /\ failed' = failed
        \/ \E f \in FilterIds :
             /\ Lowest(f) /\ Dmx!Take(Self, f) /\ fid' = [fid EXCEPT ![t] = f]
             /\ armed' = armed /\ failed' = TRUE
        \/ failed' = TRUE /\ UNCHANGED <<fid, armed, demux>>
    BY Zenon DEF RequestSection
  <1>2. (failed' = failed \/ failed' = TRUE)
    BY <1>1
  <1>3. \/ \E f \in FilterIds : Given(t, f)
        \/ failed' /\ UNCHANGED <<fid, armed, demux>>
    BY <1>1, Zenon DEF Given
  <1>4. /\ want' = [want EXCEPT ![t] = w] /\ since' = [since EXCEPT ![t] = curr]
        /\ todo' = Rest
        /\ UNCHANGED <<app, evt, batch, settings, frontend, ts, registry, handler, overrun>>
    BY Zenon DEF RequestSection
  <1>5. failed' \in BOOLEAN /\ (failed => failed')
    BY <1>2
  <1>6. ctl' = c \/ ctl' = Fresh(t, c)
    BY Zenon DEF RequestSection
  <1> QED
    BY <1>3, <1>4, <1>5, <1>6, Zenon

LEMMA GivenKeeps ==
  ASSUME IInv, ~At("sync"), NEW t \in Tables, fid[t] = -1, NEW f \in FilterIds, Given(t, f),
         since' = [since EXCEPT ![t] = curr],
         UNCHANGED <<frontend, ts, handler>>
  PROVE  /\ Filters' /\ Handling' /\ Dmx!TypeOK'
         /\ fid' \in [Tables -> FilterIds \cup {-1}] /\ armed' \in SUBSET Tables
         /\ \A x \in Tables : fid'[x] = IF x = t THEN f ELSE fid[x]
  <1>1. /\ st' = [st EXCEPT ![Self][f] = "held"] /\ call' = call
        /\ fid' = [fid EXCEPT ![t] = f] /\ f \notin Held
    BY DEF Given, Dmx!Take, Lowest
  <1>2. /\ fid' \in [Tables -> FilterIds \cup {-1}]
        /\ \A x \in Tables : fid'[x] = IF x = t THEN f ELSE fid[x]
    BY <1>1 DEF IInv, TypeOK
  <1>3. armed' \in SUBSET Tables
    BY DEF Given, IInv, TypeOK
  <1>4. /\ st' \in [{Self} -> [FilterIds -> Dmx!Status]]
        /\ \A g \in FilterIds : st'[Self][g] = IF g = f THEN "held" ELSE st[Self][g]
    <2>1. st[Self] \in [FilterIds -> Dmx!Status]
      BY DemuxKept
    <2>2. [st[Self] EXCEPT ![f] = "held"] \in [FilterIds -> Dmx!Status]
      BY <2>1 DEF Dmx!Status
    <2>3. st' = [st EXCEPT ![Self] = [st[Self] EXCEPT ![f] = "held"]]
      BY <1>1
    <2>4. st'[Self] = [st[Self] EXCEPT ![f] = "held"]
      BY <2>3, DemuxKept
    <2> QED
      BY <2>1, <2>2, <2>3, <2>4, DemuxKept
  <1>5. /\ \A g \in FilterIds : st[Self][g] \in {"held", "quiet"}
        /\ \A g \in FilterIds : st[Self][g] = "held" <=> \E x \in Tables : fid[x] = g
        /\ \A x, y \in Tables : x # y /\ fid[x] = fid[y] => fid[x] = -1
        /\ \A g \in FilterIds : st[Self][g] = "quiet" => call # <<g, Self>>
    BY DEF IInv, Filters, Dmx!Quiescence
  <1>6. st[Self][f] # "held" /\ \A x \in Tables : fid[x] # f
    BY <1>1, <1>5 DEF Held
  <1>7. Filters'
    <2>1. \A g \in FilterIds : st'[Self][g] \in {"held", "quiet"}
      BY <1>4, <1>5
    <2>2. ASSUME NEW g \in FilterIds
          PROVE  st'[Self][g] = "held" <=> \E x \in Tables : fid'[x] = g
      <3>1. CASE g = f
        BY <1>2, <1>4, <3>1
      <3>2. CASE g # f
        <4>1. \A x \in Tables : fid'[x] = g <=> fid[x] = g
          BY <1>2, <3>2, DemuxKept
        <4> QED
          BY <1>4, <1>5, <3>2, <4>1
      <3> QED
        BY <3>1, <3>2
    <2>3. \A x, y \in Tables : x # y /\ fid'[x] = fid'[y] => fid'[x] = -1
      BY <1>2, <1>5, <1>6
    <2>4. \A g \in FilterIds : st'[Self][g] = "quiet" => call' # <<g, Self>>
      BY <1>1, <1>4, <1>5
    <2> QED
      BY <2>1, <2>2, <2>3, <2>4 DEF Filters, Dmx!Quiescence
  <1>8. Handling'
    <2>1. call # <<f, Self>>
      BY <1>5, <1>6
    <2>2. call # None => call = <<call[1], Self>>
      BY DemuxKept
    <2>3. \A x \in Tables : since'[x] = IF x = t THEN curr ELSE since[x]
      BY DEF IInv, TypeOK
    <2>4. \A x \in Tables : call # None /\ fid'[x] = call[1] => callTs >= since'[x]
      BY <1>2, <2>1, <2>2, <2>3 DEF IInv, Handling
    <2>5. \A x \in Tables : since'[x] <= tuned
      BY <2>3 DEF IInv, Handling
    <2> QED
      BY <1>1, <2>4, <2>5 DEF IInv, Handling, handler, frontend, ts
  <1>9. Dmx!TypeOK'
    BY <1>1, <1>4, DemuxKept DEF Dmx!TypeOK
  <1> QED
    BY <1>2, <1>3, <1>7, <1>8, <1>9

LEMMA RefusedKeeps ==
  ASSUME IInv, ~At("sync"), NEW t \in Tables, fid[t] = -1, UNCHANGED <<fid, armed, demux>>,
         since' = [since EXCEPT ![t] = curr],
         UNCHANGED <<frontend, ts, handler>>
  PROVE  /\ Filters' /\ Handling' /\ Dmx!TypeOK'
         /\ fid' \in [Tables -> FilterIds \cup {-1}] /\ armed' \in SUBSET Tables
  <1>1. Filters'
    BY FiltersKept DEF demux
  <1>2. \A x \in Tables : since'[x] = IF x = t THEN curr ELSE since[x]
    BY DEF IInv, TypeOK
  <1>3. Handling'
    <2>1. call # None => call[1] # -1
      BY DemuxKept
    <2> QED
      BY <1>2, <2>1 DEF IInv, Handling, handler, frontend, ts, demux
  <1>4. Dmx!TypeOK'
    BY DEF IInv, TypeOK, Dmx!TypeOK, demux
  <1> QED
    BY <1>1, <1>3, <1>4 DEF IInv, TypeOK

LEMMA RequestKeeps ==
  ASSUME IInv, NEW name \in {"open", "renew", "openNext"}, At(name),
         NEW w \in {"any", "next", "same", "zero"},
         NEW c \in [Tables -> {"none", "part", "full"}], RequestSection(Arg, w, c),
         check' \in {check, check \ {Arg}}
  PROVE  IInv'
  <1>1. /\ todo # <<>> /\ Head(todo)[1] = name /\ name \in Owing /\ Arg \in Tables
        /\ fid[Arg] = -1 /\ todo \in Seq(Items) /\ Rest \in Seq(Items)
    BY HeadIs DEF At, IInv, TableSteps, Owing
  <1>2. PICK t \in Tables : t = Arg
    BY <1>1
  <1>3. /\ want' = [want EXCEPT ![t] = w] /\ since' = [since EXCEPT ![t] = curr]
        /\ todo' = Rest
        /\ UNCHANGED <<app, evt, batch, settings, frontend, ts, registry, handler, overrun>>
        /\ failed' \in BOOLEAN /\ (failed => failed')
        /\ \/ \E f \in FilterIds : Given(t, f)
           \/ failed' /\ UNCHANGED <<fid, armed, demux>>
        /\ ctl' = c \/ ctl' = Fresh(t, c)
    <2>1. RequestSection(t, w, c) /\ failed \in BOOLEAN
      BY <1>2 DEF IInv, TypeOK
    <2> QED
      BY <2>1, RequestIs
  <1>4. ~At("sync")
    BY <1>1 DEF At
  <1>5. /\ Filters' /\ Handling' /\ Dmx!TypeOK'
        /\ fid' \in [Tables -> FilterIds \cup {-1}] /\ armed' \in SUBSET Tables
        /\ failed' \/ (fid'[t] # -1 /\ \A x \in Tables : x # t => fid'[x] = fid[x])
    <2>1. CASE \E f \in FilterIds : Given(t, f)
      <3>1. PICK f \in FilterIds : Given(t, f)
        BY <2>1
      <3> QED
        <4>1. fid[t] = -1 /\ UNCHANGED <<frontend, ts, handler>>
          BY <1>1, <1>2, <1>3
        <4>2. /\ Filters' /\ Handling' /\ Dmx!TypeOK'
              /\ fid' \in [Tables -> FilterIds \cup {-1}] /\ armed' \in SUBSET Tables
              /\ \A x \in Tables : fid'[x] = IF x = t THEN f ELSE fid[x]
          BY <1>3, <1>4, <3>1, <4>1, GivenKeeps
        <4>3. f # -1
          BY DemuxKept
        <4> QED
          BY <4>2, <4>3
    <2>2. CASE failed' /\ UNCHANGED <<fid, armed, demux>>
      BY <1>1, <1>2, <1>3, <1>4, <2>2, RefusedKeeps
    <2> QED
      BY <1>3, <2>1, <2>2
  <1>6. /\ Settled(Rest)
        /\ \A names : Lacks(todo, names) => Lacks(Rest, names)
        /\ \A x : Promised(todo, x) <=> Promises(Head(todo), x) \/ Promised(Rest, x)
    <2>1. InOrder(todo, fid) /\ Head(todo)[1] \notin {"free", "sync", "signal"}
      BY <1>1 DEF IInv, Agenda
    <2> QED
      BY <1>1, <2>1, TailSettled, TailIs DEF Rest
  <1>7. Agenda'
    BY <1>1, <1>3, <1>6, SettledInOrder DEF Agenda
  <1>8. Stopping'
    <2>1. Lacks(todo, Last)
      BY <1>1, NotExiting
    <2>2. UNCHANGED <<life, joiner, evt, mode, subs>> /\ life = "live"
      BY <1>1, <1>3 DEF app, settings, registry, IInv, Stopping
    <2> QED
      BY <1>3, <1>6, <2>1, <2>2 DEF IInv, Stopping
  <1>9. Watching'
    <2>1. /\ \A x : Monitored(x)' <=> Monitored(x)
          /\ \A x : Pending(x)' <=> Pending(x)
          /\ \A x : x # t /\ Checked(x) => Checked(x)'
      BY <1>2, <1>3 DEF Monitored, Pending, Checked, settings
    <2>2. \A x : Promises(Head(todo), x) <=> x = t
      BY <1>1, <1>2, HeadPromises
    <2>3. \A x : ~Frees(todo', x)
      BY <1>1, <1>3, <1>6, PlainFrees
    <2>4. ASSUME ~failed', NEW x \in Tables, Minded(x)
          PROVE  Minded(x)'
      BY <1>3, <1>5, <1>6, <2>1, <2>2, <2>3, <2>4 DEF Minded
    <2>5. Undisturbed' => Undisturbed /\ ~failed'
      BY <1>3 DEF Undisturbed
    <2> QED
      BY <2>1, <2>4, <2>5 DEF IInv, Watching, Cared
  <1>10. TypeOK'
    <2>1. want' \in [Tables -> {"any", "next", "same", "zero"}] /\ since' \in [Tables -> 0..MaxTunes]
      BY <1>3 DEF IInv, TypeOK
    <2>2. ctl' \in [Tables -> {"none", "part", "full"}]
      BY <1>3 DEF Fresh
    <2> QED
      BY <1>3, <1>5, <2>1, <2>2 DEF IInv, TypeOK, app, settings, frontend, ts, registry, handler, Evt!TypeOK
  <1> QED
    BY <1>5, <1>7, <1>8, <1>9, <1>10 DEF IInv

LEMMA OpensKeep ==
  ASSUME IInv, Open \/ Renew \/ OpenNext
  PROVE  IInv'
  <1>1. ctl \in [Tables -> {"none", "part", "full"}]
    BY DEF IInv, TypeOK
  <1>2. CASE Open
    BY <1>1, <1>2, RequestKeeps DEF Open, SameVersion
  <1>3. CASE Renew
    <2>1. [ctl EXCEPT ![Arg] = "none"] \in [Tables -> {"none", "part", "full"}]
      BY <1>1
    <2> QED
      BY <1>3, <2>1, RequestKeeps DEF Renew
  <1>4. CASE OpenNext
    <2> DEFINE w == IF ~Single(Arg) THEN "any" ELSE IF ctl[Arg] = "none" THEN "zero" ELSE "next"
               c == [ctl EXCEPT ![Arg] = IF w = "zero" THEN "full" ELSE @]
    <2>1. w \in {"any", "next", "same", "zero"}
      OBVIOUS
    <2>2. c \in [Tables -> {"none", "part", "full"}]
      BY <1>1
    <2>3. At("openNext") /\ RequestSection(Arg, w, c) /\ check' \in {check, check \ {Arg}}
      BY <1>4 DEF OpenNext
    <2> HIDE DEF w, c
    <2> QED
      BY <2>1, <2>2, <2>3, RequestKeeps
  <1> QED
    BY <1>2, <1>3, <1>4

--------------------------------------------------------------------------------
(* What the thread does next, and how it ends.                               *)

LEMMA PlainJoined ==
  ASSUME NEW s \in Seq(Items), NEW r \in Seq(Items), Plain(s), Plain(r)
  PROVE  /\ s \o r \in Seq(Items) /\ Plain(s \o r)
         /\ \A t : Promised(s \o r, t) <=> Promised(s, t) \/ Promised(r, t)
  <1>1. s \o r \in Seq(Items)
    OBVIOUS
  <1>2. Lacks(s \o r, Bound \cup Pauses \cup Stop)
    BY LacksJoined DEF Plain
  <1> QED
    BY <1>1, <1>2, PromisedJoined DEF Plain

LEMMA PlainStepIs ==
  ASSUME NEW name \in {"fend", "pf", "sche", "service", "signal"}
  PROVE  /\ <<S(name, "")>> \in Seq(Items) /\ Plain(<<S(name, "")>>)
         /\ \A t : Promised(<<S(name, "")>>, t) <=> name = "service" /\ t \in {"pmt", "eit4e"}
  <1>1. name \in PlainSteps /\ name \notin Bound \cup Pauses \cup Stop
    BY DEF PlainSteps, Bound, Owing, Pauses, Stop
  <1> QED
    BY <1>1, StepIs DEF Plain

LEMMA ServiceOfIs ==
  ASSUME NEW b \in SUBSET Flags
  PROVE  /\ ServiceOf(b) \in Seq(Items) /\ Settled(ServiceOf(b))
         /\ Lacks(ServiceOf(b), Last)
         /\ "QUIT" \notin b => Lacks(ServiceOf(b), Stop)
         /\ \A t \in Tables :
              "SET_MODE" \in b \/ ("SET_MON_SRV" \in b /\ t \in {"pmt", "eit4e"})
                => Promised(ServiceOf(b), t)
         /\ \A t : ~Frees(ServiceOf(b), t)
  <1> DEFINE If(flag, step) == IF flag \in b THEN <<S(step, "")>> ELSE <<>>
             p1 == If("FEND", "fend")
             p2 == Loop("tables", b \cap Tables)
             p3 == IF "SET_MODE" \in b THEN Loop("reset", Tables) ELSE <<>>
             p4 == If("SET_EITPF", "pf")
             p5 == If("SET_EITSCHE", "sche")
             p6 == If("SET_MON_SRV", "service")
             p7 == <<S(IF "QUIT" \in b THEN "quit" ELSE "endBatch", "")>>
  <1>1. ServiceOf(b) = p1 \o p2 \o p3 \o p4 \o p5 \o p6 \o p7
    BY Zenon DEF ServiceOf
  <1>2. /\ p1 \in Seq(Items) /\ Plain(p1) /\ p4 \in Seq(Items) /\ Plain(p4)
        /\ p5 \in Seq(Items) /\ Plain(p5) /\ p6 \in Seq(Items) /\ Plain(p6)
        /\ "SET_MON_SRV" \in b => \A t \in {"pmt", "eit4e"} : Promised(p6, t)
    <2>1. <<>> \in Seq(Items) /\ Plain(<<>>)
      BY EmptyFront
    <2>2. p1 \in Seq(Items) /\ Plain(p1)
      BY <2>1, PlainStepIs
    <2>3. p4 \in Seq(Items) /\ Plain(p4)
      BY <2>1, PlainStepIs
    <2>4. p5 \in Seq(Items) /\ Plain(p5)
      BY <2>1, PlainStepIs
    <2>5. p6 \in Seq(Items) /\ Plain(p6)
      BY <2>1, PlainStepIs
    <2>6. "SET_MON_SRV" \in b => \A t \in {"pmt", "eit4e"} : Promised(p6, t)
      BY PlainStepIs
    <2> QED
      BY <2>2, <2>3, <2>4, <2>5, <2>6
  <1>3. /\ p2 \in Seq(Items) /\ Plain(p2)
        /\ p3 \in Seq(Items) /\ Plain(p3)
        /\ "SET_MODE" \in b => \A t \in Tables : Promised(p3, t)
    <2>1. "tables" \in LoopSteps /\ "reset" \in LoopSteps
      BY DEF LoopSteps
    <2>2. p2 \in Seq(Items) /\ Plain(p2)
      BY <2>1, LoopIs
    <2>3. /\ Loop("reset", Tables) \in Seq(Items) /\ Plain(Loop("reset", Tables))
          /\ \A t \in Tables : Promised(Loop("reset", Tables), t)
      BY <2>1, LoopIs
    <2>4. <<>> \in Seq(Items) /\ Plain(<<>>)
      BY EmptyFront
    <2> QED
      BY <2>2, <2>3, <2>4
  <1>4. /\ p7 \in Seq(Items) /\ Settled(p7) /\ Lacks(p7, Last)
        /\ "QUIT" \notin b => Lacks(p7, Stop)
    <2> DEFINE name == IF "QUIT" \in b THEN "quit" ELSE "endBatch"
    <2>1. /\ name \in PlainSteps /\ name # "sync" /\ name \notin Last
          /\ "QUIT" \notin b => name \notin Stop
      BY DEF PlainSteps, Pauses, Last, Stop
    <2>2. p7 = <<S(name, "")>>
      OBVIOUS
    <2> HIDE DEF name, p7
    <2> QED
      BY <2>1, <2>2, StepIs
  <1> HIDE DEF p1, p2, p3, p4, p5, p6, p7
  <1>5. p1 \o p2 \in Seq(Items) /\ Plain(p1 \o p2)
    BY <1>2, <1>3, PlainJoined
  <1> DEFINE s2 == p1 \o p2
  <1> HIDE DEF s2
  <1>6. /\ s2 \o p3 \in Seq(Items) /\ Plain(s2 \o p3)
        /\ "SET_MODE" \in b => \A t \in Tables : Promised(s2 \o p3, t)
    BY <1>3, <1>5, PlainJoined DEF s2
  <1> DEFINE s3 == s2 \o p3
  <1> HIDE DEF s3
  <1>7. /\ s3 \o p4 \in Seq(Items) /\ Plain(s3 \o p4)
        /\ "SET_MODE" \in b => \A t \in Tables : Promised(s3 \o p4, t)
    BY <1>2, <1>6, PlainJoined DEF s3
  <1> DEFINE s4 == s3 \o p4
  <1> HIDE DEF s4
  <1>8. /\ s4 \o p5 \in Seq(Items) /\ Plain(s4 \o p5)
        /\ "SET_MODE" \in b => \A t \in Tables : Promised(s4 \o p5, t)
    BY <1>2, <1>7, PlainJoined DEF s4
  <1> DEFINE s5 == s4 \o p5
  <1> HIDE DEF s5
  <1>9. /\ s5 \o p6 \in Seq(Items) /\ Plain(s5 \o p6)
        /\ "SET_MODE" \in b => \A t \in Tables : Promised(s5 \o p6, t)
        /\ "SET_MON_SRV" \in b => \A t \in {"pmt", "eit4e"} : Promised(s5 \o p6, t)
    BY <1>2, <1>8, PlainJoined DEF s5
  <1> DEFINE s6 == s5 \o p6
  <1> HIDE DEF s6
  <1>10. /\ s6 \o p7 \in Seq(Items) /\ Settled(s6 \o p7)
         /\ "SET_MODE" \in b => \A t \in Tables : Promised(s6 \o p7, t)
         /\ "SET_MON_SRV" \in b => \A t \in {"pmt", "eit4e"} : Promised(s6 \o p7, t)
         /\ \A t : ~Frees(s6 \o p7, t)
    <2>1. s6 \in Seq(Items) /\ Plain(s6)
      BY <1>9 DEF s6
    <2>2. s6 \o p7 \in Seq(Items) /\ Settled(s6 \o p7)
      BY <1>4, <2>1, SettledJoined
    <2>3. \A t : ~Frees(s6 \o p7, t)
      BY <2>2, PlainFrees
    <2>4. \A t : Promised(s6, t) => Promised(s6 \o p7, t)
      BY <1>4, <2>1, PromisedJoined
    <2> QED
      BY <1>9, <2>2, <2>3, <2>4 DEF s6
  <1>11. /\ Lacks(s6 \o p7, Last)
         /\ "QUIT" \notin b => Lacks(s6 \o p7, Stop)
    <2>1. s6 \in Seq(Items) /\ Lacks(s6, Last) /\ Lacks(s6, Stop)
      BY <1>9 DEF s6, Plain, Lacks, Last, Stop
    <2> QED
      BY <1>4, <2>1, LacksJoined
  <1>12. ServiceOf(b) = s6 \o p7
    BY <1>1, Zenon DEF s2, s3, s4, s5, s6
  <1> QED
    BY <1>10, <1>11, <1>12

LEMMA NextMsIs ==
  ASSUME NEW due \in SUBSET Tables, NEW reminders \in {<<>>, Signal}
  PROVE  /\ NextMs(due, reminders) \in Seq(Items) /\ Settled(NextMs(due, reminders))
         /\ Lacks(NextMs(due, reminders), Stop) /\ Lacks(NextMs(due, reminders), Last)
         /\ \A t : ~Frees(NextMs(due, reminders), t)
  <1> DEFINE p1 == Loop("refresh", due)
             p3 == <<S("wait", "")>>
  <1>1. p1 \in Seq(Items) /\ Plain(p1)
    BY LoopIs DEF LoopSteps
  <1>2. reminders \in Seq(Items) /\ Plain(reminders)
    BY EmptyFront, PlainStepIs DEF Signal, Front
  <1>3. p3 \in Seq(Items) /\ Settled(p3) /\ Lacks(p3, Stop)
    <2>1. "wait" \in PlainSteps /\ "wait" # "sync" /\ "wait" \notin Stop
      BY DEF PlainSteps, Pauses, Stop
    <2> QED
      BY <2>1, StepIs
  <1> HIDE DEF p1, p3
  <1>4. p1 \o reminders \in Seq(Items) /\ Plain(p1 \o reminders)
    BY <1>1, <1>2, PlainJoined
  <1> DEFINE s == p1 \o reminders
  <1> HIDE DEF s
  <1>5. s \in Seq(Items) /\ Plain(s) /\ Lacks(s, Stop)
    BY <1>4 DEF s, Plain, Lacks
  <1>6. s \o p3 \in Seq(Items) /\ Settled(s \o p3) /\ Lacks(s \o p3, Stop)
    BY <1>3, <1>5, SettledJoined, LacksJoined
  <1>7. \A t : ~Frees(s \o p3, t)
    BY <1>6, PlainFrees
  <1>8. Lacks(s \o p3, Last)
    BY <1>6 DEF Lacks, Stop, Last
  <1>9. NextMs(due, reminders) = s \o p3
    BY DEF NextMs, s, p1, p3
  <1> QED
    BY <1>6, <1>7, <1>8, <1>9

(* The thread goes on to its next agenda.                                    *)
LEMMA AnewKeeps ==
  ASSUME IInv, todo # <<>>,
         Head(todo)[1] \notin {"setMode", "free", "sync", "exitSync", "release"},
         todo' \in Seq(Items), Settled(todo'), Lacks(todo', Last),
         joiner \/ "QUIT" \in evt \/ Lacks(todo', Stop),
         UNCHANGED <<app, settings, tables, frontend, ts, demux, handler, history>>,
         evt' \subseteq evt, batch' \in SUBSET Flags,
         owner' = owner, subs' \subseteq {Callback},
         \A t \in Tables : Minded(t) => Minded(t)'
  PROVE  IInv'
  <1>1. TypeOK'
    BY DEF IInv, TypeOK, app, settings, tables, frontend, ts, demux, handler, history,
           Evt!TypeOK, Dmx!TypeOK
  <1>2. Agenda'
    BY SettledInOrder DEF Agenda
  <1>3. Stopping'
    BY DEF IInv, Stopping, app
  <1>4. Filters'
    <2>1. ~At("sync")
      BY DEF At
    <2> QED
      BY <2>1, FiltersKept DEF tables, demux
  <1>5. Handling'
    BY HandlingKept DEF tables, frontend, ts, demux, handler
  <1>6. Watching'
    <2>1. (Undisturbed' <=> Undisturbed) /\ \A t : Monitored(t)' <=> Monitored(t)
      BY DEF Undisturbed, Monitored, settings, history
    <2> QED
      BY <2>1 DEF IInv, Watching, Cared
  <1> QED
    BY <1>1, <1>2, <1>3, <1>4, <1>5, <1>6 DEF IInv

(* A thread at the end of its agenda.                                        *)
LEMMA PauseIs ==
  ASSUME IInv, NEW name \in Pauses, At(name)
  PROVE  /\ todo # <<>> /\ Head(todo)[1] = name
         /\ \A t : Minded(t) => fid[t] # -1 \/ Checked(t) \/ Pending(t)
  <1>1. todo # <<>> /\ Head(todo)[1] = name
    BY DEF At
  <1>2. \A t : ~Promised(todo, t)
    BY <1>1, HeadIs DEF IInv
  <1> QED
    BY <1>1, <1>2 DEF Minded

LEMMA ServeKeeps ==
  ASSUME IInv, NEW name \in {"wait", "waiting", "endBatch"}, At(name),
         evt' \in SUBSET Flags, evt' \subseteq evt, batch' = evt', todo' = ServiceOf(evt'),
         \A t \in Tables : Pending(t) =>
           "SET_MODE" \in evt' \/ ("SET_MON_SRV" \in evt' /\ t \in {"pmt", "eit4e"}),
         UNCHANGED <<app, settings, tables, frontend, ts, registry, demux, handler, history>>
  PROVE  IInv'
  <1>1. /\ todo # <<>> /\ Head(todo)[1] = name /\ name \in Pauses
        /\ \A t : Minded(t) => fid[t] # -1 \/ Checked(t) \/ Pending(t)
    BY PauseIs DEF Pauses
  <1>2. PICK b \in SUBSET Flags : b = evt'
    OBVIOUS
  <1>3. /\ todo' \in Seq(Items) /\ Settled(todo')
        /\ Lacks(todo', Last)
        /\ "QUIT" \notin b => Lacks(todo', Stop)
        /\ \A t \in Tables :
             "SET_MODE" \in b \/ ("SET_MON_SRV" \in b /\ t \in {"pmt", "eit4e"})
               => Promised(todo', t)
        /\ \A t : ~Frees(todo', t)
    BY <1>2, ServiceOfIs
  <1>4. \A t : Checked(t)' <=> Checked(t)
    BY DEF Checked, settings, tables
  <1>5. \A t \in Tables : Minded(t) => Minded(t)'
    BY <1>1, <1>2, <1>3, <1>4 DEF Minded, tables
  <1>6. owner' = owner /\ subs' \subseteq {Callback}
    BY DEF registry, IInv, TypeOK, Evt!TypeOK
  <1>7. "QUIT" \notin evt => Lacks(todo', Stop)
    BY <1>2, <1>3
  <1> QED
    BY <1>1, <1>3, <1>5, <1>6, <1>7, AnewKeeps

LEMMA IdleKeeps ==
  ASSUME IInv, NEW name \in {"subscribe", "waiting", "endBatch"}, At(name), Idle,
         evt' \subseteq evt, batch' \in SUBSET Flags,
         \A t \in Tables : Pending(t) => Pending(t)',
         owner' = owner, subs' \subseteq {Callback},
         UNCHANGED <<app, settings, tables, frontend, ts, demux, handler, history>>
  PROVE  IInv'
  <1>1. /\ todo # <<>> /\ Head(todo)[1] = name /\ name \in Pauses
        /\ \A t : Minded(t) => fid[t] # -1 \/ Checked(t) \/ Pending(t)
    BY PauseIs DEF Pauses
  <1>2. PICK due \in SUBSET Due, reminders \in {<<>>, Signal} : todo' = NextMs(due, reminders)
    BY DEF Idle
  <1>3. due \in SUBSET Tables
    BY DEF Due, IInv, TypeOK
  <1>4. /\ todo' \in Seq(Items) /\ Settled(todo')
        /\ Lacks(todo', Stop) /\ Lacks(todo', Last)
        /\ \A t : ~Frees(todo', t)
    BY <1>2, <1>3, NextMsIs
  <1>5. \A t : Checked(t)' <=> Checked(t)
    BY DEF Checked, settings, tables
  <1>6. \A t \in Tables : Minded(t) => Minded(t)'
    BY <1>1, <1>4, <1>5 DEF Minded, tables
  <1> QED
    BY <1>1, <1>4, <1>6, AnewKeeps

LEMMA WaitKeeps ==
  ASSUME IInv, Wait \/ Wake \/ SpuriousWake
  PROVE  IInv'
  <1>1. evt \in SUBSET Flags
    BY DEF IInv, TypeOK
  <1>2. \A t : Pending(t) => "SET_MODE" \in evt \/ ("SET_MON_SRV" \in evt /\ t \in {"pmt", "eit4e"})
    BY DEF Pending
  <1>3. CASE (Wait \/ Wake \/ SpuriousWake) /\ Serve
    <2>1. /\ evt' = evt /\ batch' = evt /\ todo' = ServiceOf(evt)
          /\ UNCHANGED <<app, settings, tables, frontend, ts, registry, demux, handler, history>>
      BY <1>3 DEF Wait, Wake, SpuriousWake, WakeWhen, Serve
    <2>2. At("wait") \/ At("waiting")
      BY <1>3 DEF Wait, Wake, SpuriousWake, WakeWhen
    <2>3. ServiceOf(evt') = ServiceOf(evt)
      BY <2>1
    <2>4. /\ evt' \in SUBSET Flags /\ evt' \subseteq evt /\ batch' = evt' /\ todo' = ServiceOf(evt')
          /\ \A t \in Tables : Pending(t) =>
               "SET_MODE" \in evt' \/ ("SET_MON_SRV" \in evt' /\ t \in {"pmt", "eit4e"})
      BY <1>1, <1>2, <2>1, <2>3
    <2>5. CASE At("wait")
      BY <2>1, <2>4, <2>5, ServeKeeps
    <2>6. CASE At("waiting")
      BY <2>1, <2>4, <2>6, ServeKeeps
    <2> QED
      BY <2>2, <2>5, <2>6
  <1>4. CASE Wait /\ ~Serve
    <2>1. /\ At("wait") /\ evt = {} /\ todo' = <<S("waiting", "")>> \o Rest /\ batch' = batch
          /\ UNCHANGED <<app, evt, settings, tables, frontend, ts, registry, demux, handler, history>>
      BY <1>4 DEF Wait, Then
    <2>2. /\ todo # <<>> /\ Head(todo)[1] = "wait" /\ "wait" \in Pauses
          /\ \A t : Minded(t) => fid[t] # -1 \/ Checked(t) \/ Pending(t)
      BY <2>1, PauseIs DEF Pauses
    <2>3. todo' = <<S("waiting", "")>>
      <3>1. Len(todo) = 1 /\ todo \in Seq(Items)
        BY <2>2, HeadIs DEF IInv
      <3>2. Rest \in Seq(Items) /\ Len(Rest) = 0
        BY <2>2, <3>1, TailIs DEF Rest
      <3>3. Rest = <<>>
        BY <3>2, EmptySeq
      <3> DEFINE s == <<S("waiting", "")>>
      <3>4. s \in Seq(Items)
        BY StepIs DEF PlainSteps, Pauses
      <3>5. todo' = s \o <<>>
        BY <2>1, <3>3
      <3> HIDE DEF s
      <3>6. todo' = s
        BY <3>4, <3>5, ConcatEmptySeq
      <3> QED
        BY <3>6 DEF s
    <2>4. /\ todo' \in Seq(Items) /\ Settled(todo') /\ Lacks(todo', Last) /\ Lacks(todo', Stop)
          /\ \A t : ~Frees(todo', t)
      <3>1. /\ "waiting" \in PlainSteps /\ "waiting" # "sync"
            /\ "waiting" \notin Stop /\ "waiting" \notin Last
        BY DEF PlainSteps, Pauses, Stop, Last
      <3>2. /\ <<S("waiting", "")>> \in Seq(Items) /\ Settled(<<S("waiting", "")>>)
            /\ Lacks(<<S("waiting", "")>>, Last) /\ Lacks(<<S("waiting", "")>>, Stop)
            /\ \A t : ~Frees(<<S("waiting", "")>>, t)
        BY <3>1, StepIs
      <3> QED
        BY <2>3, <3>2
    <2>5. \A t : (Checked(t)' <=> Checked(t)) /\ (Pending(t)' <=> Pending(t))
      BY <2>1 DEF Checked, Pending, settings, tables
    <2>6. \A t \in Tables : Minded(t) => Minded(t)'
      BY <2>1, <2>2, <2>4, <2>5 DEF Minded, tables
    <2>7. owner' = owner /\ subs' \subseteq {Callback} /\ batch' \in SUBSET Flags /\ evt' \subseteq evt
      BY <2>1 DEF registry, IInv, TypeOK, Evt!TypeOK
    <2> QED
      BY <2>1, <2>2, <2>4, <2>6, <2>7, AnewKeeps
  <1> QED
    BY <1>3, <1>4 DEF Wake, SpuriousWake, WakeWhen

LEMMA RestsKeep ==
  ASSUME IInv, WaitTimesOut \/ EndBatch \/ Subscribe
  PROVE  IInv'
  <1>1. subs' \subseteq {Callback} /\ owner' = owner
    BY DEF WaitTimesOut, EndBatch, Subscribe, Evt!Subscribe, registry, IInv, TypeOK, Evt!TypeOK
  <1>2. evt \in SUBSET Flags /\ batch \in SUBSET Flags
    BY DEF IInv, TypeOK
  <1>3. CASE WaitTimesOut
    <2>1. \A t \in Tables : Pending(t) => Pending(t)'
      BY <1>3 DEF WaitTimesOut, Pending
    <2> QED
      BY <1>1, <1>2, <1>3, <2>1, IdleKeeps DEF WaitTimesOut
  <1>4. CASE Subscribe
    <2>1. \A t \in Tables : Pending(t) => Pending(t)'
      BY <1>4 DEF Subscribe, Pending
    <2> QED
      BY <1>1, <1>2, <1>4, <2>1, IdleKeeps DEF Subscribe
  <1>5. CASE EndBatch
    <2>1. /\ At("endBatch") /\ evt' = evt \ batch
          /\ UNCHANGED <<app, settings, tables, frontend, ts, registry, demux, handler, history>>
      BY <1>5 DEF EndBatch
    <2>2. CASE evt' = {}
      <3>1. batch' = {} /\ Idle
        BY <1>5, <2>2 DEF EndBatch
      <3>2. \A t \in Tables : Pending(t) => Pending(t)'
        BY <2>1, <2>2 DEF Pending
      <3> QED
        BY <1>1, <1>2, <2>1, <2>2, <3>1, <3>2, IdleKeeps
    <2>3. CASE evt' # {}
      <3>1. batch' = evt' /\ todo' = ServiceOf(evt')
        BY <1>5, <2>3 DEF EndBatch
      <3>2. \A t \in Tables : Pending(t) =>
              "SET_MODE" \in evt' \/ ("SET_MON_SRV" \in evt' /\ t \in {"pmt", "eit4e"})
        BY <2>1 DEF Pending
      <3>3. evt' \in SUBSET Flags /\ evt' \subseteq evt
        BY <1>2, <2>1
      <3> QED
        BY <2>1, <3>1, <3>2, <3>3, ServeKeeps
    <2> QED
      BY <2>2, <2>3
  <1> QED
    BY <1>3, <1>4, <1>5

LEMMA QuitKeeps ==
  ASSUME IInv, Quit
  PROVE  IInv'
  <1>1. /\ At("quit") /\ todo' = <<S("unsubscribe", "")>>
        /\ UNCHANGED <<app, evt, batch, settings, tables, frontend, ts, registry, demux,
                       handler, history>>
    BY DEF Quit
  <1>2. /\ todo # <<>> /\ Head(todo)[1] = "quit"
        /\ \A t : Minded(t) => fid[t] # -1 \/ Checked(t) \/ Pending(t)
    BY <1>1, PauseIs DEF Pauses
  <1>3. /\ todo' \in Seq(Items) /\ Settled(todo') /\ Lacks(todo', Last)
        /\ \A t : ~Frees(todo', t)
    <2>1. "unsubscribe" \in PlainSteps /\ "unsubscribe" # "sync" /\ "unsubscribe" \notin Last
      BY DEF PlainSteps, Pauses, Last
    <2>2. /\ <<S("unsubscribe", "")>> \in Seq(Items) /\ Settled(<<S("unsubscribe", "")>>)
          /\ Lacks(<<S("unsubscribe", "")>>, Last)
          /\ \A t : ~Frees(<<S("unsubscribe", "")>>, t)
      BY <2>1, StepIs
    <2> QED
      BY <1>1, <2>2
  <1>4. joiner
    <2>1. ~Lacks(todo, Stop)
      BY <1>2, TailIs DEF IInv, Agenda, Lacks, Stop
    <2> QED
      BY <1>2, <2>1 DEF IInv, Stopping
  <1>5. \A t : (Checked(t)' <=> Checked(t)) /\ (Pending(t)' <=> Pending(t))
    BY <1>1 DEF Checked, Pending, settings, tables
  <1>6. \A t \in Tables : Minded(t) => Minded(t)'
    BY <1>1, <1>2, <1>3, <1>5 DEF Minded, tables
  <1>7. owner' = owner /\ subs' \subseteq {Callback} /\ batch' \in SUBSET Flags /\ evt' \subseteq evt
    BY <1>1 DEF registry, IInv, TypeOK, Evt!TypeOK
  <1> QED
    BY <1>1, <1>2, <1>3, <1>4, <1>6, <1>7, AnewKeeps

(* A thread that has left the settings behind: nothing is watched.           *)
LEMMA LeavingKeeps ==
  ASSUME IInv, todo # <<>>, Head(todo)[1] \in Stop,
         todo' \in Seq(Items), InOrder(todo', fid'),
         mode' = {}, Exiting', Callback \notin subs', subs' \subseteq subs,
         UNCHANGED <<app, evt, batch, service, single, always, tables, frontend, ts, owner,
                     handler, history, call>>,
         Filters', Dmx!TypeOK'
  PROVE  IInv'
  <1>1. life = "live" /\ joiner
    <2>1. ~Lacks(todo, Stop)
      BY TailIs DEF IInv, Agenda, Lacks
    <2> QED
      BY <2>1 DEF IInv, Stopping
  <1>2. TypeOK'
    BY DEF IInv, TypeOK, app, tables, frontend, ts, handler, history, Evt!TypeOK
  <1>3. Agenda' /\ Stopping'
    BY <1>1 DEF Agenda, Stopping, app
  <1>4. Handling'
    BY HandlingKept DEF tables, frontend, ts, handler
  <1>5. Watching'
    BY DEF Watching, Monitored
  <1> QED
    BY <1>2, <1>3, <1>4, <1>5 DEF IInv

LEMMA UnsubscribeKeeps ==
  ASSUME IInv, Unsubscribe
  PROVE  IInv'
  <1>1. /\ todo # <<>> /\ Head(todo)[1] = "unsubscribe" /\ mode' = {}
        /\ subs' = subs \ {Callback} /\ owner' = owner
        /\ todo' = ExitSteps(Tables)
        /\ UNCHANGED <<app, evt, batch, service, single, always, tables, frontend, ts,
                       demux, handler, history>>
    BY DEF Unsubscribe, At, Evt!Unsubscribe, ExitSteps
  <1>2. todo' \in Seq(Items) /\ InOrder(todo', fid')
    BY <1>1, ExitIs, SettledInOrder
  <1>3. Exiting'
    <2>1. Remaining(Tables)'
      BY DEF Remaining
    <2>2. Tables \in SUBSET Tables
      OBVIOUS
    <2> QED
      BY <1>1, <2>1, <2>2 DEF Exiting
  <1>4. Filters' /\ Dmx!TypeOK'
    <2>1. ~At("sync")
      BY <1>1 DEF At
    <2>2. Dmx!TypeOK'
      BY <1>1 DEF IInv, TypeOK, Dmx!TypeOK, demux
    <2> QED
      BY <1>1, <2>1, <2>2, FiltersKept DEF tables, demux
  <1> QED
    BY <1>1, <1>2, <1>3, <1>4, LeavingKeeps DEF Stop, demux

(* The last two steps.                                                       *)
LEMMA EndingIs ==
  ASSUME IInv, todo # <<>>, Head(todo)[1] \in Last
  PROVE  /\ Remaining({}) /\ mode = {} /\ Callback \notin subs
         /\ Head(todo)[1] = "exitSync" => Rest = <<S("release", "")>>
  <1>1. Exiting /\ mode = {} /\ Callback \notin subs
    <2>1. ~Lacks(todo, Last)
      BY TailIs DEF IInv, Agenda, Lacks
    <2> QED
      BY <2>1 DEF IInv, Stopping
  <1>2. /\ S("release", "")[1] = "release" /\ S("sync", "")[1] = "sync"
        /\ \A u : S("free", u)[1] = "free"
        /\ \A U : S("setMode", U)[1] = "setMode"
    BY DEF S
  <1>3. Head(todo)[1] \notin {"sync", "free", "setMode"}
    BY DEF Last
  <1>4. CASE todo = <<S("release", "")>> /\ Remaining({})
    <2>1. S("release", "") \in Items
      BY DEF Items, PlainSteps, Pauses, S
    <2>2. Head(<<S("release", "")>>) = S("release", "")
      BY <2>1, OneStep, TailIs
    <2>3. Head(todo)[1] # "exitSync"
      BY <1>2, <1>4, <2>2
    <2> QED
      BY <1>1, <1>4, <2>3
  <1>5. CASE \E U \in SUBSET Tables : todo = ExitSteps(U) /\ Remaining(U)
    <2>1. PICK U \in SUBSET Tables : todo = ExitSteps(U) /\ Remaining(U)
      BY <1>5
    <2>2. /\ Head(todo) = IF U = {} THEN S("exitSync", "") ELSE S("setMode", U)
          /\ Tail(todo) = IF U = {} THEN <<S("release", "")>> ELSE ExitSteps({})
      BY <2>1, ExitIs
    <2>3. U = {}
      <3>1. ASSUME U # {} PROVE FALSE
        <4>1. Head(todo) = S("setMode", U) /\ S("setMode", U)[1] = "setMode"
          BY <1>2, <2>2, <3>1
        <4> QED
          BY <1>3, <4>1
      <3> QED
        BY <3>1
    <2> QED
      BY <1>1, <2>1, <2>2, <2>3 DEF Rest
  <1>6. \A u \in Tables : Head(todo) # S("free", u)
    BY <1>2, <1>3
  <1>7. Head(todo) # S("sync", "")
    BY <1>2, <1>3
  <1> QED
    BY <1>1, <1>4, <1>5, <1>6, <1>7, ExitingIs

LEMMA ExitSyncKeeps ==
  ASSUME IInv, ExitSync
  PROVE  IInv'
  <1>1. /\ todo # <<>> /\ Head(todo)[1] = "exitSync" /\ todo' = Rest
        /\ Dmx!SyncEnd(Self, "freed")
        /\ UNCHANGED <<app, evt, batch, settings, tables, frontend, ts, registry, handler,
                       history>>
    BY DEF ExitSync, At
  <1>2. /\ Remaining({}) /\ mode = {} /\ Callback \notin subs
        /\ todo' = <<S("release", "")>>
    BY <1>1, EndingIs DEF Last
  <1>3. todo' \in Seq(Items) /\ InOrder(todo', fid')
    <2>1. "release" \in PlainSteps /\ "release" # "sync"
      BY DEF PlainSteps, Pauses
    <2>2. <<S("release", "")>> \in Seq(Items) /\ Settled(<<S("release", "")>>)
      BY <2>1, StepIs
    <2> QED
      BY <1>2, <2>2, SettledInOrder
  <1>4. Exiting'
    <2>1. Remaining({})'
      BY <1>1, <1>2 DEF Remaining, tables
    <2> QED
      BY <1>2, <2>1 DEF Exiting
  <1>5. Filters' /\ Dmx!TypeOK'
    BY <1>1, SyncEnds DEF tables
  <1>6. call' = call
    BY <1>1 DEF Dmx!SyncEnd
  <1> QED
    BY <1>1, <1>2, <1>3, <1>4, <1>5, <1>6, LeavingKeeps DEF Stop, settings, registry

LEMMA ReleaseKeeps ==
  ASSUME IInv, Release
  PROVE  IInv'
  <1>1. /\ todo # <<>> /\ Head(todo)[1] = "release" /\ todo' = <<>> /\ life' = "gone"
        /\ UNCHANGED <<calls, joiner, evt, batch, settings, tables, frontend, ts, registry, demux,
                       handler, history>>
    BY DEF Release, At
  <1>2. Remaining({}) /\ mode = {} /\ Callback \notin subs
    BY <1>1, EndingIs DEF Last
  <1>3. TypeOK'
    BY <1>1 DEF IInv, TypeOK, settings, tables, frontend, ts, registry, demux, handler, history,
                Evt!TypeOK, Dmx!TypeOK
  <1>4. Agenda'
    <2>1. Front(<<>>, fid')
      BY EmptyFront
    <2> QED
      BY <1>1, <2>1 DEF Front, Agenda
  <1>5. Stopping'
    <2>1. Lacks(<<>>, Last)
      BY DEF Lacks
    <2> QED
      BY <1>1, <1>2, <2>1 DEF Stopping, Remaining, tables, registry
  <1>6. Filters'
    <2>1. ~At("sync")
      BY <1>1 DEF At
    <2> QED
      BY <1>1, <2>1, FiltersKept DEF tables, demux
  <1>7. Handling'
    BY <1>1, HandlingKept DEF tables, frontend, ts, demux, handler
  <1>8. Watching'
    BY <1>1, <1>2 DEF Watching, Monitored, settings
  <1> QED
    BY <1>3, <1>4, <1>5, <1>6, <1>7, <1>8 DEF IInv

--------------------------------------------------------------------------------
(* Steps of the handler, the frontend and the application, which leave the   *)
(* agenda alone.                                                             *)

LEMMA StoppingStays ==
  ASSUME IInv, UNCHANGED <<todo, fid, life, subs>>, mode' = mode \/ Lacks(todo, Last),
         \/ joiner' \/ life = "gone"
         \/ joiner' = joiner /\ ("QUIT" \in evt' => "QUIT" \in evt)
  PROVE  Agenda' /\ Stopping'
  <1>1. Agenda'
    BY DEF IInv, Agenda
  <1>2. \A U : Remaining(U)' <=> Remaining(U)
    BY DEF Remaining
  <1>3. Exiting => Exiting'
    BY <1>2 DEF Exiting
  <1>4. Stopping'
    BY <1>2, <1>3 DEF IInv, Stopping
  <1> QED
    BY <1>1, <1>4

LEMMA WatchingStays ==
  ASSUME IInv, UNCHANGED <<todo, batch, fid, check, failed, mode, service>>,
         evt \subseteq evt', overrun \subseteq overrun'
  PROVE  Watching'
  <1>1. \A t : Minded(t) => Minded(t)'
    BY DEF Minded, Pending, Checked
  <1> QED
    BY <1>1 DEF IInv, Watching, Undisturbed, Monitored

LEMMA TablesAreTables ==
  /\ "QUIT" \notin Tables /\ Tables \subseteq Flags
  /\ None \notin FilterIds \X {Self}
  BY EpgAssumption DEF EpgAssumption, Versioned, Timed, Eit, Flags

LEMMA HandlerKeeps ==
  ASSUME IInv, UNCHANGED <<app, todo, batch, settings, fid, armed, want, check, since, frontend, ts,
                           registry, st, history, callTs>>,
         evt' = evt \/ \E t \in Tables : evt' = evt \cup {t},
         ctl' \in [Tables -> {"none", "part", "full"}],
         \/ call # None /\ call' = None /\ hpc' = "none" /\ htab' = None
         \/ call' = call /\ hpc = "enter" /\ hpc' \in {"time", "eit"} /\ htab' \in Tables
  PROVE  IInv'
  <1>1. evt' \subseteq Flags /\ evt \subseteq evt' /\ ("QUIT" \in evt' => "QUIT" \in evt)
    BY TablesAreTables DEF IInv, TypeOK
  <1>2. TypeOK'
    BY <1>1 DEF IInv, TypeOK, app, settings, frontend, ts, registry, history, Evt!TypeOK, Dmx!TypeOK
  <1>3. Agenda' /\ Stopping'
    BY <1>1, StoppingStays DEF app, settings, registry
  <1>4. Filters'
    BY FiltersKept DEF At
  <1>5. Handling'
    BY DEF IInv, Handling, frontend, ts
  <1>6. Watching'
    BY <1>1, WatchingStays DEF settings, history
  <1> QED
    BY <1>2, <1>3, <1>4, <1>5, <1>6 DEF IInv

LEMMA HandlerStepKeeps ==
  ASSUME IInv, HandlerStep
  PROVE  IInv'
  <1>1. ctl \in [Tables -> {"none", "part", "full"}]
    BY DEF IInv, TypeOK
  <1>2. CASE HandleUnknown
    BY <1>1, <1>2, HandlerKeeps DEF HandleUnknown, Leave, Dmx!Return, tables
  <1>3. CASE TimeAnnounced
    <2>1. htab \in Tables
      BY <1>3 DEF TimeAnnounced, IInv, Handling
    <2> QED
      BY <1>1, <1>3, <2>1, HandlerKeeps DEF TimeAnnounced, Leave, TableDone, Dmx!Return, Evt!Signal,
         tables, registry
  <1>4. CASE EitAnnounced
    <2>1. htab \in Tables
      BY <1>4 DEF EitAnnounced, IInv, Handling
    <2>2. evt' = evt \/ evt' = evt \cup {htab}
      BY <1>4 DEF EitAnnounced, TableDone
    <2> QED
      BY <1>1, <1>4, <2>1, <2>2, HandlerKeeps DEF EitAnnounced, Leave, Dmx!Return, Evt!Signal,
         tables, registry
  <1>5. ASSUME NEW t \in Tables, HandleVersioned(t)
        PROVE  IInv'
    <2>1. ctl' \in [Tables -> {"none", "part", "full"}] /\ (evt' = evt \/ evt' = evt \cup {t})
      BY <1>1, <1>5 DEF HandleVersioned, TableDone
    <2> QED
      BY <1>5, <2>1, HandlerKeeps DEF HandleVersioned, Leave, Dmx!Return
  <1>6. ASSUME NEW t \in Tables, HandleTime(t)
        PROVE  IInv'
    BY <1>1, <1>6, HandlerKeeps DEF HandleTime, Enters, tables, demux
  <1>7. ASSUME NEW t \in Tables, HandleEit(t)
        PROVE  IInv'
    <2>1. ctl' \in [Tables -> {"none", "part", "full"}]
      BY <1>1, <1>7 DEF HandleEit
    <2> QED
      BY <1>7, <2>1, HandlerKeeps DEF HandleEit, Enters, demux
  <1>8. ASSUME NEW t \in Tables, HandleRepeat(t) \/ HandleBad(t)
        PROVE  IInv'
    BY <1>1, <1>8, HandlerKeeps DEF HandleRepeat, HandleBad, TableDone, Leave, Dmx!Return, tables
  <1> QED
    BY <1>2, <1>3, <1>4, <1>5, <1>6, <1>7, <1>8 DEF HandlerStep

LEMMA DeliverKeeps ==
  ASSUME IInv, NEW f \in FilterIds, Deliver(f)
  PROVE  IInv'
  <1>1. /\ call = None /\ st[Self][f] = "held" /\ call' = <<f, Self>> /\ st' = st
        /\ hpc' = "enter" /\ callTs' = tuned /\ htab' = htab
        /\ UNCHANGED <<app, todo, evt, batch, settings, tables, frontend, ts, registry, history>>
    BY DEF Deliver, Dmx!Deliver
  <1>2. call' # None /\ call'[1] = f /\ \A g \in FilterIds : g # f => call' # <<g, Self>>
    BY <1>1, TablesAreTables
  <1>3. TypeOK'
    BY <1>1 DEF IInv, TypeOK, app, settings, tables, frontend, ts, registry, history,
                Evt!TypeOK, Dmx!TypeOK
  <1>4. Agenda' /\ Stopping'
    BY <1>1, StoppingStays DEF app, settings, registry, tables
  <1>5. Filters'
    BY <1>1, <1>2 DEF IInv, Filters, Dmx!Quiescence, tables, At
  <1>6. Handling'
    BY <1>1, <1>2 DEF IInv, Handling, tables, frontend, ts
  <1>7. Watching'
    BY <1>1, WatchingStays DEF settings, tables, history
  <1> QED
    BY <1>3, <1>4, <1>5, <1>6, <1>7 DEF IInv

LEMMA FrontendKeeps ==
  ASSUME IInv, Tune \/ FendSignal \/ FendCallback \/ FendNobody
  PROVE  IInv'
  <1>1. /\ UNCHANGED <<app, todo, batch, settings, tables, subs, demux, handler, failed>>
        /\ overrun \subseteq overrun' /\ evt' \in {evt, evt \cup {"FEND"}}
        /\ overrun' \subseteq overrun \cup {"FEND"} /\ curr' = curr
    BY DEF Tune, FendSignal, FendCallback, FendNobody, Evt!SignalBegin, Evt!SignalEnd, ts, registry,
           history
  <1>2. /\ tuned' \in {tuned, tuned + 1} /\ fendEvt' \in {fendEvt, tuned}
        /\ feEvt' \in {feEvt, fendEvt} /\ owed' \in BOOLEAN
        /\ owner' \in {owner, Fend, None}
        /\ tuned' \in 0..MaxTunes
    <2>1. /\ tuned' \in {tuned, tuned + 1} /\ fendEvt' \in {fendEvt, tuned}
          /\ feEvt' \in {feEvt, fendEvt}
      BY DEF Tune, FendSignal, FendCallback, FendNobody, frontend, ts
    <2>2. owner' \in {owner, Fend, None}
      BY DEF Tune, FendSignal, FendCallback, FendNobody, Evt!SignalBegin, Evt!SignalEnd, registry
    <2>3. owed' \in BOOLEAN
      BY DEF Tune, FendSignal, FendCallback, FendNobody, frontend, IInv, TypeOK
    <2>4. tuned' \in 0..MaxTunes
      BY EpgAssumption DEF EpgAssumption, Tune, FendSignal, FendCallback, FendNobody, frontend,
         IInv, TypeOK
    <2> QED
      BY <2>1, <2>2, <2>3, <2>4
  <1>3. "FEND" \in Flags
    BY DEF Flags
  <1>4. TypeOK'
    BY <1>1, <1>2, <1>3 DEF IInv, TypeOK, app, settings, tables, demux, handler, Evt!TypeOK, Dmx!TypeOK
  <1>5. Agenda' /\ Stopping'
    <2>1. "QUIT" \in evt' => "QUIT" \in evt
      BY <1>1
    <2> QED
      BY <1>1, <2>1, StoppingStays DEF app, settings, tables
  <1>6. Filters'
    BY <1>1, FiltersKept DEF tables, demux, At
  <1>7. Handling'
    <2>1. tuned \in Nat /\ curr \in Nat /\ feEvt \in Nat /\ fendEvt \in Nat
          /\ \A t \in Tables : since[t] \in Nat
      BY EpgAssumption DEF EpgAssumption, IInv, TypeOK
    <2>2. /\ since' = since /\ curr' <= tuned' /\ feEvt' <= tuned' /\ fendEvt' <= tuned'
          /\ \A t \in Tables : since[t] <= tuned'
      BY <1>1, <1>2, <2>1 DEF IInv, Handling, tables
    <2> QED
      BY <1>1, <2>2 DEF IInv, Handling, tables, demux, handler
  <1>8. Watching'
    BY <1>1, WatchingStays DEF settings, tables
  <1> QED
    BY <1>4, <1>5, <1>6, <1>7, <1>8 DEF IInv

(* A setting that is changed raises its flag.                                *)
LEMMA NotifyKeeps ==
  ASSUME IInv, NEW flag \in {"SET_MODE", "SET_EITPF", "SET_EITSCHE", "SET_MON_SRV"},
         LockFree, ~joiner, Notify(flag),
         mode' \in SUBSET Bits, service' \in BOOLEAN, always' \in SUBSET {"pf", "sche"},
         mode' = mode \/ flag = "SET_MODE", service' = service \/ flag = "SET_MON_SRV"
  PROVE  IInv'
  <1>1. /\ UNCHANGED <<life, joiner, todo, batch, single, tables, frontend, ts, registry,
                       demux, handler, failed>>
        /\ evt' = evt \cup {flag} /\ calls' = calls + 1 /\ calls < MaxCalls
        /\ overrun' = overrun \cup ({flag} \cap batch)
    BY DEF Notify
  <1>2. flag \in Flags /\ flag # "QUIT" /\ flag # "FEND"
    BY DEF Flags
  <1>3. TypeOK'
    <2>1. calls' \in 0..MaxCalls
      BY <1>1, EpgAssumption DEF EpgAssumption, IInv, TypeOK
    <2> QED
      BY <1>1, <1>2, <2>1 DEF IInv, TypeOK, tables, frontend, ts, registry, demux, handler,
         Evt!TypeOK, Dmx!TypeOK
  <1>4. Agenda' /\ Stopping'
    <2>1. Lacks(todo, Stop)
      BY DEF LockFree, IInv, Stopping
    <2>2. Lacks(todo, Last)
      BY <2>1 DEF Lacks, Stop, Last
    <2>3. "QUIT" \in evt' => "QUIT" \in evt
      BY <1>1, <1>2
    <2> QED
      BY <1>1, <2>2, <2>3, StoppingStays DEF tables, registry
  <1>5. Filters'
    BY <1>1, FiltersKept DEF tables, demux, At
  <1>6. Handling'
    BY <1>1, HandlingKept DEF tables, frontend, ts, demux, handler
  <1>7. Watching'
    <2> SUFFICES ASSUME Undisturbed', NEW t \in Cared, Monitored(t)'
                 PROVE  Minded(t)'
      BY DEF Watching
    <2>1. flag \notin batch /\ Undisturbed
      BY <1>1, <1>2 DEF Undisturbed
    <2>2. flag \in evt' \ batch' /\ evt \ batch \subseteq evt' \ batch'
      BY <1>1, <2>1
    <2>3. CASE flag = "SET_MODE"
      BY <2>2, <2>3 DEF Minded, Pending
    <2>4. CASE flag # "SET_MODE"
      <3>1. Minded(t)
        BY <2>1, <2>4 DEF IInv, Watching, Monitored
      <3>2. Pending(t) => Pending(t)'
        BY <2>2 DEF Pending
      <3>3. CASE flag = "SET_MON_SRV"
        <4>1. t = "eit4e" => Pending(t)'
          BY <2>2, <3>3 DEF Pending
        <4>2. t # "eit4e" => (Checked(t)' <=> Checked(t))
          BY <1>1 DEF Checked, tables
        <4> QED
          BY <1>1, <3>1, <3>2, <4>1, <4>2 DEF Minded, tables
      <3>4. CASE flag # "SET_MON_SRV"
        <4>1. Checked(t)' <=> Checked(t)
          BY <1>1, <3>4 DEF Checked, tables
        <4> QED
          BY <1>1, <3>1, <3>2, <4>1 DEF Minded, tables
      <3> QED
        BY <3>3, <3>4
    <2> QED
      BY <2>3, <2>4
  <1> QED
    BY <1>3, <1>4, <1>5, <1>6, <1>7 DEF IInv

LEMMA SettingsChange ==
  ASSUME IInv, ChangeMode \/ MonitorService \/ SetEITPFCheckDistance \/ SetEITScheCheckDistance
  PROVE  IInv'
  <1>1. mode \in SUBSET Bits /\ service \in BOOLEAN /\ always \in SUBSET {"pf", "sche"}
    BY DEF IInv, TypeOK
  <1>2. CASE ChangeMode
    BY <1>1, <1>2, NotifyKeeps DEF ChangeMode, May
  <1>3. CASE MonitorService
    BY <1>1, <1>3, NotifyKeeps DEF MonitorService, May
  <1>4. CASE SetEITPFCheckDistance
    BY <1>1, <1>4, NotifyKeeps DEF SetEITPFCheckDistance, SetCheckDistance, May
  <1>5. CASE SetEITScheCheckDistance
    BY <1>1, <1>5, NotifyKeeps DEF SetEITScheCheckDistance, SetCheckDistance, May
  <1> QED
    BY <1>2, <1>3, <1>4, <1>5

LEMMA DestroyKeeps ==
  ASSUME IInv, Destroy \/ Join
  PROVE  IInv'
  <1>1. /\ UNCHANGED <<life, calls, todo, batch, settings, tables, frontend, ts, registry, demux,
                       handler, history>>
        /\ evt' \in {evt, evt \cup {"QUIT"}}
        /\ joiner' \in BOOLEAN /\ (joiner' \/ life = "gone")
    BY DEF Destroy, Join
  <1>2. "QUIT" \in Flags
    BY DEF Flags
  <1>3. TypeOK'
    BY <1>1, <1>2 DEF IInv, TypeOK, settings, tables, frontend, ts, registry, demux, handler,
                      history, Evt!TypeOK, Dmx!TypeOK
  <1>4. Agenda' /\ Stopping'
    BY <1>1, StoppingStays DEF settings, tables, registry
  <1>5. Filters'
    BY <1>1, FiltersKept DEF tables, demux, At
  <1>6. Handling'
    BY <1>1, HandlingKept DEF tables, frontend, ts, demux, handler
  <1>7. Watching'
    BY <1>1, WatchingStays DEF settings, tables, history
  <1> QED
    BY <1>3, <1>4, <1>5, <1>6, <1>7 DEF IInv

LEMMA CreateKeeps ==
  ASSUME IInv, Create
  PROVE  IInv'
  <1>1. /\ life = "none" /\ life' = "live" /\ todo = <<>> /\ todo' = <<S("subscribe", "")>>
        /\ UNCHANGED <<calls, joiner, evt, batch, settings, tables, frontend, ts, registry, demux,
                       handler, history>>
    BY DEF Create, IInv, Stopping
  <1>2. /\ todo' \in Seq(Items) /\ Settled(todo') /\ Lacks(todo', Last) /\ Lacks(todo', Stop)
        /\ \A t : ~Frees(todo', t)
    <2>1. /\ "subscribe" \in PlainSteps /\ "subscribe" # "sync"
          /\ "subscribe" \notin Last /\ "subscribe" \notin Stop
      BY DEF PlainSteps, Pauses, Last, Stop
    <2>2. /\ <<S("subscribe", "")>> \in Seq(Items) /\ Settled(<<S("subscribe", "")>>)
          /\ Lacks(<<S("subscribe", "")>>, Last) /\ Lacks(<<S("subscribe", "")>>, Stop)
          /\ \A t : ~Frees(<<S("subscribe", "")>>, t)
      BY <2>1, StepIs
    <2> QED
      BY <1>1, <2>2
  <1>3. TypeOK'
    BY <1>1 DEF IInv, TypeOK, settings, tables, frontend, ts, registry, demux, handler, history,
                Evt!TypeOK, Dmx!TypeOK
  <1>4. Agenda'
    BY <1>2, SettledInOrder DEF Agenda
  <1>5. Stopping'
    BY <1>1, <1>2 DEF IInv, Stopping
  <1>6. Filters'
    <2>1. ~At("sync")
      BY <1>1 DEF At
    <2> QED
      BY <1>1, <2>1, FiltersKept DEF tables, demux
  <1>7. Handling'
    BY <1>1, HandlingKept DEF tables, frontend, ts, demux, handler
  <1>8. Watching'
    <2>1. \A t : ~Promised(todo, t) /\ ~Frees(todo, t)
      BY <1>1, EmptyFront
    <2>2. \A t : Minded(t) => Minded(t)'
      BY <1>1, <1>2, <2>1 DEF Minded, Checked, Pending, settings, tables
    <2> QED
      BY <1>1, <2>2 DEF IInv, Watching, Undisturbed, Monitored, settings, history
  <1> QED
    BY <1>3, <1>4, <1>5, <1>6, <1>7, <1>8 DEF IInv

LEMMA StutterKeeps ==
  ASSUME IInv, UNCHANGED vars
  PROVE  IInv'
  <1>1. UNCHANGED <<life, calls, joiner, todo, evt, batch, mode, service, single, always, fid, armed,
                    ctl, want, check, since, tuned, owed, fendEvt, feEvt, curr, owner, subs, st, call,
                    callTs, hpc, htab, failed, overrun>>
    BY DEF vars, app, settings, tables, frontend, ts, registry, demux, handler, history
  <1>2. TypeOK'
    BY <1>1 DEF IInv, TypeOK, Evt!TypeOK, Dmx!TypeOK
  <1>3. Agenda' /\ Stopping'
    <2>1. joiner' = joiner /\ ("QUIT" \in evt' => "QUIT" \in evt)
      BY <1>1
    <2> QED
      BY <1>1, <2>1, StoppingStays
  <1>4. Filters'
    BY <1>1, FiltersKept DEF At
  <1>5. Handling'
    BY <1>1, HandlingKept
  <1>6. Watching'
    BY <1>1, WatchingStays
  <1> QED
    BY <1>2, <1>3, <1>4, <1>5, <1>6 DEF IInv

--------------------------------------------------------------------------------
(* The theorems.                                                             *)

LEMMA InitOK == Init => IInv
  <1> SUFFICES ASSUME Init PROVE IInv
    OBVIOUS
  <1>1. TypeOK
    <2>1. /\ fid \in [Tables -> FilterIds \cup {-1}] /\ ctl \in [Tables -> {"none", "part", "full"}]
          /\ want \in [Tables -> {"any", "next", "same", "zero"}]
          /\ since \in [Tables -> 0..MaxTunes]
      BY EpgAssumption DEF EpgAssumption, Init
    <2>2. Evt!TypeOK({Callback})
      BY DEF Init, Evt!Init, Evt!TypeOK
    <2>3. Dmx!TypeOK
      <3>1. [f \in FilterIds |-> "quiet"] \in [FilterIds -> Dmx!Status]
        BY DEF Dmx!Status
      <3>2. st \in [{Self} -> [FilterIds -> Dmx!Status]]
        BY <3>1 DEF Init, Dmx!Init
      <3> QED
        BY <3>2 DEF Init, Dmx!Init, Dmx!TypeOK
    <2>4. {tuned, fendEvt, feEvt, curr, callTs} \subseteq 0..MaxTunes /\ calls \in 0..MaxCalls
      BY EpgAssumption DEF EpgAssumption, Init
    <2> QED
      BY <2>1, <2>2, <2>3, <2>4 DEF Init, TypeOK
  <1>2. Agenda /\ Stopping
    <2>1. Front(<<>>, fid)
      BY EmptyFront
    <2>2. Lacks(<<>>, Last) /\ Lacks(<<>>, Stop)
      BY DEF Lacks
    <2> QED
      BY <2>1, <2>2 DEF Init, Front, Agenda, Stopping
  <1>3. Filters
    <2>1. -1 \notin FilterIds
      BY EpgAssumption DEF EpgAssumption
    <2>2. \A f \in FilterIds : st[Self][f] = "quiet"
      BY DEF Init, Dmx!Init
    <2>3. \A f \in FilterIds : None # <<f, Self>>
      BY TablesAreTables
    <2>4. fid = [t \in Tables |-> -1] /\ call = None
      BY DEF Init, Dmx!Init
    <2> QED
      BY <2>1, <2>2, <2>3, <2>4 DEF Filters, Dmx!Quiescence
  <1>4. Handling
    BY DEF Init, Handling, Dmx!Init
  <1>5. Watching
    BY DEF Init, Watching, Monitored
  <1> QED
    BY <1>1, <1>2, <1>3, <1>4, <1>5 DEF IInv

LEMMA NextStep == IInv /\ [Next]_vars => IInv'
  <1> SUFFICES ASSUME IInv, [Next]_vars PROVE IInv'
    OBVIOUS
  <1>1. CASE FreeFilter
    BY <1>1, FreeFilterKeeps
  <1>2. CASE Sync
    BY <1>2, SyncKeeps
  <1>3. CASE Open \/ Renew \/ OpenNext
    BY <1>3, OpensKeep
  <1>4. CASE Reset
    BY <1>4, ResetKeeps
  <1>5. CASE SetMode
    BY <1>5, SetModeKeeps
  <1>6. CASE SolveFendEvt \/ ApplyPf \/ ApplySche
    BY <1>6, SettingsKeep
  <1>7. CASE ApplyService
    BY <1>7, ApplyServiceKeeps
  <1>8. CASE TablesDone
    BY <1>8, TablesDoneKeeps
  <1>9. CASE VersionDone
    BY <1>9, VersionDoneKeeps
  <1>10. CASE RefreshDone
    BY <1>10, RefreshDoneKeeps
  <1>11. CASE SignalEvent
    BY <1>11, SignalEventKeeps
  <1>12. CASE Refresh
    BY <1>12, RefreshKeeps
  <1>13. CASE Wait \/ Wake \/ SpuriousWake
    BY <1>13, WaitKeeps
  <1>14. CASE WaitTimesOut \/ EndBatch \/ Subscribe
    BY <1>14, RestsKeep
  <1>15. CASE Quit
    BY <1>15, QuitKeeps
  <1>16. CASE Unsubscribe
    BY <1>16, UnsubscribeKeeps
  <1>17. CASE ExitSync
    BY <1>17, ExitSyncKeeps
  <1>18. CASE Release
    BY <1>18, ReleaseKeeps
  <1>19. ASSUME NEW f \in FilterIds, Deliver(f) PROVE IInv'
    BY <1>19, DeliverKeeps
  <1>20. CASE HandlerStep
    BY <1>20, HandlerStepKeeps
  <1>21. CASE Tune \/ FendSignal \/ FendCallback \/ FendNobody
    BY <1>21, FrontendKeeps
  <1>22. CASE Create
    BY <1>22, CreateKeeps
  <1>23. CASE ChangeMode \/ MonitorService \/ SetEITPFCheckDistance \/ SetEITScheCheckDistance
    BY <1>23, SettingsChange
  <1>24. CASE Destroy \/ Join
    BY <1>24, DestroyKeeps
  <1>25. CASE UNCHANGED vars
    BY <1>25, StutterKeeps
  <1> QED
    BY <1>1, <1>2, <1>3, <1>4, <1>5, <1>6, <1>7, <1>8, <1>9, <1>10, <1>11, <1>12, <1>13, <1>14,
       <1>15, <1>16, <1>17, <1>18, <1>19, <1>20, <1>21, <1>22, <1>23, <1>24, <1>25
       DEF Next, ThreadStep

(* What a run can do keeps the inductive invariant: the types, the shape of  *)
(* the agenda, how the thread stops, what filters there are, what a handler  *)
(* works on, and that every table that is not watched yet will be.           *)
THEOREM Invariance == Spec => []IInv
  BY InitOK, NextStep, PTL DEF Spec

(* The variables of the monitor hold what the code gives them.               *)
THEOREM TypeCorrect == Spec => []TypeOK
  <1>1. IInv => TypeOK
    BY DEF IInv
  <1> QED
    BY <1>1, Invariance, PTL

(* The filters the monitor holds are the filters of its tables, each of one  *)
(* table (am_epg_request_section, am_epg_free_filter); and when              *)
(* AM_EPG_Destroy is over, nothing of the demux or of the event registry     *)
(* works on the monitor any more.                                            *)
THEOREM NoFilterLost == Spec => []FiltersAccounted
  <1>1. IInv => FiltersAccounted
    <2> SUFFICES ASSUME IInv PROVE FiltersAccounted
      OBVIOUS
    <2>1. /\ \A f \in FilterIds :
               /\ st[Self][f] \in {"held", "freed", "quiet"}
               /\ st[Self][f] = "freed" => At("sync")
               /\ st[Self][f] = "held" <=> \E t \in Tables : fid[t] = f
          /\ \A t, u \in Tables : t # u /\ fid[t] = fid[u] => fid[t] = -1
          /\ \A f \in FilterIds : st[Self][f] = "quiet" => call # <<f, Self>>
      BY DEF IInv, Filters, Dmx!Quiescence
    <2>2. \A t \in Tables : fid[t] \in FilterIds \cup {-1}
      BY DEF IInv, TypeOK
    <2>3. \A f : f \in Held <=> f \in {fid[t] : t \in Tables} \ {-1}
      <3>1. \A f : f \in Held => f \in {fid[t] : t \in Tables} \ {-1}
        BY <2>1, DemuxKept DEF Held
      <3>2. \A t \in Tables : fid[t] # -1 => fid[t] \in Held
        BY <2>1, <2>2 DEF Held
      <3> QED
        BY <3>1, <3>2
    <2>4. Held = {fid[t] : t \in Tables} \ {-1}
      BY <2>3
    <2>5. ASSUME life = "gone"
          PROVE  call = None /\ Held = {} /\ Callback \notin subs
      <3>1. todo = <<>> /\ Remaining({}) /\ Callback \notin subs
        BY <2>5 DEF IInv, Stopping
      <3>2. \A t \in Tables : fid[t] = -1
        BY <3>1 DEF Remaining
      <3>3. Held = {}
        BY <2>4, <3>2
      <3>4. \A f \in FilterIds : st[Self][f] = "quiet"
        BY <2>1, <3>1, <3>2, DemuxKept DEF At
      <3>5. call = None
        BY <2>1, <3>4, DemuxKept
      <3> QED
        BY <3>1, <3>3, <3>5
    <2> QED
      BY <2>1, <2>4, <2>5 DEF FiltersAccounted
  <1> QED
    BY <1>1, Invariance, PTL

(* A monitor at rest (am_epg_thread in its wait with no flag set) watches    *)
(* the tables of its mode.                                                   *)
THEOREM RestIsWatchful == Spec => []TablesWatched
  <1>1. IInv => TablesWatched
    <2> SUFFICES ASSUME IInv PROVE TablesWatched
      OBVIOUS
    <2>1. ASSUME AtRest, Undisturbed, NEW t \in Tables \ {"eit60", "eit61"}, Monitored(t)
          PROVE  Watched(t)
      <3>1. At("waiting") /\ evt = {} /\ Minded(t)
        BY <2>1 DEF AtRest, IInv, Watching, Cared
      <3>2. fid[t] # -1 \/ Checked(t) \/ Pending(t)
        BY <3>1, PauseIs DEF Pauses
      <3>3. ~Pending(t)
        BY <3>1 DEF Pending
      <3> QED
        BY <2>1, <3>2, <3>3 DEF Watched, Due, Checked
    <2> QED
      BY <2>1 DEF TablesWatched, IInv
  <1> QED
    BY <1>1, Invariance, PTL

(* What changes the sections of a table.                                     *)
LEMMA Collects ==
  ASSUME [Next]_vars
  PROVE  \/ ctl' = ctl \/ Open \/ Renew \/ OpenNext
         \/ \E t \in Tables : HandleVersioned(t) \/ HandleEit(t)
  <1>1. CASE UNCHANGED vars
    BY <1>1 DEF vars, tables
  <1>2. CASE ThreadStep
    BY <1>2, Zenon DEF ThreadStep, FreeFilter, Sync, Reset, SetMode, SolveFendEvt, ApplyPf, ApplySche,
       ApplyService, TablesDone, VersionDone, RefreshDone, SignalEvent, Refresh, Wait, Wake, WakeWhen,
       EndBatch, Subscribe, Quit, Unsubscribe, ExitSync, Release, tables
  <1>3. CASE SpuriousWake \/ WaitTimesOut \/ \E f \in FilterIds : Deliver(f)
    BY <1>3 DEF SpuriousWake, WakeWhen, WaitTimesOut, Deliver, tables
  <1>4. CASE HandlerStep
    BY <1>4 DEF HandlerStep, HandleUnknown, TimeAnnounced, EitAnnounced, HandleTime, HandleRepeat,
       HandleBad, tables
  <1>5. CASE Tune \/ FendSignal \/ FendCallback \/ FendNobody \/ Create \/ Destroy \/ Join
    BY <1>5 DEF Tune, FendSignal, FendCallback, FendNobody, Create, Destroy, Join, tables
  <1>6. CASE ChangeMode \/ MonitorService \/ SetEITPFCheckDistance \/ SetEITScheCheckDistance
    BY <1>6 DEF ChangeMode, MonitorService, SetEITPFCheckDistance, SetEITScheCheckDistance,
       SetCheckDistance, Notify, tables
  <1> QED
    BY <1>1, <1>2, <1>3, <1>4, <1>5, <1>6 DEF Next

(* am_epg_section_handler never collects a section of a TS that was left     *)
(* before the table was last asked for.                                      *)
THEOREM SectionsAreFresh == Spec => NoStaleSections
  <1>1. IInv /\ [Next]_vars =>
          \A t \in Tables : hpc' # hpc /\ ctl'[t] # ctl[t] => callTs >= since[t]
    <2> SUFFICES ASSUME IInv, [Next]_vars, NEW t \in Tables, hpc' # hpc, ctl'[t] # ctl[t]
                 PROVE  callTs >= since[t]
      OBVIOUS
    <2>1. ctl \in [Tables -> {"none", "part", "full"}]
      BY DEF IInv, TypeOK
    <2>2. ~(ctl' = ctl)
      OBVIOUS
    <2>3. ASSUME Open \/ Renew \/ OpenNext PROVE FALSE
      <3>1. PICK w, c : RequestSection(Arg, w, c)
        BY <2>3 DEF Open, Renew, OpenNext
      <3> QED
        BY <3>1 DEF RequestSection, handler
    <2>4. PICK u \in Tables : HandleVersioned(u) \/ HandleEit(u)
      BY <2>2, <2>3, Collects
    <2>5. \E c : ctl' = [ctl EXCEPT ![u] = c]
      BY <2>4 DEF HandleVersioned, HandleEit
    <2>6. u = t
      BY <2>1, <2>5
    <2>7. hpc = "enter" /\ fid[t] = call[1]
      BY <2>4, <2>6 DEF HandleVersioned, HandleEit, Enters, Owners
    <2> QED
      BY <2>7 DEF IInv, Handling
  <1> QED
    BY <1>1, Invariance, PTL DEF Spec, NoStaleSections

================================================================================
