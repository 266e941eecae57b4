---------------------------- MODULE AvDevice_proofs ----------------------------
(****************************************************************************)
(* Proofs about AvDevice for any callers, modes, files and faults: what the *)
(* data sources read is mapped and every mapping has one owner, and a mode  *)
(* holds what opening it has made.                                          *)
(****************************************************************************)
EXTENDS AvDevice, FiniteSetTheorems, TLAPS

(* A mode that is off has no driver data, no data source and no monitor, and *)
(* owns nothing; modes that exclude each other are not on together.          *)
ModesExclude ==
  /\ ~({"video", "jpeg"} \subseteq mode)
  /\ \A m \in mode \cap Alone : mode = {m}
  /\ ~opened => mode = {}

Opens ==
  /\ drv["audio"] = IF "audio" \in mode THEN "source" ELSE "none"
  /\ drv["video"] = IF "video" \in mode THEN "source"
                    ELSE IF "jpeg" \in mode THEN "jpeg" ELSE "none"
  /\ para["audio"].own => "audio" \in mode
  /\ para["video"].own => "video" \in mode \/ "jpeg" \in mode
  /\ \A p \in Players \ mode : tpc[p] = "none" /\ src[p] = Idle

Monitored ==
  /\ "ts" \in mode <=> tsfd # "none"
  /\ mpc # "none" => "ts" \in mode
  /\ tsfd = "closed" => mpc = "reopen"
  /\ At("ask") => ~MonLocked

Calling ==
  call # None =>
    /\ opened /\ pend[call.by] = None
    /\ call.todo \subseteq mode
    /\ call.op = "close" => call.todo = mode
    /\ call.own => call.op = "start" /\ call.data \in Bufs /\ call.at \in {"stop", "join"}
    /\ call.op = "start" =>
         /\ call.mode \in Modes /\ call.todo = mode \cap Excludes(call.mode)
         /\ UsesData(call.mode) => call.data # None
         /\ ~UsesData(call.mode) => ~call.own
         /\ call.data \in Bufs => call.own

Reading ==
  \A p \in Players :
    /\ tpc[p] \notin {"none", "done"} => src[p].data # None
    /\ src[p].data \in Bufs =>
         src[p].data \in lost \/ (para[p].own /\ para[p].data = src[p].data)

Holds(p, b) == para[p].own /\ para[p].data = b
Brings(b) == call # None /\ call.own /\ call.data = b

OwnedIsMapped ==
  /\ lost \subseteq maps /\ maps \subseteq used
  /\ \A p \in Players : para[p].own => para[p].data \in maps \ lost
  /\ \A c \in Callers : pend[c] # None => pend[c] \in maps \ lost
  /\ call # None /\ call.own => call.data \in maps \ lost

MappedIsOwned ==
  \A b \in maps \ lost :
    Brings(b) \/ (\E p \in Players : Holds(p, b)) \/ (\E c \in Callers : pend[c] = b)

OneOwner ==
  \A b \in Bufs :
    /\ \A p, q \in Players : Holds(p, b) /\ Holds(q, b) => p = q
    /\ \A c, d \in Callers : pend[c] = b /\ pend[d] = b => c = d
    /\ \A p \in Players, c \in Callers : ~(Holds(p, b) /\ pend[c] = b)
    /\ Brings(b) => /\ \A p \in Players : ~Holds(p, b)
                    /\ \A c \in Callers : pend[c] # b

OwnedOnce == OwnedIsMapped /\ MappedIsOwned /\ OneOwner

IInv == TypeOK /\ ModesExclude /\ Opens /\ Monitored /\ Calling /\ Reading /\ OwnedOnce

--------------------------------------------------------------------------------
(* Lemmas about the operators of the model.                                  *)

LEMMA OrderIs ==
  /\ DOMAIN Order = 1..7
  /\ Order[1] = "video" /\ Order[2] = "audio" /\ Order[3] = "jpeg" /\ Order[4] = "ts"
  /\ Order[5] = "file" /\ Order[6] = "inject" /\ Order[7] = "timeshift"
  BY DEF Order

LEMMA FirstIsMember ==
  ASSUME NEW S \in SUBSET Modes, S # {}
  PROVE  First(S) \in S
  <1> DEFINE P(i) == Order[i] \in S /\ \A j \in 1..(i - 1) : Order[j] \notin S
  <1>1. PICK m \in S : TRUE
    OBVIOUS
  <1>2. PICK k \in DOMAIN Order : m = Order[k]
    BY AvAssumption DEF AvAssumption
  <1>3. \E i \in 1..7 : P(i)
    <2> SUFFICES ASSUME \A i \in 1..7 : ~P(i) PROVE FALSE
      OBVIOUS
    <2>1. Order[1] \notin S
      OBVIOUS
    <2>2. Order[2] \notin S
      BY <2>1
    <2>3. Order[3] \notin S
      BY <2>1, <2>2
    <2>4. Order[4] \notin S
      BY <2>1, <2>2, <2>3
    <2>5. Order[5] \notin S
      BY <2>1, <2>2, <2>3, <2>4
    <2>6. Order[6] \notin S
      BY <2>1, <2>2, <2>3, <2>4, <2>5
    <2>7. Order[7] \notin S
      BY <2>1, <2>2, <2>3, <2>4, <2>5, <2>6
    <2> QED
      BY <1>1, <1>2, <2>1, <2>2, <2>3, <2>4, <2>5, <2>6, <2>7, OrderIs
  <1>4. First(S) = Order[CHOOSE i \in DOMAIN Order : P(i)]
    BY Zenon DEF First
  <1> QED
    BY <1>3, <1>4, OrderIs

LEMMA ExcludesIs ==
  /\ Excludes("video") = Modes \ Players
  /\ Excludes("audio") = Modes \ {"video", "jpeg"}
  /\ Excludes("jpeg") = Modes \ {"audio", "file"}
  /\ \A m : m \notin {"video", "audio", "jpeg"} => Excludes(m) = Modes
  BY Zenon DEF Excludes

LEMMA InitIInv == Init => IInv
  <1> SUFFICES ASSUME Init PROVE IInv
    OBVIOUS
  <1> USE AvAssumption DEF AvAssumption, Init
  <1>1. TypeOK
    <2>1. src \in [Players -> [running: BOOLEAN, data: Bufs \cup {User, None},
                              times: 0..2, pos: {"start", "end", "off"}]]
      BY DEF Idle
    <2>2. {maps, used, lost} \subseteq SUBSET Bufs
      OBVIOUS
    <2>3. Evt!TypeOK({Callback})
      BY DEF Evt!Init, Evt!TypeOK
    <2>4. para \in [Players -> [data: Bufs \cup {User, None}, own: BOOLEAN]]
      OBVIOUS
    <2> QED
      BY <2>1, <2>2, <2>3, <2>4 DEF TypeOK
  <1>2. ModesExclude /\ Opens /\ Monitored /\ Calling
    BY DEF ModesExclude, Opens, Monitored, Calling, Players, At
  <1>3. Reading
    BY DEF Reading, Idle
  <1>4. OwnedOnce
    BY DEF OwnedOnce, OwnedIsMapped, MappedIsOwned, OneOwner, Holds, Brings
  <1> QED
    BY <1>1, <1>2, <1>3, <1>4 DEF IInv

--------------------------------------------------------------------------------
(* The threads.                                                              *)

Sources ==
  [running: BOOLEAN, data: Bufs \cup {User, None}, times: 0..2, pos: {"start", "end", "off"}]

LEMMA WrittenIs ==
  ASSUME NEW s \in Sources, NEW all \in BOOLEAN
  PROVE  Written(s, all) \in Sources /\ Written(s, all).data = s.data
  <1>1. s.times \in {0, 1, 2}
    BY DEF Sources
  <1>2. CASE ~all /\ s.pos = "start"
    BY <1>2 DEF Written
  <1>3. CASE ~(~all /\ s.pos = "start")
    <2> DEFINE n == IF s.times > 0 THEN s.times - 1 ELSE s.times
               o == IF s.times = 0 THEN "end" ELSE IF s.times = 1 THEN "off" ELSE "start"
    <2>1. n \in 0..2 /\ o \in {"start", "end", "off"}
      BY <1>1
    <2>2. Written(s, all) = [s EXCEPT !.times = n, !.pos = o]
      BY <1>3, Zenon DEF Written
    <2> HIDE DEF n, o
    <2> QED
      BY <2>1, <2>2 DEF Sources
  <1> QED
    BY <1>2, <1>3

LEMMA SourceKeeps ==
  ASSUME IInv, NEW p \in Players, SourceStep(p)
  PROVE  IInv'
  <1> USE AvAssumption DEF AvAssumption, SourceStep, Test, Work, IInv, device, ts, registry, memory
  <1>1. /\ src' \in [Players -> Sources]
        /\ \A q \in Players : src'[q].data = src[q].data
    <2>1. CASE UNCHANGED src
      BY <2>1 DEF TypeOK, Sources
    <2>2. CASE \E all \in BOOLEAN : src' = [src EXCEPT ![p] = Written(@, all)]
      BY <2>2, WrittenIs DEF TypeOK, Sources
    <2> QED
      BY <2>1, <2>2 DEF source
  <1>2. /\ tpc' \in [Players -> {"none", "test", "work", "sleep", "done"}]
        /\ \A q \in Players : tpc'[q] # tpc[q] => tpc[q] \notin {"none", "done"}
    BY DEF TypeOK
  <1>3. \A q \in Players : src'[q] # src[q] => tpc[q] \notin {"none", "done"}
    BY DEF TypeOK
  <1>4. TypeOK'
    BY <1>1, <1>2 DEF TypeOK, Evt!TypeOK, Sources
  <1>5. Opens'
    BY <1>2, <1>3 DEF Opens
  <1>6. ModesExclude' /\ Monitored' /\ Calling'
    BY DEF ModesExclude, Monitored, Calling, At, MonLocked
  <1>7. Reading'
    BY <1>1, <1>2 DEF Reading
  <1>8. OwnedOnce'
    BY DEF OwnedOnce, OwnedIsMapped, MappedIsOwned, OneOwner, Holds, Brings
  <1> QED
    BY <1>4, <1>5, <1>6, <1>7, <1>8

LEMMA MonitorKeeps ==
  ASSUME IInv, MonitorStep
  PROVE  IInv'
  <1> USE DEF MonitorStep, MonWake, MonCheck, MonReopen, MonSignal, IInv, device, source, registry,
          memory, Evt!Signal
  <1>1. TypeOK'
    BY DEF TypeOK, Evt!TypeOK
  <1>2. ModesExclude' /\ Opens' /\ Calling'
    BY DEF ModesExclude, Opens, Calling
  <1>3. Monitored'
    BY DEF Monitored, At, MonLocked
  <1>4. Reading' /\ OwnedOnce'
    BY DEF Reading, OwnedOnce, OwnedIsMapped, MappedIsOwned, OneOwner, Holds, Brings
  <1> QED
    BY <1>1, <1>2, <1>3, <1>4

LEMMA VoutKeeps ==
  ASSUME IInv, VoutBegin \/ VoutEnd
  PROVE  IInv'
  <1> USE DEF VoutBegin, VoutEnd, IInv, device, source, ts, memory, Evt!SignalBegin, Evt!SignalEnd
  <1>1. TypeOK'
    BY DEF TypeOK, Evt!TypeOK
  <1>2. ModesExclude' /\ Opens' /\ Calling' /\ Monitored'
    BY DEF ModesExclude, Opens, Calling, Monitored, At, MonLocked
  <1>3. Reading' /\ OwnedOnce'
    BY DEF Reading, OwnedOnce, OwnedIsMapped, MappedIsOwned, OneOwner, Holds, Brings
  <1> QED
    BY <1>1, <1>2, <1>3

--------------------------------------------------------------------------------
(* The API.                                                                  *)

LEMMA OpenKeeps ==
  ASSUME IInv, NEW c \in Callers, Open(c)
  PROVE  IInv'
  <1> USE DEF Open, IInv, source, ts, memory, Evt!Subscribe
  <1>1. TypeOK'
    BY DEF TypeOK, Evt!TypeOK, ts
  <1>2. ModesExclude' /\ Opens' /\ Calling' /\ Monitored'
    BY DEF ModesExclude, Opens, Calling, Monitored, At, MonLocked, ts
  <1>3. Reading' /\ OwnedOnce'
    BY DEF Reading, OwnedOnce, OwnedIsMapped, MappedIsOwned, OneOwner, Holds, Brings
  <1> QED
    BY <1>1, <1>2, <1>3

(* A call that brings no data and is not a start.                            *)
LEMMA EnterKeeps ==
  ASSUME IInv, NEW c \in Callers, NEW op \in {"stop", "close", "set", "query"},
         NEW m \in Modes \cup {None}, NEW todo \in SUBSET mode,
         NEW at \in {"unsub", "stop", "signal", "query"},
         op = "close" => todo = mode,
         Enter(c, op, m, todo, None, FALSE, at),
         UNCHANGED <<device, pend, source, ts, registry, memory>>
  PROVE  IInv'
  <1> USE DEF Enter, IInv, device, source, ts, registry, memory
  <1>1. TypeOK'
    BY DEF TypeOK, Evt!TypeOK, Calls
  <1>2. ModesExclude' /\ Opens' /\ Monitored'
    BY DEF ModesExclude, Opens, Monitored, At, MonLocked
  <1>3. Calling'
    BY DEF Calling
  <1>4. Reading' /\ OwnedOnce'
    BY DEF Reading, OwnedOnce, OwnedIsMapped, MappedIsOwned, OneOwner, Holds, Brings
  <1> QED
    BY <1>1, <1>2, <1>3, <1>4

LEMMA PlainCallKeeps ==
  ASSUME IInv, NEW c \in Callers, Stop(c) \/ Close(c) \/ Set(c) \/ Query(c)
  PROVE  IInv'
  <1> USE DEF IInv, TypeOK
  <1>1. CASE Stop(c)
    BY <1>1, EnterKeeps DEF Stop
  <1>2. CASE Close(c)
    BY <1>2, EnterKeeps DEF Close
  <1>3. CASE Set(c)
    BY <1>3, EnterKeeps DEF Set
  <1>4. CASE Query(c)
    BY <1>4, EnterKeeps DEF Query
  <1> QED
    BY <1>1, <1>2, <1>3, <1>4

(* A call that starts mode m, with data in the memory of the application or  *)
(* with none.                                                                *)
LEMMA StartPlainKeeps ==
  ASSUME IInv, NEW c \in Callers, NEW m \in Modes, NEW data \in {User, None},
         UsesData(m) => data = User,
         Enter(c, "start", m, mode \cap Excludes(m), data, FALSE, "stop"),
         UNCHANGED <<device, pend, source, ts, registry, memory>>
  PROVE  IInv'
  <1> USE AvAssumption DEF AvAssumption, Enter, IInv, device, source, ts, registry, memory
  <1>1. TypeOK'
    BY DEF TypeOK, Evt!TypeOK, Calls
  <1>2. ModesExclude' /\ Opens' /\ Monitored'
    BY DEF ModesExclude, Opens, Monitored, At, MonLocked
  <1>3. Calling'
    BY DEF Calling
  <1>4. Reading' /\ OwnedOnce'
    BY DEF Reading, OwnedOnce, OwnedIsMapped, MappedIsOwned, OneOwner, Holds, Brings
  <1> QED
    BY <1>1, <1>2, <1>3, <1>4

(* A call that maps the file it starts m with.                               *)
LEMMA StartFileKeeps ==
  ASSUME IInv, NEW c \in Callers, NEW m \in Modes, NEW b \in Bufs \ used, UsesData(m),
         Enter(c, "start", m, mode \cap Excludes(m), b, TRUE, "stop"),
         maps' = maps \cup {b}, used' = used \cup {b},
         UNCHANGED <<device, pend, source, ts, registry, lost>>
  PROVE  IInv'
  <1>0. call' # None /\ call'.own /\ call'.data = b
    <2>1. mode \cap Excludes(m) \in SUBSET Modes
      BY DEF IInv, TypeOK
    <2>2. call' \in Calls /\ call'.own /\ call'.data = b
      BY <2>1 DEF Enter, Calls
    <2> QED
      BY <2>2, AvAssumption DEF AvAssumption
  <1> USE AvAssumption DEF AvAssumption, Enter, IInv, device, source, ts, registry
  <1>1. TypeOK'
    BY DEF TypeOK, Evt!TypeOK, Calls
  <1>2. ModesExclude' /\ Opens' /\ Monitored'
    BY DEF ModesExclude, Opens, Monitored, At, MonLocked
  <1>3. Calling'
    BY DEF Calling
  <1>4. Reading'
    BY DEF Reading
  <1>5. /\ \A x : Brings(x)' <=> x = b
        /\ \A p \in Players : \A x : Holds(p, x)' <=> Holds(p, x)
        /\ pend' = pend /\ lost' = lost
    BY <1>0 DEF Brings, Holds
  <1>6. OwnedIsMapped'
    BY DEF OwnedOnce, OwnedIsMapped
  <1>7. MappedIsOwned'
    BY <1>5 DEF OwnedOnce, MappedIsOwned, Brings
  <1>8. /\ \A p \in Players : ~Holds(p, b)
        /\ \A d \in Callers : pend[d] # b
    BY DEF OwnedOnce, OwnedIsMapped, Holds
  <1>9. OneOwner'
    BY <1>5, <1>8 DEF OwnedOnce, OneOwner
  <1> QED
    BY <1>1, <1>2, <1>3, <1>4, <1>6, <1>7, <1>9 DEF OwnedOnce

LEMMA ApiCallKeeps ==
  ASSUME IInv, NEW c \in Callers, ApiCall(c)
  PROVE  IInv'
  <1>1. ASSUME NEW m \in Modes, UsesData(m), StartData(c, m) PROVE IInv'
    <2> DEFINE b == CHOOSE b \in Bufs \ used : TRUE
    <2>1. CASE /\ Bufs \ used # {}
               /\ Enter(c, "start", m, mode \cap Excludes(m), b, TRUE, "stop")
               /\ maps' = maps \cup {b} /\ used' = used \cup {b}
               /\ UNCHANGED <<device, pend, source, ts, registry, lost>>
      <3>1. b \in Bufs \ used
        BY <2>1
      <3> HIDE DEF b
      <3> QED
        BY <1>1, <2>1, <3>1, StartFileKeeps
    <2>2. CASE /\ Enter(c, "start", m, mode \cap Excludes(m), User, FALSE, "stop")
               /\ UNCHANGED <<device, pend, source, ts, registry, memory>>
      BY <1>1, <2>2, StartPlainKeeps
    <2> QED
      BY <1>1, <2>1, <2>2 DEF StartData
  <1>2. CASE StartES(c)
    BY <1>1, <1>2 DEF StartES, UsesData
  <1>3. CASE Jpeg(c)
    BY <1>1, <1>3 DEF Jpeg, UsesData
  <1>4. CASE StartPlayer(c)
    BY <1>4, StartPlainKeeps DEF StartPlayer, UsesData, Players
  <1> QED
    BY <1>2, <1>3, <1>4, OpenKeeps, PlainCallKeeps DEF ApiCall

--------------------------------------------------------------------------------
(* What a call goes on to do.                                                *)

(* A call that only moves on.                                                *)
LEMMA MoveKeeps ==
  ASSUME IInv, call # None, NEW at \in {"unsub", "stop", "join", "signal", "query", "ask"},
         at = "ask" => ~MonLocked, call.own => at \in {"stop", "join"},
         call' = [call EXCEPT !.at = at],
         UNCHANGED <<device, pend, source, ts, vpc, memory>>, Evt!TypeOK({Callback})'
  PROVE  IInv'
  <1> USE AvAssumption DEF IInv, device, source, ts, memory
  <1>1. /\ call' \in Calls /\ call' # None
        /\ call'.by = call.by /\ call'.op = call.op /\ call'.mode = call.mode
        /\ call'.todo = call.todo /\ call'.data = call.data /\ call'.own = call.own
        /\ call'.at = at
    <2>1. call \in Calls
      BY DEF TypeOK
    <2>2. call' \in Calls
      BY <2>1 DEF Calls
    <2> QED
      BY <2>1, <2>2 DEF Calls, AvAssumption
  <1>2. TypeOK'
    BY <1>1 DEF TypeOK
  <1>3. ModesExclude' /\ Opens' /\ Monitored'
    BY <1>1 DEF ModesExclude, Opens, Monitored, At, MonLocked
  <1>4. Calling'
    BY <1>1 DEF Calling
  <1>5. Reading' /\ OwnedOnce'
    BY <1>1 DEF Reading, OwnedOnce, OwnedIsMapped, MappedIsOwned, OneOwner, Holds, Brings
  <1> QED
    BY <1>2, <1>3, <1>4, <1>5

(* A call that returns without data of its own.                              *)
LEMMA ReturnKeeps ==
  ASSUME IInv, call # None, ~call.own, call' = None, opened' \in BOOLEAN, ~opened' => mode = {},
         UNCHANGED <<mode, para, drv, pend, source, ts, vpc, memory>>, Evt!TypeOK({Callback})'
  PROVE  IInv'
  <1> USE DEF IInv, source, ts, memory
  <1>1. TypeOK'
    BY DEF TypeOK
  <1>2. ModesExclude' /\ Opens' /\ Monitored' /\ Calling'
    BY DEF ModesExclude, Opens, Monitored, Calling, At, MonLocked
  <1>3. Reading' /\ OwnedOnce'
    BY DEF Reading, OwnedOnce, OwnedIsMapped, MappedIsOwned, OneOwner, Holds, Brings
  <1> QED
    BY <1>1, <1>2, <1>3

LEMMA PlainStepKeeps ==
  ASSUME IInv, Unsubscribe \/ QueryLock
  PROVE  IInv'
  <1>1. call # None /\ Evt!TypeOK({Callback})
    BY DEF Unsubscribe, QueryLock, At, IInv, TypeOK
  <1>2. Evt!TypeOK({Callback})'
    BY <1>1 DEF Unsubscribe, QueryLock, Evt!Unsubscribe, Evt!TypeOK, registry
  <1>3. CASE Unsubscribe
    BY <1>1, <1>2, <1>3, MoveKeeps DEF Unsubscribe
  <1>4. CASE QueryLock
    BY <1>1, <1>2, <1>4, MoveKeeps DEF QueryLock, registry, At, IInv, Calling
  <1> QED
    BY <1>3, <1>4

LEMMA EndKeeps ==
  ASSUME IInv, QueryEnd \/ StopEnd \/ CloseEnd \/ SetSignal
  PROVE  IInv'
  <1>1. call # None /\ Evt!TypeOK({Callback}) /\ opened \in BOOLEAN
    BY DEF QueryEnd, StopEnd, CloseEnd, SetSignal, Stopped, At, IInv, TypeOK
  <1>2. Evt!TypeOK({Callback})'
    BY <1>1 DEF QueryEnd, StopEnd, CloseEnd, SetSignal, Evt!Signal, Evt!TypeOK, registry
  <1>3. CASE CloseEnd
    BY <1>1, <1>2, <1>3, ReturnKeeps DEF CloseEnd, Stopped, registry, IInv, Calling
  <1>4. CASE StopEnd
    BY <1>1, <1>2, <1>4, ReturnKeeps DEF StopEnd, Stopped, registry, device, IInv, Calling, ModesExclude
  <1>5. CASE QueryEnd \/ SetSignal
    BY <1>1, <1>2, <1>5, ReturnKeeps DEF QueryEnd, SetSignal, At, registry, device, IInv, Calling, ModesExclude
  <1> QED
    BY <1>3, <1>4, <1>5

LEMMA FreeKeeps ==
  ASSUME IInv, NEW c \in Callers, FreePara(c)
  PROVE  IInv'
  <1> USE AvAssumption DEF FreePara, IInv, device, source, ts, registry, memory, AvAssumption
  <1>1. TypeOK'
    BY DEF TypeOK, Evt!TypeOK
  <1>2. ModesExclude' /\ Opens' /\ Monitored'
    BY DEF ModesExclude, Opens, Monitored, At, MonLocked
  <1>3. Calling'
    BY DEF Calling, TypeOK
  <1>4. Reading'
    BY DEF Reading
  <1>5. pend[c] \in maps \ lost /\ pend[c] \in Bufs
    BY DEF OwnedOnce, OwnedIsMapped, TypeOK
  <1>6. \A d \in Callers : pend'[d] = IF d = c THEN None ELSE pend[d]
    BY DEF TypeOK
  <1>7. OwnedIsMapped'
    BY <1>5, <1>6 DEF OwnedOnce, OwnedIsMapped, OneOwner, Holds, Brings
  <1>8. MappedIsOwned'
    BY <1>5, <1>6 DEF OwnedOnce, MappedIsOwned, Holds, Brings
  <1>9. OneOwner'
    BY <1>5, <1>6 DEF OwnedOnce, OneOwner, Holds, Brings
  <1> QED
    BY <1>1, <1>2, <1>3, <1>4, <1>7, <1>8, <1>9 DEF OwnedOnce

(* The mode that is stopped next is one of those that are on.                *)
LEMMA NextToStop ==
  ASSUME IInv, call # None, call.todo # {}
  PROVE  First(call.todo) \in mode /\ First(call.todo) \in call.todo /\ mode \subseteq Modes
  <1>1. mode \subseteq Modes /\ call.todo \subseteq mode
    BY DEF IInv, TypeOK, Calling
  <1>2. First(call.todo) \in call.todo
    BY <1>1, FirstIsMember
  <1> QED
    BY <1>1, <1>2

LEMMA StopThreadKeeps ==
  ASSUME IInv, StopThread
  PROVE  IInv'
  <1> USE AvAssumption DEF IInv, device, registry, memory
  <1> DEFINE m == First(call.todo)
  <1>1. m \in mode
    BY NextToStop DEF StopThread, At
  <1>2. /\ call # None /\ call' = [call EXCEPT !.at = "join"]
        /\ UNCHANGED <<device, pend, registry, memory>>
        /\ UNCHANGED <<tsfd, mpc>> /\ tsRun' \in BOOLEAN
    BY DEF StopThread, At, ts, TypeOK
  <1>3. /\ src' \in [Players -> Sources]
        /\ tpc' \in [Players -> {"none", "test", "work", "sleep", "done"}]
        /\ \A p \in Players : src'[p].data = src[p].data
        /\ \A p \in Players : tpc'[p] # tpc[p] => tpc[p] = "sleep"
        /\ \A p \in Players \ mode : src'[p] = src[p] /\ tpc'[p] = tpc[p]
    <2>1. CASE m \notin Players
      BY <2>1 DEF StopThread, source, TypeOK, Sources
    <2>2. CASE m \in Players
      <3> HIDE DEF m
      <3>1. /\ src' = [src EXCEPT ![m].running = FALSE]
            /\ tpc' = [tpc EXCEPT ![m] = Signalled(m)]
        BY <2>2 DEF StopThread, m
      <3>2. src' \in [Players -> Sources] /\ \A p \in Players : src'[p].data = src[p].data
        BY <2>2, <3>1 DEF TypeOK, Sources
      <3>3. /\ tpc' \in [Players -> {"none", "test", "work", "sleep", "done"}]
            /\ \A p \in Players : tpc'[p] # tpc[p] => tpc[p] = "sleep"
        BY <2>2, <3>1 DEF TypeOK, Signalled
      <3>4. \A p \in Players \ mode : src'[p] = src[p] /\ tpc'[p] = tpc[p]
        BY <1>1, <2>2, <3>1 DEF TypeOK
      <3> QED
        BY <3>2, <3>3, <3>4
    <2> QED
      BY <2>1, <2>2
  <1>4. /\ call' \in Calls /\ call' # None
        /\ call'.by = call.by /\ call'.op = call.op /\ call'.mode = call.mode
        /\ call'.todo = call.todo /\ call'.data = call.data /\ call'.own = call.own
        /\ call'.at = "join"
    <2>1. call \in Calls
      BY <1>2 DEF TypeOK
    <2>2. call' \in Calls
      BY <1>2, <2>1 DEF Calls
    <2> QED
      BY <1>2, <2>1, <2>2 DEF Calls, AvAssumption
  <1>5. TypeOK'
    BY <1>2, <1>3, <1>4 DEF TypeOK, Sources, Evt!TypeOK
  <1>6. ModesExclude' /\ Monitored'
    BY <1>2, <1>4 DEF ModesExclude, Monitored, At
  <1>7. Opens'
    BY <1>2, <1>3 DEF Opens
  <1>8. Calling'
    BY <1>2, <1>4 DEF Calling
  <1>9. Reading'
    BY <1>2, <1>3 DEF Reading
  <1>10. OwnedOnce'
    BY <1>2, <1>4 DEF OwnedOnce, OwnedIsMapped, MappedIsOwned, OneOwner, Holds, Brings
  <1> QED
    BY <1>5, <1>6, <1>7, <1>8, <1>9, <1>10

(* What the device plays is no longer its own.                               *)
LEMMA DisownIs ==
  ASSUME para \in [Players -> [data: Bufs \cup {User, None}, own: BOOLEAN]],
         NEW p \in Players, para' = [para EXCEPT ![p].own = FALSE]
  PROVE  /\ para' \in [Players -> [data: Bufs \cup {User, None}, own: BOOLEAN]]
         /\ \A q \in Players : para'[q].data = para[q].data
         /\ \A q \in Players : para'[q].own <=> para[q].own /\ q # p
  OBVIOUS

LEMMA CloseModeKeeps ==
  ASSUME IInv, CloseMode
  PROVE  IInv'
  <1> USE AvAssumption DEF IInv
  <1> DEFINE m == First(call.todo)
             p == PlayerOf(m)
  <1>1. m \in mode /\ m \in call.todo /\ mode \subseteq Modes /\ call # None
    BY NextToStop DEF CloseMode
  <1>2. /\ mode' = mode \ {m}
        /\ IF UsesData(m)
           THEN /\ drv' = [drv EXCEPT ![p] = "none"]
                /\ para' = [para EXCEPT ![p].own = FALSE]
                /\ maps' = IF para[p].own THEN maps \ {para[p].data} ELSE maps
           ELSE UNCHANGED <<drv, para, maps>>
        /\ IF m \in Players
           THEN tpc' = [tpc EXCEPT ![m] = "none"] /\ src' = [src EXCEPT ![m] = Idle]
           ELSE UNCHANGED <<tpc, src>>
        /\ IF m = "ts" THEN tsfd' = "none" /\ mpc' = "none" ELSE UNCHANGED <<tsfd, mpc>>
        /\ call' = [call EXCEPT !.at = "stop", !.todo = @ \ {m}]
        /\ UNCHANGED <<opened, pend, tsRun, owner, subs, vpc, used, lost>>
    BY DEF CloseMode, source, registry
  <1> HIDE DEF m
  <1>3. /\ call' \in Calls /\ call' # None
        /\ call'.by = call.by /\ call'.op = call.op /\ call'.mode = call.mode
        /\ call'.todo = call.todo \ {m} /\ call'.data = call.data /\ call'.own = call.own
        /\ call'.at = "stop"
    <2>1. call \in Calls
      BY <1>1 DEF TypeOK
    <2>2. call' \in Calls
      BY <1>2, <2>1 DEF Calls
    <2> QED
      BY <1>2, <2>1, <2>2 DEF Calls, AvAssumption
  <1>4. UsesData(m) => p \in Players
    BY DEF UsesData, PlayerOf, Players
  <1> HIDE DEF p
  <1>5. TypeOK'
    <2>1. para' \in [Players -> [data: Bufs \cup {User, None}, own: BOOLEAN]]
      <3>1. CASE UsesData(m)
        <4>1. para' = [para EXCEPT ![p].own = FALSE]
          BY <1>2, <3>1
        <4> QED
          BY <1>4, <3>1, <4>1, DisownIs DEF TypeOK
      <3>2. CASE ~UsesData(m)
        BY <1>2, <3>2 DEF TypeOK
      <3> QED
        BY <3>1, <3>2
    <2>2. /\ src' \in [Players -> Sources]
          /\ tpc' \in [Players -> {"none", "test", "work", "sleep", "done"}]
      <3>1. Idle \in Sources
        BY DEF Idle, Sources
      <3>2. src \in [Players -> Sources]
        BY DEF TypeOK, Sources
      <3> QED
        BY <1>2, <3>1, <3>2 DEF TypeOK
    <2>3. drv' \in [Players -> {"none", "source", "jpeg"}] /\ maps' \subseteq Bufs
      BY <1>2, <1>4 DEF TypeOK
    <2> QED
      BY <1>1, <1>2, <1>3, <2>1, <2>2, <2>3 DEF TypeOK, Sources, Evt!TypeOK
  <1>6. ModesExclude'
    BY <1>1, <1>2 DEF ModesExclude
  <1>7. Opens'
    <2>1. m # "video" \/ "jpeg" \notin mode
      BY <1>1 DEF ModesExclude
    <2>2. \A q \in Players \ mode' : tpc'[q] = "none" /\ src'[q] = Idle
      BY <1>2 DEF Opens, TypeOK
    <2> QED
      BY <1>1, <1>2, <2>1, <2>2 DEF Opens, ModesExclude, UsesData, PlayerOf, Players, TypeOK, p
  <1>8. Monitored'
    BY <1>1, <1>2, <1>3 DEF Monitored, At, MonLocked
  <1>9. Calling'
    BY <1>1, <1>2, <1>3 DEF Calling
  <1>10. \A q \in Players :
          /\ para'[q].data = para[q].data
          /\ para'[q].own <=> para[q].own /\ ~(UsesData(m) /\ q = p)
    <2>1. CASE UsesData(m)
      <3>1. para' = [para EXCEPT ![p].own = FALSE]
        BY <1>2, <2>1
      <3> QED
        BY <1>4, <2>1, <3>1, DisownIs DEF TypeOK
    <2>2. CASE ~UsesData(m)
      BY <1>2, <2>2 DEF TypeOK
    <2> QED
      BY <2>1, <2>2
  <1>11. maps' = IF UsesData(m) /\ para[p].own THEN maps \ {para[p].data} ELSE maps
    BY <1>2
  <1>12. UsesData(m) /\ para[p].own => para[p].data \in maps \ lost /\ para[p].data \in Bufs
    BY <1>4 DEF OwnedOnce, OwnedIsMapped, TypeOK
  <1>13. Reading'
    <2>1. CASE m \in Players
      <3>1. m = p /\ UsesData(m)
        BY <2>1 DEF PlayerOf, UsesData, Players, p
      <3>2. \A q \in Players : q # p => src'[q] = src[q] /\ tpc'[q] = tpc[q]
        BY <1>2, <3>1 DEF TypeOK
      <3>3. src'[p].data = None /\ tpc'[p] = "none"
        BY <1>2, <2>1, <3>1 DEF TypeOK, Idle
      <3> QED
        BY <1>2, <1>10, <3>1, <3>2, <3>3, AvAssumption DEF Reading, AvAssumption
    <2>2. CASE m = "jpeg"
      <3>1. p = "video" /\ "video" \notin mode
        BY <1>1, <2>2 DEF ModesExclude, PlayerOf, p
      <3>2. src["video"].data = None
        BY <3>1 DEF Opens, Idle, Players
      <3> QED
        BY <1>2, <1>10, <2>2, <3>1, <3>2, AvAssumption DEF Reading, AvAssumption, Players
    <2>3. CASE ~UsesData(m)
      BY <1>2, <1>10, <2>3 DEF Reading, UsesData
    <2> QED
      BY <2>1, <2>2, <2>3 DEF UsesData
  <1>14. /\ \A b : Brings(b)' <=> Brings(b)
         /\ \A q \in Players : \A b : Holds(q, b)' <=> Holds(q, b) /\ ~(UsesData(m) /\ q = p)
    BY <1>1, <1>3, <1>10 DEF Brings, Holds
  <1>15. OwnedIsMapped'
    BY <1>1, <1>2, <1>3, <1>4, <1>10, <1>11, <1>12 DEF OwnedOnce, OwnedIsMapped, OneOwner, Holds, Brings, TypeOK
  <1>16. MappedIsOwned'
    BY <1>2, <1>4, <1>11, <1>14 DEF OwnedOnce, MappedIsOwned, Holds
  <1>17. OneOwner'
    BY <1>2, <1>14 DEF OwnedOnce, OneOwner
  <1> QED
    BY <1>5, <1>6, <1>7, <1>8, <1>9, <1>13, <1>15, <1>16, <1>17 DEF OwnedOnce

(* When a start has stopped what its mode excludes, only these are on.       *)
LEMMA StoppedIs ==
  ASSUME IInv, Stopped("start")
  PROVE  /\ call # None /\ call \in Calls /\ call.mode \in Modes /\ call.by \in Callers
         /\ call.op = "start" /\ call.at = "stop"
         /\ mode \subseteq Modes
         /\ call.mode = "video" => mode \subseteq Players
         /\ call.mode = "audio" => mode \subseteq {"video", "jpeg"}
         /\ call.mode = "jpeg" => mode \subseteq {"audio", "file"}
         /\ call.mode \notin {"video", "audio", "jpeg"} => mode = {}
         /\ UsesData(call.mode) => call.data # None
         /\ call.own => UsesData(call.mode) /\ call.data \in Bufs
         /\ call.data \in Bufs => call.own
  <1>1. /\ call # None /\ call \in Calls /\ call.mode \in Modes /\ mode \subseteq Modes
        /\ call.op = "start" /\ call.todo = {} /\ call.at = "stop" /\ call.by \in Callers
        /\ mode \cap Excludes(call.mode) = {}
        /\ UsesData(call.mode) => call.data # None
        /\ call.own => UsesData(call.mode) /\ call.data \in Bufs
        /\ call.data \in Bufs => call.own
    BY DEF Stopped, At, IInv, TypeOK, Calling, Calls
  <1> QED
    BY <1>1, ExcludesIs

(* A mode that opens leaves every part of the device as the mode wants it.   *)
LEMMA OpenedModes ==
  ASSUME IInv, Stopped("start"), mode' = mode \cup {call.mode}, UNCHANGED opened
  PROVE  ModesExclude' /\ mode' \subseteq Modes
  <1>1. opened
    BY StoppedIs DEF IInv, Calling
  <1> QED
    BY <1>1, StoppedIs DEF IInv, ModesExclude, Players, Alone

LEMMA OpenedMonitor ==
  ASSUME IInv, Stopped("start"), mode' = mode \cup {call.mode},
         tsfd' = IF call.mode = "ts" THEN "open" ELSE tsfd,
         mpc' = mpc \/ (call.mode = "ts" /\ mpc' = "nap"),
         call' = None \/ call'.at = "stop"
  PROVE  Monitored'
  BY StoppedIs DEF IInv, Monitored, At, MonLocked

LEMMA OpenedDriver ==
  ASSUME IInv, Stopped("start"), mode' = mode \cup {call.mode},
         IF UsesData(call.mode)
         THEN drv' = [drv EXCEPT ![PlayerOf(call.mode)] =
                        IF call.mode = "jpeg" THEN "jpeg" ELSE "source"]
         ELSE UNCHANGED drv
  PROVE  /\ drv' \in [Players -> {"none", "source", "jpeg"}]
         /\ drv'["audio"] = IF "audio" \in mode' THEN "source" ELSE "none"
         /\ drv'["video"] = IF "video" \in mode' THEN "source"
                            ELSE IF "jpeg" \in mode' THEN "jpeg" ELSE "none"
  <1>1. UsesData(call.mode) => PlayerOf(call.mode) \in Players
    BY DEF UsesData, PlayerOf, Players
  <1> QED
    BY <1>1, StoppedIs DEF IInv, TypeOK, Opens, UsesData, PlayerOf, Players

(* The mapping that a failed start brought goes to its caller; what the      *)
(* players in Q owned is theirs no more, and left behind.                    *)
LEMMA FailsHandsOver ==
  ASSUME IInv, Stopped("start"), Fails, NEW Q \in SUBSET Players,
         \A q \in Players : \A b : Holds(q, b)' <=> Holds(q, b) /\ q \notin Q,
         \A q \in Players : para'[q].own => para[q].own /\ para'[q].data = para[q].data /\ q \notin Q,
         \A b : b \in lost' <=> b \in lost \/ \E q \in Q : Holds(q, b),
         UNCHANGED <<maps, used>>
  PROVE  OwnedOnce'
  <1> USE StoppedIs DEF IInv
  <1>1. /\ ~call'.own \/ call' = None
        /\ \A b : ~Brings(b)'
    BY DEF Fails, Brings
  <1>2. \A c \in Callers, b \in Bufs :
           pend'[c] = b <=> pend[c] = b \/ (Brings(b) /\ c = call.by)
    <2>1. pend[call.by] = None /\ None \notin Bufs
      BY AvAssumption DEF AvAssumption, Calling
    <2>2. CASE call.own
      <3>1. \A c \in Callers : pend'[c] = IF c = call.by THEN call.data ELSE pend[c]
        BY <2>2 DEF Fails, TypeOK
      <3> QED
        BY <2>1, <2>2, <3>1 DEF Brings
    <2>3. CASE ~call.own
      BY <2>3 DEF Fails, Brings
    <2> QED
      BY <2>2, <2>3
  <1>3. \A c \in Callers : pend'[c] # None => pend'[c] \in Bufs
    BY DEF Fails, TypeOK
  <1>4. lost' \subseteq maps
    BY DEF OwnedOnce, OwnedIsMapped, Holds
  <1>5. \A b \in maps \ lost : b \in Bufs
    BY DEF TypeOK
  <1>6. OwnedIsMapped'
    <2>1. \A c \in Callers : pend'[c] # None => pend'[c] \in maps \ lost'
      BY <1>2, <1>3, <1>5 DEF OwnedOnce, OwnedIsMapped, OneOwner, Brings
    <2>2. \A q \in Players : para'[q].own => para'[q].data \in maps \ lost'
      BY <1>5 DEF OwnedOnce, OwnedIsMapped, OneOwner, Holds
    <2> QED
      BY <1>1, <1>4, <2>1, <2>2 DEF OwnedOnce, OwnedIsMapped, Fails
  <1>7. MappedIsOwned'
    BY <1>2, <1>5 DEF OwnedOnce, MappedIsOwned
  <1>8. OneOwner'
    BY <1>1, <1>2 DEF OwnedOnce, OneOwner
  <1> QED
    BY <1>6, <1>7, <1>8 DEF OwnedOnce

(* The mapping that a start brought is owned by the player in Q.             *)
LEMMA StartHandsOver ==
  ASSUME IInv, Stopped("start"), NEW Q \in SUBSET Players,
         \A q, r \in Q : q = r, call.own => Q # {},
         \A q \in Players : \A b :
           Holds(q, b)' <=> IF q \in Q THEN Brings(b) ELSE Holds(q, b),
         \A q \in Players : para'[q].own => \E b \in Bufs : Holds(q, b)',
         \A b : b \in lost' <=> b \in lost \/ \E q \in Q : Holds(q, b),
         call' = None \/ ~call'.own,
         UNCHANGED <<pend, maps, used>>
  PROVE  OwnedOnce'
  <1> USE StoppedIs DEF IInv
  <1>1. \A b : ~Brings(b)'
    BY DEF Brings
  <1>2. lost' \subseteq maps
    BY DEF OwnedOnce, OwnedIsMapped, Holds
  <1>3. \A b \in maps \ lost : b \in Bufs
    BY DEF TypeOK
  <1>4. OwnedIsMapped'
    <2>1. \A c \in Callers : pend[c] # None => pend[c] \in maps \ lost'
      BY <1>3 DEF OwnedOnce, OwnedIsMapped, OneOwner
    <2>2. \A q \in Players, b \in Bufs : Holds(q, b)' => b \in maps \ lost'
      BY <1>3 DEF OwnedOnce, OwnedIsMapped, OneOwner, Holds, Brings
    <2>3. \A q \in Players : para'[q].own => para'[q].data \in maps \ lost'
      BY <2>2 DEF Holds
    <2> QED
      BY <1>2, <2>1, <2>3 DEF OwnedOnce, OwnedIsMapped
  <1>5. MappedIsOwned'
    BY <1>3 DEF OwnedOnce, MappedIsOwned, Brings
  <1>6. OneOwner'
    BY <1>1 DEF OwnedOnce, OneOwner
  <1> QED
    BY <1>4, <1>5, <1>6 DEF OwnedOnce

LEMMA PendKeeps ==
  ASSUME IInv, Stopped("start"), Fails
  PROVE  pend' \in [Callers -> Bufs \cup {None}]
  BY StoppedIs DEF Fails, IInv, TypeOK

LEMMA OpenFailsKeeps ==
  ASSUME IInv, OpenFails
  PROVE  IInv'
  <1>1. /\ Stopped("start") /\ Fails /\ call' = None
        /\ UNCHANGED <<opened, mode, para, drv, src, tpc, tsfd, tsRun, mpc, owner, subs, vpc>>
        /\ UNCHANGED <<maps, used, lost>>
    BY DEF OpenFails, Fails, device, source, ts, registry, memory
  <1>2. TypeOK'
    BY <1>1, PendKeeps DEF IInv, TypeOK, Evt!TypeOK
  <1>3. ModesExclude' /\ Opens' /\ Monitored' /\ Calling'
    BY <1>1 DEF IInv, ModesExclude, Opens, Monitored, Calling, At, MonLocked
  <1>4. Reading'
    BY <1>1 DEF IInv, Reading
  <1>5. OwnedOnce'
    <2> DEFINE Q == {}
    <2>1. /\ \A q \in Players : \A b : Holds(q, b)' <=> Holds(q, b) /\ q \notin Q
          /\ \A q \in Players : para'[q].own =>
               para[q].own /\ para'[q].data = para[q].data /\ q \notin Q
          /\ \A b : b \in lost' <=> b \in lost \/ \E q \in Q : Holds(q, b)
          /\ Q \in SUBSET Players
      BY <1>1 DEF Holds
    <2> HIDE DEF Q
    <2> QED
      BY <1>1, <2>1, FailsHandsOver
  <1> QED
    BY <1>2, <1>3, <1>4, <1>5 DEF IInv

(* What Opened does to the parameters and the mappings left behind.          *)
Uses == IF UsesData(call.mode) THEN {PlayerOf(call.mode)} ELSE {}

LEMMA OpenedPara ==
  ASSUME IInv, Stopped("start"),
         NEW r \in {[data |-> call.data, own |-> FALSE], [data |-> call.data, own |-> call.own]},
         IF UsesData(call.mode)
         THEN LET p == PlayerOf(call.mode) IN
              /\ para' = [para EXCEPT ![p] = r]
              /\ lost' = IF call.mode = "video" /\ para[p].own THEN lost \cup {para[p].data} ELSE lost
         ELSE UNCHANGED <<para, lost>>
  PROVE  /\ Uses \subseteq Players
         /\ para' \in [Players -> [data: Bufs \cup {User, None}, own: BOOLEAN]]
         /\ \A q \in Players \ Uses : para'[q] = para[q]
         /\ \A q \in Uses : para'[q] = r
         /\ \A b : b \in lost' <=> b \in lost \/ \E q \in Uses : Holds(q, b)
         /\ lost' \in SUBSET Bufs
  <1> USE DEF IInv
  <1>1. Uses \subseteq Players
    BY DEF UsesData, PlayerOf, Players, Uses
  <1>2. r \in [data: Bufs \cup {User, None}, own: BOOLEAN]
    <2>1. call.data \in Bufs \cup {User, None} /\ call.own \in BOOLEAN
      BY StoppedIs DEF Calls
    <2>2. CASE r = [data |-> call.data, own |-> FALSE]
      BY <2>1, <2>2
    <2>3. CASE r = [data |-> call.data, own |-> call.own]
      BY <2>1, <2>3
    <2> QED
      BY <2>2, <2>3
  <1>3. /\ para' \in [Players -> [data: Bufs \cup {User, None}, own: BOOLEAN]]
        /\ \A q \in Players \ Uses : para'[q] = para[q]
        /\ \A q \in Uses : para'[q] = r
    <2>1. CASE UsesData(call.mode)
      <3>1. para' = [para EXCEPT ![PlayerOf(call.mode)] = r]
        BY <2>1
      <3> QED
        BY <1>1, <1>2, <2>1, <3>1 DEF TypeOK, Uses
    <2>2. CASE ~UsesData(call.mode)
      BY <2>2 DEF TypeOK, Uses
    <2> QED
      BY <2>1, <2>2
  <1>4. UsesData(call.mode) /\ call.mode # "video" => ~para[PlayerOf(call.mode)].own
    BY StoppedIs DEF Opens, UsesData, PlayerOf, Players
  <1>5. \A b : b \in lost' <=> b \in lost \/ \E q \in Uses : Holds(q, b)
    BY <1>4 DEF Holds, PlayerOf, Uses
  <1>6. lost' \in SUBSET Bufs
    BY <1>1, <1>5 DEF OwnedOnce, OwnedIsMapped, Holds, TypeOK
  <1> QED
    BY <1>1, <1>3, <1>5, <1>6

LEMMA StartFailsKeeps ==
  ASSUME IInv, StartFails
  PROVE  IInv'
  <1> DEFINE Q == Uses
  <1>1. /\ Stopped("start") /\ Fails /\ call' = None
        /\ mode' = mode \cup {call.mode}
        /\ UNCHANGED <<opened, src, tpc, tsRun, mpc, owner, subs, vpc, maps, used>>
        /\ tsfd' = IF call.mode = "ts" THEN "open" ELSE tsfd
    BY DEF StartFails, Fails, Opened, source, registry
  <1>2. /\ Q \subseteq Players
        /\ para' \in [Players -> [data: Bufs \cup {User, None}, own: BOOLEAN]]
        /\ \A q \in Players \ Q : para'[q] = para[q]
        /\ \A q \in Q : ~para'[q].own
        /\ \A b : b \in lost' <=> b \in lost \/ \E q \in Q : Holds(q, b)
        /\ lost' \in SUBSET Bufs
    <2>1. IF UsesData(call.mode)
          THEN LET p == PlayerOf(call.mode) IN
               /\ para' = [para EXCEPT ![p] = [data |-> call.data, own |-> FALSE]]
               /\ lost' = IF call.mode = "video" /\ para[p].own THEN lost \cup {para[p].data} ELSE lost
          ELSE UNCHANGED <<para, lost>>
      BY DEF StartFails, Opened
    <2> QED
      BY <1>1, <2>1, OpenedPara
  <1>3. /\ drv' \in [Players -> {"none", "source", "jpeg"}]
        /\ drv'["audio"] = IF "audio" \in mode' THEN "source" ELSE "none"
        /\ drv'["video"] = IF "video" \in mode' THEN "source"
                           ELSE IF "jpeg" \in mode' THEN "jpeg" ELSE "none"
    BY <1>1, OpenedDriver DEF StartFails, Opened
  <1> HIDE DEF Q
  <1>4. ModesExclude' /\ mode' \subseteq Modes
    BY <1>1, OpenedModes
  <1>5. TypeOK'
    BY <1>1, <1>2, <1>3, <1>4, PendKeeps DEF IInv, TypeOK, Evt!TypeOK
  <1>6. Monitored'
    BY <1>1, OpenedMonitor
  <1>7. Opens'
    BY <1>1, <1>2, <1>3 DEF IInv, Opens, Players
  <1>8. Calling'
    BY <1>1 DEF Calling
  <1>9. Reading'
    BY <1>1, <1>2 DEF IInv, Reading, Holds
  <1>10. OwnedOnce'
    <2>1. /\ \A q \in Players : \A b : Holds(q, b)' <=> Holds(q, b) /\ q \notin Q
          /\ \A q \in Players : para'[q].own =>
               para[q].own /\ para'[q].data = para[q].data /\ q \notin Q
      BY <1>2 DEF Holds
    <2> QED
      BY <1>1, <1>2, <2>1, FailsHandsOver
  <1> QED
    BY <1>4, <1>5, <1>6, <1>7, <1>8, <1>9, <1>10 DEF IInv

(* A data source that starts reads the data of the call.                     *)
LEMMA PlayIs ==
  ASSUME IInv, NEW m \in Players, call # None, PlaySource(m)
  PROVE  /\ src' \in [Players -> Sources]
         /\ tpc' \in [Players -> {"none", "test", "work", "sleep", "done"}]
         /\ src'[m].data = call.data
         /\ \A q \in Players \ {m} : src'[q] = src[q] /\ tpc'[q] = tpc[q]
  <1>1. call.data \in Bufs \cup {User, None}
    BY DEF IInv, TypeOK, Calls
  <1>2. PICK n \in IF m = "video" THEN {2} ELSE 0..1, made \in BOOLEAN :
          /\ src' = [src EXCEPT ![m] = [running |-> made, data |-> call.data,
                                        times |-> n, pos |-> "start"]]
          /\ tpc' = [tpc EXCEPT ![m] = IF src[m].running THEN Signalled(m)
                                       ELSE IF made THEN "test" ELSE "none"]
    BY Zenon DEF PlaySource
  <1>3. [running |-> made, data |-> call.data, times |-> n, pos |-> "start"] \in Sources
    BY <1>1 DEF Sources
  <1>4. Signalled(m) \in {"none", "test", "work", "sleep", "done"}
    BY DEF Signalled, IInv, TypeOK
  <1> QED
    BY <1>2, <1>3, <1>4 DEF IInv, TypeOK, Sources

LEMMA StartsKeeps ==
  ASSUME IInv, Starts
  PROVE  IInv'
  <1> DEFINE m == call.mode
             Q == Uses
  <1>1. /\ Stopped("start")
        /\ mode' = mode \cup {m}
        /\ UNCHANGED <<opened, pend, owner, subs, vpc, maps, used>>
        /\ tsfd' = IF m = "ts" THEN "open" ELSE tsfd
        /\ tsRun' \in BOOLEAN /\ (mpc' = mpc \/ (m = "ts" /\ mpc' = "nap"))
        /\ IF m \in Players THEN PlaySource(m) ELSE UNCHANGED <<src, tpc>>
        /\ call' = IF m = "jpeg"
                   THEN [call EXCEPT !.op = "stop", !.todo = {"jpeg"}, !.own = FALSE]
                   ELSE None
    BY DEF Starts, Opened, PlayTS, source, registry, IInv, TypeOK
  <1>2. /\ call # None /\ call \in Calls /\ call.by \in Callers /\ call.op = "start"
        /\ call.own \in BOOLEAN
        /\ call.at = "stop" /\ mode \subseteq Modes
        /\ m = "jpeg" => mode \subseteq {"audio", "file"}
        /\ UsesData(m) => call.data # None
        /\ call.own => UsesData(m) /\ call.data \in Bufs
        /\ call.data \in Bufs => call.own
    BY <1>1, StoppedIs DEF Calls
  <1>3. /\ Q \subseteq Players
        /\ para' \in [Players -> [data: Bufs \cup {User, None}, own: BOOLEAN]]
        /\ \A q \in Players \ Q : para'[q] = para[q]
        /\ \A q \in Q : para'[q] = [data |-> call.data, own |-> call.own]
        /\ \A b : b \in lost' <=> b \in lost \/ \E q \in Q : Holds(q, b)
        /\ lost' \in SUBSET Bufs
    <2>1. IF UsesData(call.mode)
          THEN LET p == PlayerOf(call.mode) IN
               /\ para' = [para EXCEPT ![p] = [data |-> call.data, own |-> call.own]]
               /\ lost' = IF call.mode = "video" /\ para[p].own THEN lost \cup {para[p].data} ELSE lost
          ELSE UNCHANGED <<para, lost>>
      BY DEF Starts, Opened
    <2> QED
      BY <1>1, <2>1, OpenedPara
  <1>4. /\ drv' \in [Players -> {"none", "source", "jpeg"}]
        /\ drv'["audio"] = IF "audio" \in mode' THEN "source" ELSE "none"
        /\ drv'["video"] = IF "video" \in mode' THEN "source"
                           ELSE IF "jpeg" \in mode' THEN "jpeg" ELSE "none"
    BY <1>1, OpenedDriver DEF Starts, Opened
  <1>5. /\ m \in Players => Q = {m}
        /\ m = "jpeg" => Q = {"video"}
        /\ ~UsesData(m) => Q = {}
        /\ \A q, r \in Q : q = r
        /\ call.own => Q # {}
    BY <1>2 DEF UsesData, PlayerOf, Players, Uses
  <1>6. /\ call' # None => m = "jpeg" /\ call' \in Calls
        /\ m = "jpeg" => /\ call'.op = "stop" /\ call'.todo = {"jpeg"} /\ ~call'.own
                         /\ call'.at = "stop" /\ call'.by = call.by
    <2>1. CASE m # "jpeg"
      BY <1>1, <2>1
    <2>2. CASE m = "jpeg"
      <3>1. "jpeg" \in Modes
        BY <1>1, <2>2, StoppedIs
      <3> QED
        BY <1>1, <1>2, <2>2, <3>1 DEF Calls
    <2> QED
      BY <2>1, <2>2
  <1>7. /\ src' \in [Players -> Sources]
        /\ tpc' \in [Players -> {"none", "test", "work", "sleep", "done"}]
        /\ \A q \in Players : q = m => src'[q].data = call.data
        /\ \A q \in Players : q # m => src'[q] = src[q] /\ tpc'[q] = tpc[q]
    BY <1>1, <1>2, PlayIs DEF IInv, TypeOK, Sources
  <1> HIDE DEF m, Q
  <1>8. ModesExclude' /\ mode' \subseteq Modes
    BY <1>1, OpenedModes DEF m
  <1>9. TypeOK'
    BY <1>1, <1>3, <1>4, <1>6, <1>7, <1>8 DEF IInv, TypeOK, Evt!TypeOK, Sources
  <1>10. Monitored'
    <2>1. call' = None \/ call'.at = "stop"
      BY <1>6
    <2> QED
      BY <1>1, <2>1, OpenedMonitor DEF m
  <1>11. Opens'
    <2>1. \A q \in Players \ mode' : tpc'[q] = "none" /\ src'[q] = Idle
      BY <1>1, <1>7 DEF IInv, Opens
    <2>2. \A q \in Players : para'[q].own => para[q].own \/ q \in Q
      BY <1>3
    <2> QED
      BY <1>1, <1>4, <1>5, <2>1, <2>2 DEF IInv, Opens, Players, UsesData, PlayerOf, Q
  <1>12. Calling'
    BY <1>1, <1>2, <1>6 DEF IInv, Calling
  <1>13. Reading'
    <2> SUFFICES ASSUME NEW p \in Players
                 PROVE  /\ tpc'[p] \notin {"none", "done"} => src'[p].data # None
                        /\ src'[p].data \in Bufs =>
                             src'[p].data \in lost'
                               \/ (para'[p].own /\ para'[p].data = src'[p].data)
      BY DEF Reading
    <2>1. CASE p = m
      BY <1>2, <1>3, <1>5, <1>7, <2>1 DEF UsesData
    <2>2. CASE p # m /\ m = "jpeg" /\ p = "video"
      <3>1. src["video"].data = None /\ tpc["video"] = "none"
        BY <1>2, <2>2 DEF IInv, Opens, Idle, Players
      <3> QED
        BY <1>7, <2>2, <3>1, AvAssumption DEF AvAssumption
    <2>3. CASE p # m /\ p \notin Q
      BY <1>3, <1>7, <2>3 DEF IInv, Reading
    <2> QED
      BY <1>5, <2>1, <2>2, <2>3 DEF UsesData
  <1>14. OwnedOnce'
    <2>1. \A q \in Players : \A b :
            Holds(q, b)' <=> IF q \in Q THEN Brings(b) ELSE Holds(q, b)
      BY <1>2, <1>3 DEF Holds, Brings
    <2>2. \A q \in Players : para'[q].own => \E b \in Bufs : Holds(q, b)'
      BY <1>2, <1>3 DEF Holds, IInv, OwnedOnce, OwnedIsMapped, TypeOK
    <2>3. call' = None \/ ~call'.own
      BY <1>6
    <2> QED
      BY <1>1, <1>3, <1>5, <2>1, <2>2, <2>3, StartHandsOver
  <1> QED
    BY <1>8, <1>9, <1>10, <1>11, <1>12, <1>13, <1>14 DEF IInv

--------------------------------------------------------------------------------
LEMMA NextIInv == IInv /\ [Next]_vars => IInv'
  <1> SUFFICES ASSUME IInv, [Next]_vars PROVE IInv'
    OBVIOUS
  <1>1. CASE CallStep
    BY <1>1, PlainStepKeeps, EndKeeps, StopThreadKeeps, CloseModeKeeps, OpenFailsKeeps,
       StartFailsKeeps, StartsKeeps DEF CallStep
  <1>2. CASE UNCHANGED vars
    <2> USE <1>2 DEF vars, device, source, ts, registry, memory
    <2>1. TypeOK'
      BY DEF IInv, TypeOK, Evt!TypeOK
    <2>2. ModesExclude' /\ Opens' /\ Monitored' /\ Calling' /\ Reading'
      BY DEF IInv, ModesExclude, Opens, Monitored, Calling, Reading, At, MonLocked
    <2>3. OwnedOnce'
      BY DEF IInv, OwnedOnce, OwnedIsMapped, MappedIsOwned, OneOwner, Holds, Brings
    <2> QED
      BY <2>1, <2>2, <2>3 DEF IInv
  <1> QED
    BY <1>1, <1>2, SourceKeeps, MonitorKeeps, VoutKeeps, ApiCallKeeps, FreeKeeps DEF Next

LEMMA Invariance == Spec => []IInv
  BY InitIInv, NextIInv, PTL DEF Spec

(* What a data source may still read is mapped, and a mapping has exactly    *)
(* one owner who will unmap it, but for those a second start of "video" has  *)
(* left behind.                                                              *)
THEOREM DataIsMappedAndOwned == Spec => []MappingsSafe
  <1>1. IInv => MappingsSafe
    <2> SUFFICES ASSUME IInv PROVE MappingsSafe
      OBVIOUS
    <2>1. ASSUME NEW p \in Players, tpc[p] \notin {"none", "done"}
          PROVE  src[p].data \in maps \cup {User}
      BY <2>1 DEF IInv, Reading, OwnedOnce, OwnedIsMapped, TypeOK
    <2>2. ASSUME NEW b \in Bufs, b \notin maps \ lost
          PROVE  Cardinality(Owners(b)) = 0
      <3>1. Owners(b) = {}
        BY <2>2, AvAssumption DEF IInv, OwnedOnce, OwnedIsMapped, Owners, AvAssumption
      <3> QED
        BY <3>1, FS_EmptySet
    <2>3. ASSUME NEW b \in maps \ lost
          PROVE  Cardinality(Owners(b)) = 1
      <3>1. b \in Bufs
        BY DEF IInv, TypeOK
      <3>2. CASE Brings(b)
        <4>1. Owners(b) = {call.by}
          BY <3>1, <3>2 DEF IInv, TypeOK, Calls, OwnedOnce, OneOwner, Owners, Brings, Holds
        <4> QED
          BY <4>1, FS_Singleton
      <3>3. ASSUME NEW p \in Players, Holds(p, b)
            PROVE  Cardinality(Owners(b)) = 1
        <4>1. Owners(b) = {p}
          BY <3>1, <3>3 DEF IInv, OwnedOnce, OneOwner, Owners, Brings, Holds
        <4> QED
          BY <4>1, FS_Singleton
      <3>4. ASSUME NEW c \in Callers, pend[c] = b
            PROVE  Cardinality(Owners(b)) = 1
        <4>1. Owners(b) = {c}
          BY <3>1, <3>4 DEF IInv, OwnedOnce, OneOwner, Owners, Brings, Holds
        <4> QED
          BY <4>1, FS_Singleton
      <3> QED
        BY <3>2, <3>3, <3>4 DEF IInv, OwnedOnce, MappedIsOwned
    <2> QED
      BY <2>1, <2>2, <2>3 DEF MappingsSafe
  <1> QED
    BY <1>1, Invariance, PTL

(* Every descriptor of the video decoder is that of the mode, or of a start  *)
(* whose second open failed.                                                 *)
LEMMA DescriptorsKeep ==
  ASSUME IInv, Descriptors, [Next]_vars
  PROVE  Descriptors'
  <1> USE AvAssumption DEF AvAssumption
  <1>1. ASSUME UNCHANGED <<mode, decoder>> PROVE Descriptors'
    BY <1>1 DEF Descriptors, decoder
  <1>2. CASE \/ UNCHANGED vars \/ (\E p \in Players : SourceStep(p))
             \/ MonitorStep \/ VoutBegin \/ VoutEnd
    <2>1. UNCHANGED <<mode, decoder>>
      BY <1>2 DEF vars, device, SourceStep, Test, Work, MonitorStep, MonWake, MonCheck, MonReopen,
                  MonSignal, VoutBegin, VoutEnd
    <2> QED
      BY <1>1, <2>1
  <1>3. ASSUME NEW c \in Callers, ApiCall(c) \/ FreePara(c) PROVE Descriptors'
    <2>1. CASE Open(c)
      <3>1. mode = {} /\ UNCHANGED <<mode, decoder>>
        BY <2>1 DEF Open, IInv, ModesExclude
      <3> QED
        BY <1>1, <3>1
    <2>2. CASE ~Open(c)
      <3>1. UNCHANGED <<mode, decoder>>
        BY <1>3, <2>2 DEF ApiCall, StartES, StartData, Jpeg, StartPlayer, Stop, Close, Set, Query,
                          FreePara, device
      <3> QED
        BY <1>1, <3>1
    <2> QED
      BY <2>1, <2>2
  <1>4. CASE Unsubscribe \/ SetSignal \/ QueryLock \/ QueryEnd \/ StopThread \/ StopEnd \/ CloseEnd
    <2>1. UNCHANGED <<mode, decoder>>
      BY <1>4 DEF Unsubscribe, SetSignal, QueryLock, QueryEnd, StopThread, StopEnd, CloseEnd, device
    <2> QED
      BY <1>1, <2>1
  <1>5. CASE CloseMode
    <2>1. call # None /\ call.todo # {} /\ call.todo \in SUBSET Modes
      BY <1>5 DEF CloseMode, IInv, TypeOK, Calling
    <2>2. First(call.todo) \in mode
      BY <2>1, FirstIsMember DEF IInv, Calling
    <2>3. PICK m \in mode : /\ mode' = mode \ {m} /\ left' = left
                            /\ vbufs' = IF m = "video" THEN vbufs - 1 ELSE vbufs
      BY <1>5, <2>2 DEF CloseMode
    <2> QED
      BY <2>3 DEF Descriptors
  <1>6. CASE OpenFails
    <2>1. mode' = mode /\ \/ UNCHANGED decoder
                          \/ left < MaxLeft /\ vbufs' = vbufs + 1 /\ left' = left + 1
      BY <1>6 DEF OpenFails
    <2> QED
      BY <2>1 DEF Descriptors, decoder
  <1>7. CASE StartFails \/ Starts
    <2>1. PICK m : /\ mode' = mode \cup {m} /\ left' = left
                   /\ vbufs' = IF m = "video" /\ m \notin mode THEN vbufs + 1 ELSE vbufs
      BY <1>7 DEF StartFails, Starts, Opened
    <2> QED
      BY <2>1 DEF Descriptors
  <1> QED
    BY <1>2, <1>3, <1>4, <1>5, <1>6, <1>7 DEF Next, CallStep

(* A mode that is on holds what opening it has made, nothing is left of one  *)
(* that is off but what the second open of "video" leaves when it fails, and *)
(* the decoder of a TS is closed only in the hands of its monitor, never     *)
(* when its status is asked.                                                 *)
THEOREM ModeHoldsItsResources == Spec => []ResourcesMatchMode
  <1>1. Init => Descriptors
    BY AvAssumption DEF AvAssumption, Init, Descriptors
  <1>2. IInv /\ Descriptors /\ [Next]_vars => Descriptors'
    BY DescriptorsKeep
  <1>3. IInv /\ Descriptors => ResourcesMatchMode
    BY DEF IInv, ResourcesMatchMode, ModesExclude, Opens, Monitored, MonLocked, Idle
  <1> QED
    BY <1>1, <1>2, <1>3, Invariance, PTL DEF Spec
================================================================================
