---------------------------- MODULE DmxDevice_proofs ----------------------------
(****************************************************************************)
(* Proofs about DmxDevice for every number of clients and filters, with or  *)
(* without driver faults, orderly closing and handlers that call            *)
(* AM_DMX_SetSource.                                                        *)
(****************************************************************************)
EXTENDS DmxDevice, TLAPS

(* DMX_FL_RUN_CB is up exactly during a round, and the data thread is in a   *)
(* handler only then.                                                        *)
FlagCoversRound ==
  /\ runCb <=> tpc \in {"scan", "call", "src"}
  /\ call # None <=> tpc \in {"call", "src"}

(* What a running filter implies: it is allocated, and if it has a           *)
(* descriptor, somebody holds it; if a handler was registered for it, the    *)
(* client of that handler does.  A filter in the poll mask that is allocated *)
(* has its descriptor; one left over from before a Close never gets there.   *)
RunningFilters ==
  /\ \A f \in Filters : enable[f] => used[f]
  /\ \A f \in Filters : bound[f] /\ cb[f] # None => Holds(cb[f], f)
  /\ \A f \in Filters : bound[f] => cb[f] # None
  /\ \A f \in fd : enable[f] => \E c \in Clients : Holds(c, f)
  /\ \A f \in mask : used[f] => f \in fd
  /\ stray => call # None

(* The life of the data thread, and what is left while and after it is       *)
(* joined: nobody waits for a broadcast that will not come.                  *)
ThreadLife ==
  /\ tpc \in {"none", "poll", "wake"} => mask = {}
  /\ life \in {"closed", "freeing"} => tpc = "none"
  /\ life = "closed" => fd = {}
  /\ \A c \in Clients : sync[c] = "waiting" => tpc \in {"scan", "call", "src", "wake"}

(* With orderly closing no filter runs without a holder, and AM_DMX_Close    *)
(* leaves behind it what it has freed.                                       *)
OrderlyFilters ==
  OrderlyClose =>
    /\ \A f \in Filters : enable[f] => \E c \in Clients : Holds(c, f)
    /\ life = "freeing" => \A f \in Filters \ left : ~used[f]
    /\ life = "closed" => \A f \in Filters : ~used[f]

(* With orderly closing there are handles only while the device is open.     *)
HandlesWhileOpen ==
  OrderlyClose /\ life # "open" =>
    \A c \in Clients, f \in Filters : ~Holds(c, f)

IndInv ==
  /\ TypeOK
  /\ FlagCoversRound
  /\ RunningFilters
  /\ ThreadLife
  /\ OrderlyFilters
  /\ Quiescence
  /\ HandlesWhileOpen
  /\ HandlesExclusive

--------------------------------------------------------------------------------
LEMMA InitIndInv == Init => IndInv
<1> SUFFICES ASSUME Init PROVE IndInv
  OBVIOUS
<1> USE DmxAssumption DEF DmxAssumption
<1>1. TypeOK
  BY DEF Init, TypeOK
<1>2. FlagCoversRound /\ RunningFilters /\ ThreadLife /\ OrderlyFilters
  BY DEF Init, FlagCoversRound, RunningFilters, ThreadLife, OrderlyFilters
<1>3. Quiescence
  BY DEF Init, Quiescence, Contract!Quiescence
<1>4. HandlesWhileOpen /\ HandlesExclusive
  BY DEF Init, HandlesWhileOpen, HandlesExclusive, Holds
<1> QED
  BY <1>1, <1>2, <1>3, <1>4 DEF IndInv

(* The parts that only the filter table operations disturb.                  *)
LEMMA AllocateStep ==
  ASSUME IndInv, NEW c \in Clients, AllocateFilter(c)
  PROVE  IndInv'
<1> USE DmxAssumption DEF DmxAssumption
<1> PICK f \in Filters :
         /\ Lowest(f, {g \in Filters : ~used[g]})
         /\ used' = [used EXCEPT ![f] = TRUE]
         /\ fd' = fd \cup {f}
         /\ bound' = [bound EXCEPT ![f] = FALSE]
         /\ st' = [st EXCEPT ![c][f] = "held"]
  BY DEF AllocateFilter
<1> UNCHANGED <<life, left, enableThread, runCb, tpc, mask, call, stray, enable, cb,
                sync, crashed>>
  BY DEF AllocateFilter, device, thread
<1> ~used[f] /\ life # "closed" /\ (OrderlyClose => life = "open")
  BY DEF Lowest, AllocateFilter, CanCall
<1>0. TypeOK
  BY DEF IndInv
<1>1. TypeOK'
  BY <1>0 DEF TypeOK
<1>2. FlagCoversRound'
  BY DEF IndInv, FlagCoversRound
<1>a. /\ \A d \in Clients, g \in Filters : Holds(d, g) => Holds(d, g)'
      /\ \A g \in Filters \ {f} : used'[g] = used[g] /\ bound'[g] = bound[g]
      /\ ~bound'[f] /\ used'[f]
  BY <1>0 DEF TypeOK, Holds
<1>3. RunningFilters'
  BY <1>0, <1>a DEF IndInv, RunningFilters, TypeOK
<1>4. ThreadLife' /\ OrderlyFilters'
  BY <1>0, <1>a DEF IndInv, ThreadLife, OrderlyFilters
<1>5. Quiescence'
  BY DEF IndInv, Quiescence, Contract!Quiescence, TypeOK
<1>6. HandlesWhileOpen'
  BY DEF IndInv, HandlesWhileOpen, TypeOK, Holds, AllocateFilter
<1>7. HandlesExclusive'
  BY DEF IndInv, HandlesExclusive, TypeOK, Holds
<1> QED
  BY <1>1, <1>2, <1>3, <1>4, <1>5, <1>6, <1>7 DEF IndInv

LEMMA ConfigureStep ==
  ASSUME IndInv, NEW c \in Clients, NEW f \in Filters,
         SetCallback(c, f) \/ SetFilter(c, f) \/ StartFilter(c, f) \/ StopFilter(c, f)
  PROVE  IndInv'
<1> USE DmxAssumption DEF DmxAssumption
<1> UNCHANGED <<life, left, enableThread, runCb, tpc, mask, call, stray, used, fd, sync,
                st, crashed>>
  BY DEF SetCallback, SetFilter, StartFilter, StopFilter, device, thread
<1> Holds(c, f) /\ used[f]
  BY DEF SetCallback, SetFilter, StartFilter, StopFilter
<1>1. TypeOK'
  <2>1. CASE SetCallback(c, f)
    BY <2>1 DEF IndInv, TypeOK, SetCallback
  <2>2. CASE SetFilter(c, f) \/ StartFilter(c, f) \/ StopFilter(c, f)
    BY <2>2 DEF IndInv, TypeOK, SetFilter, StartFilter, StopFilter, SetEnable
  <2> QED
    BY <2>1, <2>2
<1>2. FlagCoversRound'
  BY DEF IndInv, FlagCoversRound
<1>3. RunningFilters'
  <2>1. CASE SetCallback(c, f)
    BY <2>1 DEF IndInv, RunningFilters, TypeOK, Holds, SetCallback
  <2>2. CASE SetFilter(c, f) \/ StopFilter(c, f)
    BY <2>2 DEF IndInv, RunningFilters, TypeOK, Holds, SetFilter, StopFilter, SetEnable
  <2>3. CASE StartFilter(c, f)
    BY <2>3 DEF IndInv, RunningFilters, TypeOK, Holds, StartFilter, SetEnable
  <2> QED
    BY <2>1, <2>2, <2>3
<1>4. ThreadLife' /\ OrderlyFilters'
  <2>1. CASE SetCallback(c, f)
    BY <2>1 DEF IndInv, ThreadLife, OrderlyFilters, Holds, SetCallback
  <2>2. CASE SetFilter(c, f) \/ StartFilter(c, f) \/ StopFilter(c, f)
    BY <2>2 DEF IndInv, ThreadLife, OrderlyFilters, TypeOK, Holds, SetFilter, StartFilter,
       StopFilter, SetEnable
  <2> QED
    BY <2>1, <2>2
<1>5. Quiescence' /\ HandlesWhileOpen' /\ HandlesExclusive'
  BY DEF IndInv, Quiescence, Contract!Quiescence, HandlesWhileOpen,
         HandlesExclusive, Holds
<1> QED
  BY <1>1, <1>2, <1>3, <1>4, <1>5 DEF IndInv

(* dmx_free_filter touches one filter, which it leaves stopped.              *)
LEMMA ReleaseEffect ==
  ASSUME TypeOK, NEW f \in Filters, Release(f)
  PROVE  /\ used' \in [Filters -> BOOLEAN] /\ enable' \in [Filters -> BOOLEAN]
         /\ fd' \subseteq fd /\ ~enable'[f]
         /\ used'[f] => used[f] /\ enable[f] /\ (f \in fd => f \in fd')
         /\ \A g \in Filters \ {f} : /\ used'[g] = used[g] /\ enable'[g] = enable[g]
                                     /\ g \in fd => g \in fd'
<1> USE DmxAssumption DEF DmxAssumption
<1> PICK stopFails \in {FALSE, DriverFaults /\ Live(f)} :
         /\ used' = [used EXCEPT ![f] = stopFails]
         /\ fd' = IF stopFails THEN fd ELSE fd \ {f}
  BY DEF Release
<1> enable' = [enable EXCEPT ![f] = FALSE]
  BY DEF Release, SetEnable
<1>1. stopFails \in BOOLEAN
  BY DEF Live, TypeOK
<1>2. stopFails => used[f] /\ enable[f]
  BY DEF Live
<1> QED
  BY <1>1, <1>2 DEF TypeOK

LEMMA FreeStep ==
  ASSUME IndInv, NEW c \in Clients, NEW f \in Filters, FreeFilter(c, f)
  PROVE  IndInv'
<1> USE DmxAssumption DEF DmxAssumption
<1>0. /\ UNCHANGED <<life, left, enableThread, runCb, tpc, mask, call, stray, cb, sync,
                     crashed>>
      /\ st' = [st EXCEPT ![c][f] = "freed"]
      /\ bound' = [bound EXCEPT ![f] = FALSE]
      /\ Holds(c, f) /\ TypeOK
  BY DEF FreeFilter, device, thread, IndInv
<1>a. /\ used' \in [Filters -> BOOLEAN] /\ enable' \in [Filters -> BOOLEAN]
      /\ fd' \subseteq fd
      /\ used'[f] => used[f] /\ (f \in fd => f \in fd')
      /\ enable'[f] => enable[f] /\ life = "closed"
      /\ \A g \in Filters \ {f} : /\ used'[g] = used[g] /\ enable'[g] = enable[g]
                                  /\ g \in fd => g \in fd'
  <2>1. CASE life # "closed" /\ used[f]
    BY <2>1, <1>0, ReleaseEffect DEF FreeFilter
  <2>2. CASE ~(life # "closed" /\ used[f])
    <3> UNCHANGED <<used, enable, fd>>
      BY <2>2 DEF FreeFilter
    <3> enable[f] => life = "closed"
      BY <2>2 DEF IndInv, RunningFilters
    <3> QED
      BY <1>0 DEF TypeOK
  <2> QED
    BY <2>1, <2>2
<1>b. /\ \A d \in Clients, g \in Filters : g # f => (Holds(d, g)' <=> Holds(d, g))
      /\ \A d \in Clients : Holds(d, f)' => Holds(d, f)
      /\ ~bound'[f] /\ \A g \in Filters \ {f} : bound'[g] = bound[g]
  BY <1>0 DEF TypeOK, Holds
<1>1. TypeOK'
  BY <1>0, <1>a DEF TypeOK
<1>2. FlagCoversRound'
  BY <1>0 DEF IndInv, FlagCoversRound
<1>3. RunningFilters'
  <2>1. \A g \in Filters : enable'[g] => used'[g]
    <3>1. CASE life = "closed"
      <4> UNCHANGED <<used, enable>>
        BY <3>1 DEF FreeFilter
      <4> QED
        BY DEF IndInv, RunningFilters
    <3>2. CASE life # "closed"
      BY <3>2, <1>a DEF IndInv, RunningFilters
    <3> QED
      BY <3>1, <3>2
  <2>2. \A g \in Filters : bound'[g] => cb'[g] # None /\ Holds(cb[g], g)'
    <3> SUFFICES ASSUME NEW g \in Filters, bound'[g]
                 PROVE  cb'[g] # None /\ Holds(cb[g], g)'
      OBVIOUS
    <3>1. g # f /\ bound[g]
      BY <1>b
    <3>2. cb[g] # None /\ cb[g] \in Clients /\ Holds(cb[g], g)
      BY <3>1, <1>0 DEF IndInv, RunningFilters, TypeOK
    <3> QED
      BY <3>1, <3>2, <1>0, <1>b
  <2>3. \A g \in fd' : enable'[g] => \E d \in Clients : Holds(d, g)'
    <3> SUFFICES ASSUME NEW g \in fd', enable'[g]
                 PROVE  \E d \in Clients : Holds(d, g)'
      OBVIOUS
    <3>1. g \in fd /\ g \in Filters
      BY <1>0, <1>a DEF TypeOK
    <3>2. g # f
      BY <3>1, <1>a DEF IndInv, ThreadLife
    <3>3. PICK d \in Clients : Holds(d, g)
      BY <1>a, <3>1, <3>2 DEF IndInv, RunningFilters
    <3> QED
      BY <1>b, <3>1, <3>2, <3>3
  <2>4. \A g \in mask' : used'[g] => g \in fd'
    BY <1>0, <1>a DEF IndInv, RunningFilters, TypeOK
  <2>5. stray' => call' # None
    BY <1>0 DEF IndInv, RunningFilters
  <2> QED
    BY <1>0, <2>1, <2>2, <2>3, <2>4, <2>5 DEF RunningFilters, Holds
<1>4. ThreadLife'
  BY <1>0, <1>a DEF IndInv, ThreadLife
<1>5. OrderlyFilters'
  <2> SUFFICES ASSUME OrderlyClose PROVE OrderlyFilters'
    BY DEF OrderlyFilters
  <2>1. \A g \in Filters : enable'[g] => \E d \in Clients : Holds(d, g)'
    <3> SUFFICES ASSUME NEW g \in Filters, enable'[g]
                 PROVE  \E d \in Clients : Holds(d, g)'
      OBVIOUS
    <3>1. enable[g]
      BY <1>a
    <3>2. g # f
      <4> SUFFICES ASSUME g = f PROVE FALSE
        OBVIOUS
      <4>1. life = "closed"
        BY <1>a
      <4> QED
        BY <4>1, <1>0 DEF IndInv, HandlesWhileOpen
    <3>3. PICK d \in Clients : Holds(d, g)
      BY <3>1 DEF IndInv, OrderlyFilters
    <3> QED
      BY <1>b, <3>2, <3>3
  <2> QED
    BY <1>0, <1>a, <2>1 DEF IndInv, OrderlyFilters
<1>6. Quiescence'
  BY <1>0 DEF IndInv, Quiescence, Contract!Quiescence, TypeOK
<1>7. HandlesWhileOpen'
  BY <1>0 DEF IndInv, HandlesWhileOpen, TypeOK, Holds
<1>8. HandlesExclusive'
  <2> SUFFICES ASSUME OrderlyClose, NEW d \in Clients, NEW g \in Filters, Holds(d, g)'
               PROVE  /\ used'[g]
                      /\ \A e \in Clients \ {d} : ~Holds(e, g)'
    BY DEF HandlesExclusive, Holds
  <2>1. Holds(d, g) /\ used[g] /\ \A e \in Clients \ {d} : ~Holds(e, g)
    BY <1>b DEF IndInv, HandlesExclusive
  <2>2. g # f
    <3> SUFFICES ASSUME g = f PROVE FALSE
      OBVIOUS
    <3>1. d = c
      BY <1>0, <2>1
    <3> QED
      BY <1>0, <3>1 DEF TypeOK, Holds
  <2> QED
    BY <1>a, <1>b, <2>1, <2>2
<1> QED
  BY <1>1, <1>2, <1>3, <1>4, <1>5, <1>6, <1>7, <1>8 DEF IndInv

(* The steps of AM_DMX_Sync: a client's view moves to "quiet" only when no   *)
(* round is in progress, hence no handler is running.                        *)
LEMMA SyncStep ==
  ASSUME IndInv, NEW c \in Clients,
         \/ SyncWait(c) \/ SyncAtOnce(c) \/ SyncAgain(c)
         \/ SpuriousWake(c) \/ SyncReturn(c)
  PROVE  IndInv'
<1> USE DmxAssumption DEF DmxAssumption
<1>0. UNCHANGED <<life, left, enableThread, runCb, used, enable, cb, fd, bound, tpc,
                  mask, call, stray, crashed>>
  BY DEF SyncWait, SyncAtOnce, SyncAgain, SpuriousWake, SyncReturn, device, table, thread
<1>a. /\ st' \in [Clients -> [Filters -> {"held", "freed", "syncing", "quiet"}]]
      /\ \A d \in Clients, f \in Filters : Holds(d, f) <=> Holds(d, f)'
  <2>1. CASE SyncAgain(c) \/ SpuriousWake(c)
    BY <2>1 DEF SyncAgain, SpuriousWake, IndInv, TypeOK, Holds
  <2>2. CASE SyncWait(c)
    BY <2>2 DEF SyncWait, Mark, IndInv, TypeOK, Holds
  <2>3. CASE SyncAtOnce(c)
    BY <2>3 DEF SyncAtOnce, Mark, IndInv, TypeOK, Holds
  <2>4. CASE SyncReturn(c)
    BY <2>4 DEF SyncReturn, Mark, IndInv, TypeOK, Holds
  <2> QED
    BY <2>1, <2>2, <2>3, <2>4
<1>b. TypeOK /\ fd \subseteq Filters
  BY DEF IndInv, TypeOK
<1>1. TypeOK'
  BY <1>0, <1>a DEF IndInv, TypeOK, SyncWait, SyncAtOnce, SyncAgain, SpuriousWake, SyncReturn
<1>2. FlagCoversRound'
  BY <1>0 DEF IndInv, FlagCoversRound
<1>3. RunningFilters'
  <2>1. \A f \in Filters : bound'[f] => cb'[f] # None /\ Holds(cb[f], f)'
    BY <1>0, <1>a, <1>b DEF IndInv, RunningFilters, TypeOK
  <2>2. \A f \in fd' : enable'[f] => \E d \in Clients : Holds(d, f)'
    BY <1>0, <1>a, <1>b DEF IndInv, RunningFilters
  <2> QED
    BY <1>0, <2>1, <2>2 DEF IndInv, RunningFilters, Holds
<1>4. ThreadLife'
  <2>1. CASE SyncWait(c) \/ SyncAgain(c)
    <3> runCb
      BY <2>1 DEF SyncWait, SyncAgain
    <3> tpc \in {"scan", "call", "src"}
      BY DEF IndInv, FlagCoversRound
    <3> QED
      BY <1>0, <2>1 DEF IndInv, ThreadLife, SyncWait, SyncAgain
  <2>2. CASE SyncAtOnce(c) \/ SpuriousWake(c) \/ SyncReturn(c)
    BY <1>0, <2>2, <1>b DEF IndInv, ThreadLife, TypeOK, SyncAtOnce, SpuriousWake, SyncReturn
  <2> QED
    BY <2>1, <2>2
<1>5. OrderlyFilters'
  BY <1>0, <1>a DEF IndInv, OrderlyFilters
<1>6. Quiescence'
  <2>1. CASE SyncAtOnce(c) \/ SyncReturn(c)
    <3> call = None
      BY <2>1 DEF IndInv, FlagCoversRound, ThreadLife, SyncAtOnce, SyncReturn
    <3> QED
      BY <1>0 DEF Quiescence, Contract!Quiescence
  <2>2. CASE SyncWait(c) \/ SyncAgain(c) \/ SpuriousWake(c)
    BY <2>2, <1>0 DEF IndInv, Quiescence, Contract!Quiescence, TypeOK, SyncWait,
       SyncAgain, SpuriousWake, Mark
  <2> QED
    BY <2>1, <2>2
<1>7. HandlesWhileOpen' /\ HandlesExclusive'
  BY <1>0, <1>a DEF IndInv, HandlesWhileOpen, HandlesExclusive
<1> QED
  BY <1>1, <1>2, <1>3, <1>4, <1>5, <1>6, <1>7 DEF IndInv

(* What a captured handler is: one that was registered for the filter, whose *)
(* client then holds it, or a stray one.                                     *)
LEMMA CaptureEffect ==
  ASSUME IndInv, NEW f \in Filters, Capture(f)
  PROVE  /\ cb[f] \in Clients /\ call' = <<f, cb[f]>> /\ stray' \in BOOLEAN
         /\ ~stray' => Holds(cb[f], f)
<1> USE DmxAssumption DEF DmxAssumption
<1>1. /\ cb[f] \in Clients /\ call' = <<f, cb[f]>>
      /\ stray' = (~bound[f] /\ \E c \in Clients : Holds(c, f))
      /\ used[f] /\ enable[f] /\ f \in mask
  BY DEF Capture, Live, Lowest, IndInv, TypeOK
<1>2. \E c \in Clients : Holds(c, f)
  BY <1>1 DEF IndInv, RunningFilters
<1>3. bound[f] => Holds(cb[f], f)
  BY <1>1 DEF IndInv, RunningFilters
<1> QED
  BY <1>1, <1>2, <1>3

(* The data thread.                                                          *)
LEMMA ThreadPreserves ==
  ASSUME IndInv, Poll \/ ThreadRound
  PROVE  IndInv'
<1> USE DmxAssumption DEF DmxAssumption
<1>0. UNCHANGED <<life, left, enableThread, used, enable, cb, fd, bound, st, crashed>>
  BY DEF Poll, ThreadRound, SetRunCb, Skip, Capture, HandlerReturns, HandlerSetSource,
         ClearRunCb, Broadcast, ThreadExit, device, table
<1>1. TypeOK'
  <2>1. mask' \in SUBSET Filters
    BY DEF IndInv, TypeOK, Poll, ThreadRound, SetRunCb, Skip, Capture, HandlerReturns,
         HandlerSetSource, ClearRunCb, Broadcast, ThreadExit
  <2>2. call' \in (Filters \X Clients) \cup {None} /\ stray' \in BOOLEAN
    <3>1. ASSUME NEW f \in Filters, Capture(f)
          PROVE  call' \in (Filters \X Clients) \cup {None} /\ stray' \in BOOLEAN
      BY <3>1, CaptureEffect
    <3>2. ASSUME ~(\E f \in Filters : Capture(f))
          PROVE  call' \in (Filters \X Clients) \cup {None} /\ stray' \in BOOLEAN
      BY <3>2 DEF IndInv, TypeOK, Poll, ThreadRound, SetRunCb, Skip, HandlerReturns,
         HandlerSetSource, ClearRunCb, Broadcast, ThreadExit
    <3> QED
      BY <3>1, <3>2
  <2>3. /\ tpc' \in {"none", "poll", "mark", "scan", "call", "src", "wake"}
        /\ runCb' \in BOOLEAN
        /\ sync' \in [Clients -> {"out", "waiting", "woken"}]
    BY DEF IndInv, TypeOK, Poll, ThreadRound, SetRunCb, Skip, Capture, HandlerReturns,
         HandlerSetSource, ClearRunCb, Broadcast, ThreadExit, device
  <2> QED
    BY <1>0, <2>1, <2>2, <2>3 DEF IndInv, TypeOK
<1>2. FlagCoversRound' /\ Quiescence' /\ (stray' => call' # None)
  <2>1. ASSUME NEW f \in Filters, Capture(f)
        PROVE  FlagCoversRound' /\ Quiescence' /\ (stray' => call' # None)
    <3> DEFINE c == cb[f]
    <3>1. c \in Clients /\ call' = <<f, c>> /\ (~stray' => Holds(c, f))
      BY <2>1, CaptureEffect
    <3>2. FlagCoversRound'
      BY <2>1, <3>1 DEF IndInv, FlagCoversRound, Capture, device
    <3>3. Quiescence'
      BY <1>0, <3>1 DEF Quiescence, Contract!Quiescence, Holds
    <3> QED
      BY <3>1, <3>2, <3>3
  <2>2. ASSUME ~(\E f \in Filters : Capture(f))
        PROVE  FlagCoversRound' /\ Quiescence' /\ (stray' => call' # None)
    <3>1. \/ call' = call /\ stray' = stray
          \/ call' = None /\ stray' = FALSE
      BY <2>2 DEF Poll, ThreadRound, SetRunCb, Skip, HandlerReturns, HandlerSetSource,
         ClearRunCb, Broadcast, ThreadExit
    <3>2. FlagCoversRound'
      BY <2>2 DEF IndInv, FlagCoversRound, Poll, ThreadRound, SetRunCb, Skip,
         HandlerReturns, HandlerSetSource, ClearRunCb, Broadcast, ThreadExit, device
    <3>3. Quiescence'
      BY <1>0, <3>1 DEF IndInv, Quiescence, Contract!Quiescence
    <3> QED
      BY <3>1, <3>2, <3>3 DEF IndInv, RunningFilters
  <2> QED
    BY <2>1, <2>2
<1>3. \A f \in mask' : used'[f] => f \in fd'
  <2>1. mask' \subseteq mask \cup fd
    BY DEF Poll, ThreadRound, SetRunCb, Skip, Capture, HandlerReturns,
       HandlerSetSource, ClearRunCb, Broadcast, ThreadExit
  <2> QED
    BY <1>0, <2>1 DEF IndInv, RunningFilters
<1>4. RunningFilters'
  BY <1>0, <1>2, <1>3 DEF IndInv, RunningFilters, Holds
<1>5. ThreadLife'
  <2>1. tpc' \in {"none", "poll", "wake"} => mask' = {}
    BY DEF IndInv, ThreadLife, Poll, ThreadRound, SetRunCb, Skip, Capture, HandlerReturns,
       HandlerSetSource, ClearRunCb, Broadcast, ThreadExit
  <2>2. \A c \in Clients : sync'[c] = "waiting" => tpc' \in {"scan", "call", "src", "wake"}
    <3>1. CASE Broadcast
      BY <3>1 DEF IndInv, TypeOK, Broadcast
    <3>2. CASE ~Broadcast
      BY <3>2 DEF IndInv, ThreadLife, Poll, ThreadRound, SetRunCb, Skip, Capture,
         HandlerReturns, HandlerSetSource, ClearRunCb, ThreadExit
    <3> QED
      BY <3>1, <3>2
  <2>3. tpc # "none"
    BY DEF Poll, ThreadRound, SetRunCb, Skip, Capture, HandlerReturns,
       HandlerSetSource, ClearRunCb, Broadcast, ThreadExit
  <2> QED
    BY <1>0, <2>1, <2>2, <2>3 DEF IndInv, ThreadLife
<1>6. OrderlyFilters' /\ HandlesWhileOpen' /\ HandlesExclusive'
  BY <1>0 DEF IndInv, OrderlyFilters, HandlesWhileOpen, HandlesExclusive, Holds
<1> QED
  BY <1>1, <1>2, <1>4, <1>5, <1>6 DEF IndInv

(* AM_DMX_Open and AM_DMX_Close.                                             *)
LEMMA OpenCloseStep ==
  ASSUME IndInv, Open \/ CloseBegin \/ CloseJoins \/ CloseEnd \/ CloseTwice
  PROVE  IndInv'
<1> USE DmxAssumption DEF DmxAssumption
<1>0. UNCHANGED <<used, enable, cb, bound, call, stray, st, mask, sync>>
  BY DEF Open, CloseBegin, CloseJoins, CloseEnd, CloseTwice, table, thread
<1>1. TypeOK'
  <2>1. CASE Open \/ CloseBegin \/ CloseJoins
    BY <2>1, <1>0 DEF IndInv, TypeOK, Open, CloseBegin, CloseJoins, table, thread
  <2>2. CASE CloseEnd \/ CloseTwice
    BY <2>2, <1>0 DEF IndInv, TypeOK, CloseEnd, CloseTwice, device, table, thread
  <2> QED
    BY <2>1, <2>2
<1>2. FlagCoversRound'
  BY <1>0 DEF IndInv, FlagCoversRound, ThreadLife, Open, CloseBegin, CloseJoins, CloseEnd,
     CloseTwice, device, table, thread
<1>3. RunningFilters'
  <2>1. CASE CloseEnd
    <3> mask = {} /\ fd' = {}
      BY <2>1 DEF CloseEnd, IndInv, ThreadLife
    <3> QED
      BY <1>0 DEF IndInv, RunningFilters, Holds
  <2>2. CASE Open \/ CloseBegin \/ CloseJoins \/ CloseTwice
    BY <1>0, <2>2 DEF IndInv, RunningFilters, Holds, Open, CloseBegin, CloseJoins,
       CloseTwice, table
  <2> QED
    BY <2>1, <2>2
<1>4. ThreadLife'
  <2>1. CASE Open
    BY <2>1, <1>0 DEF IndInv, ThreadLife, Open, table
  <2>2. CASE CloseBegin
    BY <2>2, <1>0 DEF IndInv, ThreadLife, CloseBegin, table, thread
  <2>3. CASE CloseJoins
    BY <2>3, <1>0 DEF IndInv, ThreadLife, CloseJoins, table, thread
  <2>4. CASE CloseEnd
    BY <2>4, <1>0 DEF IndInv, ThreadLife, CloseEnd, thread
  <2>5. CASE CloseTwice
    BY <2>5, <1>0 DEF IndInv, ThreadLife, CloseTwice, device, table, thread
  <2> QED
    BY <2>1, <2>2, <2>3, <2>4, <2>5
<1>5. OrderlyFilters'
  BY <1>0 DEF IndInv, OrderlyFilters, Holds, Open, CloseBegin, CloseJoins, CloseEnd,
     CloseTwice, device
<1>6. Quiescence'
  BY <1>0 DEF IndInv, Quiescence, Contract!Quiescence
<1>7. HandlesWhileOpen' /\ HandlesExclusive'
  BY <1>0 DEF IndInv, HandlesWhileOpen, HandlesExclusive, Holds, Open, CloseBegin,
     CloseJoins, CloseEnd, CloseTwice, device
<1> QED
  BY <1>1, <1>2, <1>3, <1>4, <1>5, <1>6, <1>7 DEF IndInv

(* One turn of the loop of AM_DMX_Close.  With orderly closing nobody holds  *)
(* a filter then, so the one it frees is not running and its STOP cannot     *)
(* fail: also a filter that nobody knew of is given back.                    *)
LEMMA CloseFreesStep ==
  ASSUME IndInv, NEW f \in Filters, CloseFrees(f)
  PROVE  IndInv'
<1> USE DmxAssumption DEF DmxAssumption
<1>0. /\ UNCHANGED <<life, enableThread, runCb, cb, tpc, mask, call, stray, sync, st,
                     crashed>>
      /\ bound' = [bound EXCEPT ![f] = bound[f] /\ used'[f]]
      /\ left' = left \ {f} /\ life = "freeing"
      /\ TypeOK
  BY DEF CloseFrees, thread, IndInv
<1>a. /\ used' \in [Filters -> BOOLEAN] /\ enable' \in [Filters -> BOOLEAN]
      /\ fd' \subseteq fd /\ ~enable'[f]
      /\ used'[f] => used[f] /\ enable[f] /\ (f \in fd => f \in fd')
      /\ \A g \in Filters \ {f} : /\ used'[g] = used[g] /\ enable'[g] = enable[g]
                                  /\ g \in fd => g \in fd'
  BY <1>0, ReleaseEffect DEF CloseFrees
<1>b. \A g \in Filters : bound'[g] => bound[g]
  BY <1>0 DEF TypeOK
<1>c. \A d \in Clients, g \in Filters : Holds(d, g)' <=> Holds(d, g)
  BY <1>0 DEF Holds
<1>1. TypeOK'
  BY <1>0, <1>a DEF TypeOK
<1>2. FlagCoversRound' /\ Quiescence' /\ HandlesWhileOpen'
  BY <1>0 DEF IndInv, FlagCoversRound, Quiescence, Contract!Quiescence, HandlesWhileOpen,
     Holds
<1>3. RunningFilters'
  <2>1. \A g \in Filters : enable'[g] => enable[g] /\ used'[g]
    BY <1>a DEF IndInv, RunningFilters
  <2>2. \A g \in Filters : bound'[g] => cb'[g] # None /\ Holds(cb[g], g)'
    BY <1>0, <1>b DEF IndInv, RunningFilters, Holds
  <2>3. \A g \in fd' : enable'[g] => \E d \in Clients : Holds(d, g)'
    BY <1>0, <1>a, <1>c, <2>1 DEF IndInv, RunningFilters, TypeOK
  <2>4. mask = {}
    BY <1>0 DEF IndInv, ThreadLife
  <2>5. stray' => call' # None
    BY <1>0 DEF IndInv, RunningFilters
  <2> QED
    BY <1>0, <2>1, <2>2, <2>3, <2>4, <2>5 DEF RunningFilters, Holds
<1>4. ThreadLife'
  BY <1>0, <1>a DEF IndInv, ThreadLife
<1>5. OrderlyFilters'
  <2> SUFFICES ASSUME OrderlyClose PROVE OrderlyFilters'
    BY DEF OrderlyFilters
  <2>1. \A g \in Filters : ~enable[g]
    BY <1>0 DEF IndInv, OrderlyFilters, HandlesWhileOpen
  <2>2. \A g \in Filters : ~enable'[g]
    BY <1>a, <2>1
  <2>3. \A g \in Filters \ left' : ~used'[g]
    <3> SUFFICES ASSUME NEW g \in Filters \ left' PROVE ~used'[g]
      OBVIOUS
    <3>1. CASE g = f
      BY <3>1, <1>a, <2>1
    <3>2. CASE g # f
      BY <3>2, <1>0, <1>a DEF IndInv, OrderlyFilters
    <3> QED
      BY <3>1, <3>2
  <2> QED
    BY <1>0, <2>2, <2>3 DEF OrderlyFilters
<1>6. HandlesExclusive'
  BY <1>0, <1>c DEF IndInv, HandlesExclusive, HandlesWhileOpen
<1> QED
  BY <1>1, <1>2, <1>3, <1>4, <1>5, <1>6 DEF IndInv

LEMMA CrashStep ==
  ASSUME IndInv, NEW c \in Clients, NEW f \in Filters, StartStopUnallocated(c, f)
  PROVE  IndInv'
<1> UNCHANGED <<device, table, thread, sync, st>> /\ crashed' = TRUE
  BY DEF StartStopUnallocated
<1>1. TypeOK'
  BY DEF device, table, thread, IndInv, TypeOK
<1> QED
  BY <1>1 DEF device, table, thread, IndInv, FlagCoversRound, RunningFilters, ThreadLife,
     OrderlyFilters, Quiescence, Contract!Quiescence, HandlesWhileOpen, HandlesExclusive,
     Holds

LEMMA NextIndInv == IndInv /\ [Next]_vars => IndInv'
<1> SUFFICES ASSUME IndInv, [Next]_vars
             PROVE  IndInv'
  OBVIOUS
<1>1. ASSUME NEW c \in Clients, ClientStep(c)
      PROVE  IndInv'
  BY <1>1, AllocateStep, ConfigureStep, FreeStep, CrashStep, SyncStep DEF ClientStep
<1>2. CASE Poll \/ ThreadRound
  BY <1>2, ThreadPreserves
<1>3. CASE Open \/ CloseBegin \/ CloseTwice \/ CloseStep
  BY <1>3, OpenCloseStep, CloseFreesStep DEF CloseStep
<1>4. CASE UNCHANGED vars
  BY <1>4 DEF vars, device, table, thread, IndInv, TypeOK, FlagCoversRound, RunningFilters,
     ThreadLife, OrderlyFilters, Quiescence, Contract!Quiescence, HandlesWhileOpen,
     HandlesExclusive, Holds
<1> QED
  BY <1>1, <1>2, <1>3, <1>4 DEF Next

--------------------------------------------------------------------------------
(* The invariant holds of every reachable state.                             *)
THEOREM Invariance == Spec => []IndInv
  BY InitIndInv, NextIndInv, PTL DEF Spec

(* Every variable of the device keeps its type.                              *)
THEOREM TypeCorrect == Spec => []TypeOK
<1>1. IndInv => TypeOK
  BY DEF IndInv
<1> QED
  BY <1>1, Invariance, PTL

(* When AM_DMX_Sync has returned, the handlers of the filters the client     *)
(* freed before it are over, for any number of clients and filters.          *)
THEOREM SyncQuiesces == Spec => []Quiescence
<1>1. IndInv => Quiescence
  BY DEF IndInv
<1> QED
  BY <1>1, Invariance, PTL

(* No two clients ever share a filter handle of an orderly closed device.    *)
THEOREM HandlesAreExclusive == Spec => []HandlesExclusive
<1>1. IndInv => HandlesExclusive
  BY DEF IndInv
<1> QED
  BY <1>1, Invariance, PTL

--------------------------------------------------------------------------------
(* Between AM_DMX_Close and the next Open no thread, no handler and no       *)
(* sleeper is left; and no filter, if it was closed when nobody held one,    *)
(* also when DMX_STOP failed for some before.                                *)
THEOREM ClosedIsIdle == Spec => []ClosedDeviceIsIdle
<1>1. IndInv => ClosedDeviceIsIdle
  <2> SUFFICES ASSUME IndInv, life = "closed"
               PROVE  /\ tpc = "none" /\ call = None /\ ~runCb
                      /\ \A c \in Clients : sync[c] # "waiting"
                      /\ OrderlyClose => \A f \in Filters : ~used[f] /\ ~enable[f]
    BY DEF ClosedDeviceIsIdle
  <2>1. tpc = "none"
    BY DEF IndInv, ThreadLife
  <2>2. call = None /\ ~runCb
    BY <2>1 DEF IndInv, FlagCoversRound
  <2>3. \A c \in Clients : sync[c] # "waiting"
    BY <2>1 DEF IndInv, ThreadLife
  <2>4. OrderlyClose => \A f \in Filters : ~used[f] /\ ~enable[f]
    BY DEF IndInv, OrderlyFilters, RunningFilters
  <2> QED
    BY <2>1, <2>2, <2>3, <2>4
<1> QED
  BY <1>1, Invariance, PTL

--------------------------------------------------------------------------------
(* Step simulation of DmxContract.                                           *)
LEMMA ClientSimulates ==
  ASSUME IndInv, NEW c \in Clients, ClientStep(c)
  PROVE  [Contract!Next]_(Contract!vars)
<1> USE DmxAssumption DEF DmxAssumption
<1>1. CASE AllocateFilter(c)
  <2> PICK f \in Filters : st' = [st EXCEPT ![c][f] = "held"]
    BY <1>1 DEF AllocateFilter
  <2> Contract!Take(c, f)
    BY <1>1 DEF AllocateFilter, thread, Contract!Take
  <2> QED
    BY DEF Contract!Next
<1>2. ASSUME NEW f \in Filters, FreeFilter(c, f)
      PROVE  Contract!Next
  <2> Contract!Release(c, f)
    BY <1>2 DEF FreeFilter, thread, Holds, Contract!Release
  <2> QED
    BY DEF Contract!Next
<1>3. CASE SyncWait(c)
  <2> Contract!SyncBegin(c)
    BY <1>3 DEF SyncWait, Mark, thread, Contract!SyncBegin
  <2> QED
    BY DEF Contract!Next
<1>4. CASE SyncAtOnce(c)
  <2>1. call = None
    BY <1>4 DEF IndInv, FlagCoversRound, ThreadLife, SyncAtOnce
  <2>2. Contract!SyncEnd(c, "freed")
    BY <1>4, <2>1 DEF SyncAtOnce, Mark, thread, Contract!SyncEnd
  <2> QED
    BY <2>2 DEF Contract!Next
<1>5. CASE SyncReturn(c)
  <2>1. call = None
    BY <1>5 DEF IndInv, FlagCoversRound, SyncReturn
  <2>2. Contract!SyncEnd(c, "syncing")
    BY <1>5, <2>1 DEF SyncReturn, Mark, thread, Contract!SyncEnd
  <2> QED
    BY <2>2 DEF Contract!Next
<1>6. CASE \/ SyncAgain(c) \/ SpuriousWake(c)
           \/ \E f \in Filters : \/ SetCallback(c, f) \/ SetFilter(c, f)
                                \/ StartFilter(c, f) \/ StopFilter(c, f)
                                \/ StartStopUnallocated(c, f)
  <2> st' = st /\ call' = call /\ stray' = stray
    BY <1>6 DEF SyncAgain, SpuriousWake, SetCallback, SetFilter, StartFilter, StopFilter,
       StartStopUnallocated, thread
  <2> QED
    BY DEF Contract!vars
<1> QED
  BY <1>1, <1>2, <1>3, <1>4, <1>5, <1>6 DEF ClientStep

LEMMA ThreadSimulates ==
  ASSUME IndInv, Poll \/ ThreadRound
  PROVE  [Contract!Next]_(Contract!vars)
<1> USE DmxAssumption DEF DmxAssumption
<1>1. ASSUME NEW f \in Filters, Capture(f)
      PROVE  [Contract!Next]_(Contract!vars)
  <2> DEFINE c == cb[f]
  <2>1. /\ c \in Clients /\ call' = <<f, c>> /\ stray' \in BOOLEAN
        /\ ~stray' => Holds(c, f)
    BY <1>1, CaptureEffect
  <2>2. call = None /\ ~stray /\ st' = st
    BY <1>1 DEF Capture, IndInv, FlagCoversRound, RunningFilters
  <2>3. CASE ~stray'
    <3>1. Contract!Deliver(c, f)
      BY <2>1, <2>2, <2>3 DEF Holds, Contract!Deliver
    <3> QED
      BY <2>1, <3>1 DEF Contract!Next
  <2>4. CASE stray'
    BY <2>2, <2>4 DEF Contract!vars
  <2> QED
    BY <2>1, <2>3, <2>4
<1>2. CASE HandlerReturns
  <2>1. call # None /\ call' = None /\ stray' = FALSE /\ st' = st
    BY <1>2 DEF HandlerReturns, IndInv, FlagCoversRound
  <2>2. CASE stray
    BY <2>1, <2>2 DEF Contract!vars
  <2>3. CASE ~stray
    <3> Contract!Return
      BY <2>1, <2>3 DEF Contract!Return
    <3> QED
      BY DEF Contract!Next
  <2> QED
    BY <2>2, <2>3
<1>3. ASSUME ~HandlerReturns, ~(\E f \in Filters : Capture(f))
      PROVE  UNCHANGED Contract!vars
  BY <1>3 DEF Poll, ThreadRound, SetRunCb, Skip, HandlerSetSource, ClearRunCb, Broadcast,
     ThreadExit, Contract!vars
<1> QED
  BY <1>1, <1>2, <1>3

(* The device, with its threads, flag, lock and driver, is an implementation *)
(* of DmxContract for the handlers that are registered with it, for every    *)
(* value of the constants; filters that are started without a handler of     *)
(* their own, and what runs for them, are no part of the contract.           *)
THEOREM Implementation == Spec => ImplementsContract
<1> USE DEF ImplementsContract
<1>1. Init => Contract!Init
  BY DEF Init, Contract!Init
<1>2. IndInv /\ [Next]_vars => [Contract!Next]_(Contract!vars)
  <2> SUFFICES ASSUME IndInv, [Next]_vars
               PROVE  [Contract!Next]_(Contract!vars)
    OBVIOUS
  <2>1. CASE \E c \in Clients : ClientStep(c)
    BY <2>1, ClientSimulates
  <2>2. CASE Poll \/ ThreadRound
    BY <2>2, ThreadSimulates
  <2>3. CASE \/ Open \/ CloseBegin \/ CloseTwice \/ CloseStep
            \/ UNCHANGED vars
    BY <2>3 DEF Open, CloseBegin, CloseTwice, CloseStep, CloseJoins, CloseFrees, CloseEnd,
       thread, vars, Contract!vars
  <2> QED
    BY <2>1, <2>2, <2>3 DEF Next
<1> QED
  BY <1>1, <1>2, Invariance, PTL DEF Spec, Contract!Spec
================================================================================
