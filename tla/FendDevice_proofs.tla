---------------------------- MODULE FendDevice_proofs ----------------------------
(****************************************************************************)
(* Proofs about FendDevice.  Types and the protection of a running callback *)
(* hold for any number of threads; what AM_FEND_Lock promises its caller is *)
(* proved for a device with a single locking thread: with two it is false   *)
(* (MCFendDevice_twolocks.cfg).                                             *)
(****************************************************************************)
EXTENDS FendDevice, TLAPS

SingleLocker == \A l, m \in Lockers : l = m

(* FEND_FL_RUN_CB is up exactly during a round of the monitor thread.        *)
FlagCoversRound ==
  /\ runCb <=> tpc \in {"run", "cb", "flag", "chain", "signal"}
  /\ life = "closed" => tpc = "none"

(* A callback runs only about a fetched event.                               *)
CallbackHasEvent ==
  /\ cur # None <=> tpc \in {"cb", "flag", "chain"}
  /\ tpc \in {"cb", "flag", "chain"} => evt \in Event

(* Nobody is inside AM_FEND_Lock on a device that is not open.               *)
LocksWhileOpen == life # "open" => \A l \in Lockers : lpc[l] = "out"

(* A lock in progress remembers a callback of the application, and has its   *)
(* status by the time FEND_FL_LOCK is down.                                  *)
LockProgress ==
  \A l \in Lockers :
    /\ InLock(l) => lockp[l].old \in UserCb
    /\ InLock(l) /\ ~lockFlag => lockp[l].status # None
    /\ tpc \in {"flag", "chain"} /\ cur = LockCb(l) => lockp[l].status # None

LockInv == NoDanglingLock /\ LockProgress /\ LockReturnsStatus

IndInv ==
  /\ TypeOK
  /\ FlagCoversRound
  /\ CallbackHasEvent
  /\ LocksWhileOpen
  /\ SingleLocker => LockInv

--------------------------------------------------------------------------------
LEMMA LockCbDistinct ==
  ASSUME NEW l \in Lockers
  PROVE  LockCb(l) \notin UserCb
  BY FendAssumption DEF FendAssumption, LockCb, UserCb

LEMMA LockCbIsCallback ==
  ASSUME NEW l \in Lockers
  PROVE  LockCb(l) \in Callback /\ LockCb(l) # None
  BY LockCbDistinct DEF Callback, UserCb

LEMMA InitIndInv == Init => IndInv
<1> SUFFICES ASSUME Init PROVE IndInv
  OBVIOUS
<1>1. TypeOK
  BY DEF Init, TypeOK, Callback, UserCb, LockPara
<1>2. FlagCoversRound /\ CallbackHasEvent /\ LocksWhileOpen
  BY DEF Init, FlagCoversRound, CallbackHasEvent, LocksWhileOpen
<1>3. LockInv
  BY LockCbIsCallback
     DEF Init, LockInv, NoDanglingLock, LockProgress, LockReturnsStatus, InLock
<1> QED
  BY <1>1, <1>2, <1>3 DEF IndInv

--------------------------------------------------------------------------------
(* Retuning leaves the event alone.                                          *)
LEMMA TuneKeepsEvent ==
  ASSUME TypeOK, NEW p \in Paras, Tune(p)
  PROVE  /\ tuned' \in Paras \cup {None}
         /\ evt' \in Event \cup {None}
         /\ evt \in Event => evt' \in Event
<1>1. CASE evt = None
  BY <1>1 DEF Tune, TypeOK
<1>2. CASE evt # None
  BY <1>2 DEF Tune, TypeOK, Event
<1> QED
  BY <1>1, <1>2

(* The rounds of the monitor thread that leave the locks alone.              *)
QuietRound ==
  \/ Fetch \/ SetRunCb \/ CallCb \/ UserCbReturns \/ ClearRunCb \/ ThreadExit
  \/ \E l \in Lockers : LockCbIgnores(l)

LEMMA QuietRoundStep ==
  ASSUME IndInv, QuietRound
  PROVE  IndInv'
<1> UNCHANGED <<life, enableThread, lockFlag, devcb, lpc, lockp, spc, sreq>>
  BY DEF QuietRound, Fetch, SetRunCb, CallCb, UserCbReturns, ClearRunCb, ThreadExit,
         LockCbIgnores, device, lockers, setters
<1>a. /\ tuned' = tuned
      /\ cur' \in {cur, devcb, None}
      /\ evt' \in Event \cup {None}
      /\ ~ (tpc' \in {"flag", "chain"})
      /\ FlagCoversRound' /\ CallbackHasEvent'
  <2>1. CASE Fetch
    <3>1. evt' \in Event \cup {None}
      <4>1. ASSUME NEW o \in Outcome \cup {"zero"},
                   evt' = [para |-> tuned, status |-> o]
            PROVE  evt' \in Event
        BY <4>1 DEF Event, IndInv, TypeOK
      <4> QED
        BY <2>1, <4>1 DEF Fetch
    <3>2. tpc = "wait" /\ tpc' = "got" /\ UNCHANGED <<tuned, cur, runCb>>
      BY <2>1 DEF Fetch
    <3> QED
      BY <3>1, <3>2 DEF IndInv, FlagCoversRound, CallbackHasEvent
  <2>2. CASE CallCb
    BY <2>2 DEF CallCb, IndInv, TypeOK, FlagCoversRound, CallbackHasEvent
  <2>3. CASE SetRunCb \/ ClearRunCb \/ ThreadExit
    BY <2>3 DEF SetRunCb, ClearRunCb, ThreadExit, thread, IndInv, TypeOK,
       FlagCoversRound, CallbackHasEvent
  <2>4. CASE UserCbReturns \/ \E l \in Lockers : LockCbIgnores(l)
    BY <2>4 DEF UserCbReturns, LockCbIgnores, IndInv, TypeOK, FlagCoversRound,
       CallbackHasEvent
  <2> QED
    BY <2>1, <2>2, <2>3, <2>4 DEF QuietRound
<1>1. TypeOK'
  <2>1. /\ tpc' \in {"none", "wait", "got", "run", "cb", "flag", "chain",
                     "signal", "wake"}
        /\ runCb' \in BOOLEAN
    BY DEF QuietRound, Fetch, SetRunCb, CallCb, UserCbReturns, ClearRunCb, ThreadExit,
       LockCbIgnores, thread, IndInv, TypeOK
  <2>2. cur' \in Callback
    BY <1>a DEF IndInv, TypeOK, Callback, UserCb
  <2> QED
    BY <1>a, <2>1, <2>2 DEF IndInv, TypeOK
<1>2. LocksWhileOpen'
  BY DEF IndInv, LocksWhileOpen
<1>3. ASSUME SingleLocker PROVE LockInv'
  BY <1>a, <1>3, LockCbIsCallback
     DEF IndInv, LockInv, NoDanglingLock, LockProgress, LockReturnsStatus, InLock
<1> QED
  BY <1>a, <1>1, <1>2, <1>3 DEF IndInv

--------------------------------------------------------------------------------
(* The steps of fend_lock_cb about an event it is waiting for.               *)
LEMMA LockCbStep ==
  ASSUME IndInv, NEW l \in Lockers,
         LockCbStores(l) \/ LockCbClears(l) \/ LockCbChains(l)
  PROVE  IndInv'
<1> UNCHANGED <<life, enableThread, runCb, devcb, tuned, evt, lpc, spc, sreq>>
  BY DEF LockCbStores, LockCbClears, LockCbChains, device, lockers, setters
<1>1. CASE LockCbStores(l)
  <2>1. /\ tpc = "cb" /\ cur = LockCb(l) /\ evt \in Event /\ evt.status \in Outcome
        /\ lockp' = [lockp EXCEPT ![l].status = evt.status]
        /\ tpc' = "flag" /\ UNCHANGED <<cur, lockFlag>>
    BY <1>1 DEF LockCbStores, Concerns, IndInv, CallbackHasEvent, Event
  <2>2. TypeOK'
    <3>1. lockp[l] \in LockPara
      BY <2>1 DEF IndInv, TypeOK
    <3> DEFINE new == [lockp[l] EXCEPT !.status = evt.status]
    <3>2. new \in LockPara
      BY <2>1, <3>1 DEF LockPara
    <3>3. lockp' = [lockp EXCEPT ![l] = new]
      BY <2>1 DEF IndInv, TypeOK
    <3> HIDE DEF new
    <3> QED
      BY <2>1, <3>2, <3>3 DEF IndInv, TypeOK
  <2>3. FlagCoversRound' /\ CallbackHasEvent' /\ LocksWhileOpen'
    BY <2>1 DEF IndInv, FlagCoversRound, CallbackHasEvent, LocksWhileOpen
  <2>4. evt.status # None
    BY <2>1, FendAssumption DEF FendAssumption, Outcome
  <2>5. /\ lockp'[l].status = evt.status
        /\ lockp'[l].old = lockp[l].old /\ lockp'[l].result = lockp[l].result
    BY <2>1 DEF IndInv, TypeOK, LockPara
  <2>6. ASSUME SingleLocker PROVE LockInv'
    <3>1. \A m \in Lockers : m = l
      BY <2>6 DEF SingleLocker
    <3>2. NoDanglingLock'
      BY <2>1, <2>6 DEF IndInv, LockInv, NoDanglingLock, InLock
    <3>3. LockProgress' /\ LockReturnsStatus'
      BY <2>4, <2>5, <2>6, <3>1 DEF IndInv, LockInv, LockProgress, LockReturnsStatus, InLock
    <3> QED
      BY <3>2, <3>3 DEF LockInv
  <2> QED
    BY <2>2, <2>3, <2>6 DEF IndInv
<1>2. CASE LockCbClears(l)
  <2>1. /\ tpc = "flag" /\ cur = LockCb(l) /\ tpc' = "chain"
        /\ lockFlag' = FALSE /\ UNCHANGED <<cur, lockp>>
    BY <1>2 DEF LockCbClears, lockers
  <2>2. TypeOK' /\ FlagCoversRound' /\ CallbackHasEvent' /\ LocksWhileOpen'
    BY <2>1 DEF IndInv, TypeOK, FlagCoversRound, CallbackHasEvent, LocksWhileOpen
  <2>3. ASSUME SingleLocker PROVE LockInv'
    BY <2>1, <2>3
       DEF SingleLocker, IndInv, LockInv, NoDanglingLock, LockProgress,
           LockReturnsStatus, InLock
  <2> QED
    BY <2>2, <2>3 DEF IndInv
<1>3. CASE LockCbChains(l)
  <2>1. /\ tpc = "chain" /\ cur = LockCb(l) /\ cur' = lockp[l].old
        /\ tpc' = IF lockp[l].old = None THEN "signal" ELSE "cb"
        /\ UNCHANGED <<lockFlag, lockp>>
    BY <1>3 DEF LockCbChains, lockers
  <2>2. TypeOK'
    BY <2>1 DEF IndInv, TypeOK, LockPara
  <2>3. FlagCoversRound' /\ CallbackHasEvent' /\ LocksWhileOpen'
    BY <2>1 DEF IndInv, FlagCoversRound, CallbackHasEvent, LocksWhileOpen
  <2>4. ASSUME SingleLocker PROVE LockInv'
    <3>1. cur' \in UserCb
      BY <2>1, <2>4 DEF IndInv, LockInv, NoDanglingLock, LockProgress
    <3>2. NoDanglingLock'
      BY <2>4, <3>1, LockCbDistinct DEF IndInv, LockInv, NoDanglingLock, InLock
    <3>3. LockProgress' /\ LockReturnsStatus'
      BY <2>1, <2>4 DEF IndInv, LockInv, LockProgress, LockReturnsStatus, InLock
    <3> QED
      BY <3>2, <3>3 DEF LockInv
  <2> QED
    BY <2>2, <2>3, <2>4 DEF IndInv
<1> QED
  BY <1>1, <1>2, <1>3

--------------------------------------------------------------------------------
(* Wake-ups move waiters to their test, never out of the call.               *)
LEMMA WakeStep ==
  ASSUME IndInv, Broadcast \/ SpuriousWake
  PROVE  IndInv'
<1> UNCHANGED <<life, enableThread, runCb, lockFlag, devcb, tuned, evt, cur, lockp,
                sreq>>
  BY DEF Broadcast, SpuriousWake, device, thread
<1>a. /\ lpc' \in [Lockers -> {"out", "test1", "wait1", "test2", "wait2"}]
      /\ spc' \in [Setters -> {"out", "enter", "wait", "woken"}]
      /\ \A l \in Lockers : /\ InLock(l)' <=> InLock(l)
                            /\ lpc[l] = "out" => lpc'[l] = "out"
  <2>1. CASE Broadcast
    BY <2>1 DEF Broadcast, IndInv, TypeOK, InLock
  <2>2. CASE SpuriousWake
    BY <2>2 DEF SpuriousWake, IndInv, TypeOK, InLock
  <2> QED
    BY <2>1, <2>2
<1>b. tpc' = tpc \/ (tpc = "wake" /\ tpc' = "wait")
  BY DEF Broadcast, SpuriousWake, thread
<1>1. TypeOK'
  BY <1>a, <1>b DEF IndInv, TypeOK
<1>2. FlagCoversRound'
  BY <1>b DEF IndInv, FlagCoversRound, Broadcast, SpuriousWake
<1>3. CallbackHasEvent'
  BY <1>b DEF IndInv, CallbackHasEvent
<1>4. LocksWhileOpen'
  BY <1>a DEF IndInv, LocksWhileOpen
<1>5. ASSUME SingleLocker PROVE LockInv'
  BY <1>a, <1>b, <1>5
     DEF IndInv, LockInv, NoDanglingLock, LockProgress, LockReturnsStatus
<1> QED
  BY <1>1, <1>2, <1>3, <1>4, <1>5 DEF IndInv

--------------------------------------------------------------------------------
(* Steps that put a callback of the application into the device.             *)
LEMMA RegisterStep ==
  ASSUME IndInv, UserCbSetsCallback \/ \E s \in Setters : SetterStep(s)
  PROVE  IndInv'
<1> UNCHANGED <<life, enableThread, runCb, lockFlag, tpc, cur, lpc, lockp>>
  BY DEF UserCbSetsCallback, SetterStep, SetCallbackEnter, SetPara, SetCallbackSame,
         SetCallbackWait, SetCallbackStore, device, thread, lockers
<1> DEFINE Registers ==
      /\ devcb' \in UserCb \cup {devcb}
      /\ tuned' \in Paras \cup {None}
      /\ evt' \in Event \cup {None}
      /\ evt \in Event => evt' \in Event
      /\ spc' \in [Setters -> {"out", "enter", "wait", "woken"}]
      /\ sreq' \in [Setters -> UserCb]
<1>a. Registers
  <2>1. CASE UserCbSetsCallback
    BY <2>1 DEF UserCbSetsCallback, setters, IndInv, TypeOK
  <2>2. ASSUME NEW s \in Setters, NEW p \in Paras, SetPara(s, p)
        PROVE  Registers
    BY <2>2, TuneKeepsEvent DEF SetPara, setters, IndInv, TypeOK
  <2>3. ASSUME NEW s \in Setters, NEW c \in UserCb, SetCallbackEnter(s, c)
        PROVE  Registers
    BY <2>3 DEF SetCallbackEnter, IndInv, TypeOK
  <2>4. ASSUME NEW s \in Setters,
               SetCallbackSame(s) \/ SetCallbackWait(s) \/ SetCallbackStore(s)
        PROVE  Registers
    BY <2>4 DEF SetCallbackSame, SetCallbackWait, SetCallbackStore, IndInv, TypeOK
  <2> QED
    BY <2>1, <2>2, <2>3, <2>4 DEF SetterStep
<1>1. TypeOK'
  BY <1>a DEF IndInv, TypeOK, Callback
<1>2. FlagCoversRound' /\ CallbackHasEvent' /\ LocksWhileOpen'
  BY <1>a DEF IndInv, FlagCoversRound, CallbackHasEvent, LocksWhileOpen
<1>3. ASSUME SingleLocker PROVE LockInv'
  BY <1>a, <1>3, LockCbDistinct
     DEF IndInv, LockInv, NoDanglingLock, LockProgress, LockReturnsStatus, InLock
<1> QED
  BY <1>1, <1>2, <1>3 DEF IndInv

--------------------------------------------------------------------------------
(* AM_FEND_Lock.                                                             *)
LEMMA LockInstallStep ==
  ASSUME IndInv, NEW l \in Lockers, NEW p \in Paras, LockInstall(l, p)
  PROVE  IndInv'
<1>0. /\ UNCHANGED <<life, enableThread, runCb, tpc, cur, spc, sreq>>
      /\ lpc[l] = "test1" /\ ~runCb /\ lockFlag' = TRUE /\ devcb' = LockCb(l)
      /\ lpc' = [lpc EXCEPT ![l] = "wait2"]
      /\ lockp' = [lockp EXCEPT ![l] = [para |-> p, old |-> devcb, status |-> None,
                                        result |-> "none"]]
  BY DEF LockInstall, device, thread, setters
<1>a. /\ tuned' \in Paras \cup {None}
      /\ evt' \in Event \cup {None}
      /\ evt \in Event => evt' \in Event
  BY TuneKeepsEvent DEF LockInstall, IndInv
<1>1. TypeOK'
  <2>1. lockp' \in [Lockers -> LockPara]
    BY <1>0 DEF IndInv, TypeOK, LockPara
  <2>2. lpc' \in [Lockers -> {"out", "test1", "wait1", "test2", "wait2"}]
    BY <1>0 DEF IndInv, TypeOK
  <2> QED
    BY <1>0, <1>a, <2>1, <2>2, LockCbIsCallback DEF IndInv, TypeOK
<1>2. FlagCoversRound' /\ CallbackHasEvent'
  BY <1>0, <1>a DEF IndInv, FlagCoversRound, CallbackHasEvent
<1>3. LocksWhileOpen'
  BY <1>0 DEF IndInv, LocksWhileOpen, TypeOK
<1>4. ASSUME SingleLocker PROVE LockInv'
  <2>1. Lockers = {l} /\ InLock(l)' /\ ~InLock(l)
    BY <1>0, <1>4 DEF SingleLocker, InLock, IndInv, TypeOK
  <2>2. devcb # LockCb(l) /\ cur = None
    BY <1>0, <1>4, <2>1
       DEF IndInv, LockInv, NoDanglingLock, FlagCoversRound, CallbackHasEvent
  <2>3. devcb \in UserCb
    BY <2>1, <2>2 DEF IndInv, TypeOK, Callback
  <2>4. lockp'[l] = [para |-> p, old |-> devcb, status |-> None,
                     result |-> "none"]
    BY <1>0 DEF IndInv, TypeOK
  <2>5. tpc \notin {"flag", "chain"}
    BY <1>0 DEF IndInv, FlagCoversRound
  <2> QED
    BY <1>0, <2>1, <2>3, <2>4, <2>5
       DEF LockInv, NoDanglingLock, LockProgress, LockReturnsStatus
<1> QED
  BY <1>1, <1>2, <1>3, <1>4 DEF IndInv

LEMMA LockReturnStep ==
  ASSUME IndInv, NEW l \in Lockers, LockReturn(l)
  PROVE  IndInv'
<1>0. /\ UNCHANGED <<life, enableThread, runCb, lockFlag, tuned, tpc, cur, evt,
                     spc, sreq>>
      /\ lpc[l] = "test2" /\ ~runCb /\ ~lockFlag /\ devcb' = lockp[l].old
      /\ lpc' = [lpc EXCEPT ![l] = "out"]
      /\ lockp' = [lockp EXCEPT ![l].para = None, ![l].old = None, ![l].result = "ok"]
  BY DEF LockReturn, device, thread, setters
<1>1. TypeOK'
  <2>0. lockp[l] \in LockPara /\ None \in Callback
    BY DEF IndInv, TypeOK, Callback, UserCb
  <2>a. [lockp[l] EXCEPT !.para = None, !.old = None, !.result = "ok"] \in LockPara
    BY <2>0 DEF LockPara
  <2>b. lockp' = [lockp EXCEPT ![l] = [lockp[l] EXCEPT !.para = None, !.old = None,
                                                      !.result = "ok"]]
    BY <1>0 DEF IndInv, TypeOK
  <2>1. lockp' \in [Lockers -> LockPara] /\ devcb' \in Callback
    BY <1>0, <2>0, <2>a, <2>b DEF IndInv, TypeOK, LockPara
  <2>2. lpc' \in [Lockers -> {"out", "test1", "wait1", "test2", "wait2"}]
    BY <1>0 DEF IndInv, TypeOK
  <2> QED
    BY <1>0, <2>1, <2>2 DEF IndInv, TypeOK
<1>2. FlagCoversRound' /\ CallbackHasEvent'
  BY <1>0 DEF IndInv, FlagCoversRound, CallbackHasEvent
<1>3. LocksWhileOpen'
  BY <1>0 DEF IndInv, LocksWhileOpen, TypeOK
<1>4. ASSUME SingleLocker PROVE LockInv'
  <2>1. Lockers = {l} /\ InLock(l) /\ ~InLock(l)'
    BY <1>0, <1>4 DEF SingleLocker, InLock, IndInv, TypeOK
  <2>2. lockp[l].old \in UserCb /\ lockp[l].status # None
    BY <1>0, <1>4, <2>1 DEF IndInv, LockInv, LockProgress
  <2>3. cur = None /\ tpc \notin {"flag", "chain"}
    BY <1>0 DEF IndInv, FlagCoversRound, CallbackHasEvent
  <2>4. lockp'[l].status = lockp[l].status
    BY <1>0 DEF IndInv, TypeOK, LockPara
  <2> QED
    BY <1>0, <2>1, <2>2, <2>3, <2>4, LockCbDistinct, LockCbIsCallback
       DEF LockInv, NoDanglingLock, LockProgress, LockReturnsStatus
<1> QED
  BY <1>1, <1>2, <1>3, <1>4 DEF IndInv

(* The tests and waits of AM_FEND_Lock, and a call the driver refuses.       *)
LEMMA LockWaitStep ==
  ASSUME IndInv, NEW l \in Lockers,
         LockEnter(l) \/ LockEnterWait(l) \/ LockFails(l) \/ LockWaitAgain(l)
  PROVE  IndInv'
<1>0. UNCHANGED <<life, enableThread, runCb, devcb, tuned, tpc, cur, evt, spc, sreq>>
  BY DEF LockEnter, LockEnterWait, LockFails, LockWaitAgain, device, thread, setters
<1>a. /\ lpc' \in [Lockers -> {"out", "test1", "wait1", "test2", "wait2"}]
      /\ \A m \in Lockers : InLock(m)' <=> InLock(m)
  <2>1. CASE LockEnter(l) \/ LockFails(l)
    BY <2>1 DEF LockEnter, LockFails, InLock, IndInv, TypeOK
  <2>2. CASE LockEnterWait(l) \/ LockWaitAgain(l)
    BY <2>2 DEF LockEnterWait, LockWaitAgain, InLock, IndInv, TypeOK
  <2> QED
    BY <2>1, <2>2
<1>b. /\ lockp' \in [Lockers -> LockPara]
      /\ \A m \in Lockers : lockp'[m] = lockp[m] \/ (m = l /\ ~InLock(l))
      /\ lockp'[l].result # "ok" \/ lockp'[l] = lockp[l]
      /\ lockFlag' \in BOOLEAN /\ (~lockFlag' => ~lockFlag)
  <2>1. CASE LockEnter(l)
    <3> DEFINE new == [lockp[l] EXCEPT !.status = None, !.result = "none"]
    <3>1. new \in LockPara /\ new.result = "none"
      BY DEF IndInv, TypeOK, LockPara
    <3>2. lockp' = [lockp EXCEPT ![l] = new] /\ lockFlag' = lockFlag /\ ~InLock(l)
      BY <2>1 DEF LockEnter, InLock, IndInv, TypeOK
    <3> HIDE DEF new
    <3> QED
      BY <3>1, <3>2 DEF IndInv, TypeOK
  <2>2. CASE LockFails(l)
    BY <2>2 DEF LockFails, InLock, IndInv, TypeOK, LockPara
  <2>3. CASE LockEnterWait(l) \/ LockWaitAgain(l)
    BY <2>3 DEF LockEnterWait, LockWaitAgain, IndInv, TypeOK
  <2> QED
    BY <2>1, <2>2, <2>3
<1>1. TypeOK'
  BY <1>0, <1>a, <1>b DEF IndInv, TypeOK
<1>2. FlagCoversRound' /\ CallbackHasEvent'
  BY <1>0 DEF IndInv, FlagCoversRound, CallbackHasEvent
<1>3. LocksWhileOpen'
  BY <1>0 DEF IndInv, LocksWhileOpen, TypeOK, LockEnter, LockEnterWait, LockFails,
     LockWaitAgain
<1>4. ASSUME SingleLocker PROVE LockInv'
  <2>1. NoDanglingLock'
    BY <1>0, <1>a, <1>4 DEF IndInv, LockInv, NoDanglingLock
  <2>2. ASSUME NEW m \in Lockers, InLock(m) PROVE lockp'[m] = lockp[m]
    BY <1>b, <2>2
  <2>3. LockProgress'
    <3> SUFFICES ASSUME NEW m \in Lockers
        PROVE  /\ InLock(m)' => lockp'[m].old \in UserCb
               /\ InLock(m)' /\ ~lockFlag' => lockp'[m].status # None
               /\ tpc' \in {"flag", "chain"} /\ cur' = LockCb(m)
                    => lockp'[m].status # None
      BY DEF LockProgress
    <3>1. CASE ~InLock(m)
      BY <1>0, <1>a, <1>4, <3>1 DEF IndInv, LockInv, NoDanglingLock
    <3>2. CASE InLock(m)
      BY <1>0, <1>a, <1>b, <1>4, <2>2, <3>2 DEF IndInv, LockInv, LockProgress
    <3> QED
      BY <3>1, <3>2
  <2>4. LockReturnsStatus'
    <3>1. ASSUME NEW m \in Lockers, lockp'[m].result = "ok" PROVE lockp'[m] = lockp[m]
      BY <1>b, <3>1
    <3> QED
      BY <3>1, <1>4 DEF IndInv, LockInv, LockReturnsStatus
  <2> QED
    BY <2>1, <2>3, <2>4 DEF LockInv
<1> QED
  BY <1>1, <1>2, <1>3, <1>4 DEF IndInv

LEMMA OpenCloseStep ==
  ASSUME IndInv, Open \/ CloseBegin \/ CloseEnd
  PROVE  IndInv'
<1>0. UNCHANGED <<devcb, tuned, evt, cur, lpc, lockp, spc, sreq>>
  BY DEF Open, CloseBegin, CloseEnd, thread, lockers, setters
<1>1. TypeOK' /\ FlagCoversRound' /\ CallbackHasEvent' /\ LocksWhileOpen'
  <2>1. CASE Open
    BY <1>0, <2>1 DEF IndInv, TypeOK, FlagCoversRound, CallbackHasEvent, LocksWhileOpen,
       Open
  <2>2. CASE CloseBegin
    BY <1>0, <2>2 DEF IndInv, TypeOK, FlagCoversRound, CallbackHasEvent, LocksWhileOpen,
       CloseBegin, thread
  <2>3. CASE CloseEnd
    BY <1>0, <2>3 DEF IndInv, TypeOK, FlagCoversRound, CallbackHasEvent, LocksWhileOpen,
       CloseEnd, thread
  <2> QED
    BY <2>1, <2>2, <2>3
<1>2. ASSUME SingleLocker PROVE LockInv'
  BY <1>0, <1>2
     DEF IndInv, LockInv, NoDanglingLock, LockProgress, LockReturnsStatus, InLock,
         LocksWhileOpen, FlagCoversRound, Open, CloseBegin, CloseEnd, thread
<1> QED
  BY <1>1, <1>2 DEF IndInv

LEMMA NextIndInv == IndInv /\ [Next]_vars => IndInv'
<1> SUFFICES ASSUME IndInv, [Next]_vars PROVE IndInv'
  OBVIOUS
<1>1. CASE Fetch \/ MonitorRound \/ SpuriousWake
  BY <1>1, QuietRoundStep, LockCbStep, RegisterStep, WakeStep DEF MonitorRound, QuietRound
<1>2. ASSUME NEW l \in Lockers, LockerStep(l) PROVE IndInv'
  BY <1>2, LockInstallStep, LockReturnStep, LockWaitStep DEF LockerStep
<1>3. CASE \E s \in Setters : SetterStep(s)
  BY <1>3, RegisterStep
<1>4. CASE Open \/ CloseBegin \/ CloseEnd
  BY <1>4, OpenCloseStep
<1>5. CASE UNCHANGED vars
  BY <1>5 DEF vars, device, thread, lockers, setters, IndInv, TypeOK, FlagCoversRound,
     CallbackHasEvent, LocksWhileOpen, LockInv, NoDanglingLock, LockProgress,
     LockReturnsStatus, InLock
<1> QED
  BY <1>1, <1>2, <1>3, <1>4, <1>5 DEF Next

--------------------------------------------------------------------------------
(* The invariant holds of every reachable state.                             *)
THEOREM Invariance == Spec => []IndInv
  BY InitIndInv, NextIndInv, PTL DEF Spec

(* Every variable of the device keeps its type, for any number of threads.   *)
THEOREM TypeCorrect == Spec => []TypeOK
<1>1. IndInv => TypeOK
  BY DEF IndInv
<1> QED
  BY <1>1, Invariance, PTL

(* On a device that one thread locks, AM_FEND_Lock never returns AM_SUCCESS  *)
(* without a status of the driver, whatever callbacks and parameters others  *)
(* set meanwhile.                                                            *)
THEOREM LockKeepsPromise == Spec => [](SingleLocker => LockReturnsStatus)
<1>1. IndInv => (SingleLocker => LockReturnsStatus)
  BY DEF IndInv, LockInv
<1> QED
  BY <1>1, Invariance, PTL

(* On such a device nothing refers to the caller's stack once AM_FEND_Lock   *)
(* has returned.                                                             *)
THEOREM LockLeavesNothing == Spec => [](SingleLocker => NoDanglingLock)
<1>1. IndInv => (SingleLocker => NoDanglingLock)
  BY DEF IndInv, LockInv
<1> QED
  BY <1>1, Invariance, PTL

(* A thread other than the monitor never replaces the callback of a round in *)
(* progress, for any number of lockers and setters.                          *)
THEOREM RunningCallbackProtected == Spec => CallbackNotSwapped
<1>1. IndInv /\ [Next]_vars =>
        (enableThread /\ devcb' # devcb /\ (lpc' # lpc \/ spc' # spc) =>
           tpc \notin {"run", "cb", "flag", "chain"})
  <2> SUFFICES ASSUME IndInv, [Next]_vars, enableThread, devcb' # devcb,
                      lpc' # lpc \/ spc' # spc
               PROVE  tpc \notin {"run", "cb", "flag", "chain"}
    OBVIOUS
  <2>1. ~runCb
    <3>1. CASE Fetch \/ MonitorRound \/ SpuriousWake
      BY <3>1 DEF MonitorRound, Fetch, SetRunCb, CallCb, UserCbReturns,
         UserCbSetsCallback, LockCbIgnores, LockCbStores, LockCbClears, LockCbChains,
         ClearRunCb, Broadcast, ThreadExit, SpuriousWake, lockers, setters
    <3>2. ASSUME NEW l \in Lockers, LockerStep(l) PROVE ~runCb
      BY <3>2 DEF LockerStep, LockEnter, LockEnterWait, LockInstall, LockFails,
         LockWaitAgain, LockReturn
    <3>3. ASSUME NEW s \in Setters, SetterStep(s) PROVE ~runCb
      BY <3>3 DEF SetterStep, SetCallbackEnter, SetPara, SetCallbackSame,
         SetCallbackWait, SetCallbackStore
    <3>4. CASE Open \/ CloseBegin \/ CloseEnd \/ UNCHANGED vars
      BY <3>4 DEF Open, CloseBegin, CloseEnd, vars
    <3> QED
      BY <3>1, <3>2, <3>3, <3>4 DEF Next
  <2> QED
    BY <2>1 DEF IndInv, FlagCoversRound
<1> QED
  BY <1>1, Invariance, PTL DEF Spec, CallbackNotSwapped
================================================================================
