------------------------------ MODULE FendDevice ------------------------------
(****************************************************************************)
(* One frontend (tuner) device of am_adp/am_fend/am_fend.c: the monitor     *)
(* thread that fetches driver events and runs the registered callback       *)
(* without the device lock, AM_FEND_SetCallback, and AM_FEND_Lock, which    *)
(* puts a callback of its own in front of the registered one, tunes, and    *)
(* sleeps until that callback has seen the outcome.                         *)
(*                                                                          *)
(* A stretch of code that keeps dev->lock is one action; the thread's reads *)
(* of dev->cb and every wait are steps of their own.                        *)
(****************************************************************************)
EXTENDS Integers

CONSTANTS Lockers,     \* threads that call AM_FEND_Lock
          Setters,     \* threads that call AM_FEND_SetCallback / SetPara
          Handlers,    \* callback functions they register
          Data,        \* user_data values they register with them
          Paras,       \* tuning parameters
          LockFn,      \* the function fend_lock_cb
          None

ASSUME FendAssumption ==
  /\ None \notin Lockers /\ None \notin Paras /\ None \notin {"lock", "timedout"}
  /\ LockFn \notin Handlers
  /\ None \notin (Handlers \cup {LockFn}) \X (Data \cup Lockers)

VARIABLES
  life,          \* "closed", "open", "joining": in AM_FEND_Close
  enableThread,
  runCb,         \* dev->flags & FEND_FL_RUN_CB
  lockFlag,      \* dev->flags & FEND_FL_LOCK
  devcb,         \* <<dev->cb, dev->user_data>>, None for a NULL cb
  tuned,         \* parameters the hardware is tuned to
  tpc,           \* where the monitor thread is; "none": not running
  evt,           \* the event it has fetched
  cur,           \* the callback it is executing
  lpc, lockp,    \* AM_FEND_Lock of each locker: position, local variables
  spc, sreq      \* AM_FEND_SetCallback of each setter: position, arguments

vars == <<life, enableThread, runCb, lockFlag, devcb, tuned, tpc, evt, cur,
          lpc, lockp, spc, sreq>>
device == <<life, enableThread>>
thread == <<tpc, cur>>
lockers == <<lpc, lockp>>
setters == <<spc, sreq>>

UserCb == (Handlers \X Data) \cup {None}
LockCb(l) == <<LockFn, l>>
Callback == UserCb \cup {LockCb(l) : l \in Lockers}
Fn(c) == IF c = None THEN None ELSE c[1]

Outcome == {"lock", "timedout"}       \* non-zero fe_status_t
Event == [para : Paras \cup {None}, status : Outcome \cup {"zero"}]
LockPara == [para : Paras \cup {None}, old : Callback,
             status : Outcome \cup {None}, result : {"none", "ok", "err"}]

TypeOK ==
  /\ life \in {"closed", "open", "joining"}
  /\ {enableThread, runCb, lockFlag} \subseteq BOOLEAN
  /\ devcb \in Callback
  /\ tuned \in Paras \cup {None}
  /\ tpc \in {"none", "wait", "got", "run", "cb", "flag", "chain",
             "signal", "wake"}
  /\ evt \in Event \cup {None}
  /\ cur \in Callback
  /\ lpc \in [Lockers -> {"out", "test1", "wait1", "test2", "wait2"}]
  /\ lockp \in [Lockers -> LockPara]
  /\ spc \in [Setters -> {"out", "enter", "wait", "woken"}]
  /\ sreq \in [Setters -> UserCb]

Init ==
  /\ life = "closed"
  /\ enableThread = FALSE /\ runCb = FALSE /\ lockFlag = FALSE
  /\ devcb = None
  /\ tuned = None
  /\ tpc = "none"
  /\ evt = None
  /\ cur = None
  /\ lpc = [l \in Lockers |-> "out"]
  /\ lockp = [l \in Lockers |-> [para |-> None, old |-> None, status |-> None,
                                 result |-> "none"]]
  /\ spc = [s \in Setters |-> "out"]
  /\ sreq = [s \in Setters |-> None]

--------------------------------------------------------------------------------
(* FE_SET_FRONTEND: an event that was fetched before stays with the thread.  *)
Tune(p) == tuned' = p /\ UNCHANGED evt

(* AM_FEND_SetPara returns when the driver has taken the parameters.         *)
SetPara(s, p) ==
  /\ life # "closed" /\ spc[s] = "out"
  /\ Tune(p)
  /\ UNCHANGED <<device, runCb, lockFlag, devcb, thread, lockers, setters>>

--------------------------------------------------------------------------------
(* fend_thread.                                                              *)

(* wait_event: an event about what the hardware is tuned to, or a timeout.   *)
Fetch ==
  /\ tpc = "wait" /\ enableThread
  /\ \/ evt' = None
     \/ \E s \in Outcome \cup {"zero"} :
          evt' = [para |-> tuned, status |-> s]
  /\ tpc' = "got"
  /\ UNCHANGED <<device, runCb, lockFlag, devcb, tuned, cur, lockers, setters>>

SetRunCb ==
  /\ tpc = "got" /\ enableThread
  /\ runCb' = TRUE
  /\ tpc' = "run"
  /\ UNCHANGED <<device, lockFlag, devcb, tuned, evt, cur, lockers, setters>>

(* The flag goes up for a timeout too; dev->cb is read without the lock.     *)
CallCb ==
  /\ tpc = "run"
  /\ IF evt # None /\ devcb # None
     THEN tpc' = "cb" /\ cur' = devcb
     ELSE tpc' = "signal" /\ UNCHANGED cur
  /\ UNCHANGED <<device, runCb, lockFlag, devcb, tuned, evt, lockers, setters>>

UserCbReturns ==
  /\ tpc = "cb" /\ cur \in UserCb
  /\ tpc' = "signal"
  /\ cur' = None
  /\ UNCHANGED <<device, runCb, lockFlag, devcb, tuned, evt, lockers, setters>>

(* A callback registers another callback: AM_FEND_SetCallback does not wait  *)
(* when it is called from the monitor thread.                                *)
UserCbSetsCallback ==
  /\ tpc = "cb" /\ cur \in UserCb
  /\ \E c \in UserCb : Fn(c) # Fn(devcb) /\ devcb' = c
  /\ UNCHANGED <<device, runCb, lockFlag, tuned, thread, evt, lockers, setters>>

Concerns(l) == evt.para = lockp[l].para /\ evt.status # "zero"

(* fend_lock_cb: an event about other parameters, or without a status, is    *)
(* dropped, and not handed to the registered callback either ...             *)
LockCbIgnores(l) ==
  /\ tpc = "cb" /\ cur = LockCb(l) /\ ~Concerns(l)
  /\ tpc' = "signal"
  /\ cur' = None
  /\ UNCHANGED <<device, runCb, lockFlag, devcb, tuned, evt, lockers, setters>>

(* ... the others store their status, without the lock ...                   *)
LockCbStores(l) ==
  /\ tpc = "cb" /\ cur = LockCb(l) /\ Concerns(l)
  /\ lockp' = [lockp EXCEPT ![l].status = evt.status]
  /\ tpc' = "flag"
  /\ UNCHANGED <<device, runCb, lockFlag, devcb, tuned, evt, cur, lpc, setters>>

\* Mutant: the lock callback leaves FEND_FL_LOCK alone.
LockCbClears_NotCleared(l) ==
  /\ tpc = "flag" /\ cur = LockCb(l)
  /\ tpc' = "chain"
  /\ UNCHANGED <<device, runCb, lockFlag, devcb, tuned, evt, cur, lockers, setters>>

(* ... clear FEND_FL_LOCK under the lock ...                                *)
LockCbClears(l) ==
  /\ tpc = "flag" /\ cur = LockCb(l)
  /\ lockFlag' = FALSE
  /\ tpc' = "chain"
  /\ UNCHANGED <<device, runCb, devcb, tuned, evt, cur, lockers, setters>>

(* ... and then, the lock given back, chain to the callback found at entry.  *)
(* (The broadcast after that wakes nobody for good: FEND_FL_RUN_CB is up.)   *)
LockCbChains(l) ==
  /\ tpc = "chain" /\ cur = LockCb(l)
  /\ cur' = lockp[l].old
  /\ tpc' = IF lockp[l].old = None THEN "signal" ELSE "cb"
  /\ UNCHANGED <<device, runCb, lockFlag, devcb, tuned, evt, lockers, setters>>

(* AM_EVT_Signal is over (see EvtRegistry); the flag comes down.             *)
ClearRunCb ==
  /\ tpc = "signal"
  /\ runCb' = FALSE
  /\ evt' = None
  /\ tpc' = "wake"
  /\ UNCHANGED <<device, lockFlag, devcb, tuned, cur, lockers, setters>>

Broadcast ==
  /\ tpc = "wake"
  /\ tpc' = "wait"
  /\ lpc' = [l \in Lockers |-> CASE lpc[l] = "wait1" -> "test1"
                                 [] lpc[l] = "wait2" -> "test2"
                                 [] OTHER -> lpc[l]]
  /\ spc' = [s \in Setters |-> IF spc[s] = "wait" THEN "woken" ELSE spc[s]]
  /\ UNCHANGED <<device, runCb, lockFlag, devcb, tuned, evt, cur, lockp, sreq>>

ThreadExit ==
  /\ tpc \in {"wait", "got"} /\ ~enableThread
  /\ tpc' = "none"
  /\ evt' = None
  /\ UNCHANGED <<device, runCb, lockFlag, devcb, tuned, cur, lockers, setters>>

--------------------------------------------------------------------------------
(* AM_FEND_SetCallback from a thread other than the monitor.                 *)

SetCallbackEnter(s, c) ==
  /\ life # "closed" /\ spc[s] = "out"
  /\ spc' = [spc EXCEPT ![s] = "enter"]
  /\ sreq' = [sreq EXCEPT ![s] = c]
  /\ UNCHANGED <<device, runCb, lockFlag, devcb, tuned, thread, evt, lockers>>

(* The same function again: the call returns and keeps the old user_data.    *)
SetCallbackSame(s) ==
  /\ spc[s] = "enter" /\ Fn(sreq[s]) = Fn(devcb)
  /\ spc' = [spc EXCEPT ![s] = "out"]
  /\ UNCHANGED <<device, runCb, lockFlag, devcb, tuned, thread, evt, lockers, sreq>>

SetCallbackWait(s) ==
  /\ \/ spc[s] = "enter" /\ Fn(sreq[s]) # Fn(devcb) /\ enableThread
     \/ spc[s] = "woken"
  /\ runCb
  /\ spc' = [spc EXCEPT ![s] = "wait"]
  /\ UNCHANGED <<device, runCb, lockFlag, devcb, tuned, thread, evt, lockers, sreq>>

\* Mutant: the callback is replaced without waiting for a running one.
SetCallbackStore_NoWait(s) ==
  /\ \/ spc[s] = "enter" /\ Fn(sreq[s]) # Fn(devcb)
     \/ spc[s] = "woken"
  /\ devcb' = sreq[s]
  /\ spc' = [spc EXCEPT ![s] = "out"]
  /\ UNCHANGED <<device, runCb, lockFlag, tuned, thread, evt, lockers, sreq>>

SetCallbackStore(s) ==
  /\ \/ spc[s] = "enter" /\ Fn(sreq[s]) # Fn(devcb) /\ (enableThread => ~runCb)
     \/ spc[s] = "woken" /\ ~runCb
  /\ devcb' = sreq[s]
  /\ spc' = [spc EXCEPT ![s] = "out"]
  /\ UNCHANGED <<device, runCb, lockFlag, tuned, thread, evt, lockers, sreq>>

--------------------------------------------------------------------------------
(* AM_FEND_Lock.                                                             *)

LockEnter(l) ==
  /\ life = "open" /\ lpc[l] = "out"
  /\ lpc' = [lpc EXCEPT ![l] = "test1"]
  /\ lockp' = [lockp EXCEPT ![l].status = None, ![l].result = "none"]
  /\ UNCHANGED <<device, runCb, lockFlag, devcb, tuned, thread, evt, setters>>

LockEnterWait(l) ==
  /\ lpc[l] = "test1" /\ runCb
  /\ lpc' = [lpc EXCEPT ![l] = "wait1"]
  /\ UNCHANGED <<device, runCb, lockFlag, devcb, tuned, thread, evt, lockp, setters>>

(* No callback is running: fend_lock_cb is put in front, the driver tuned,   *)
(* and the mutex given back in the second wait.                              *)
LockInstall(l, p) ==
  /\ lpc[l] = "test1" /\ ~runCb
  /\ lockp' = [lockp EXCEPT ![l] = [para |-> p, old |-> devcb, status |-> None,
                                    result |-> "none"]]
  /\ devcb' = LockCb(l)
  /\ lockFlag' = TRUE
  /\ Tune(p)
  /\ lpc' = [lpc EXCEPT ![l] = "wait2"]
  /\ UNCHANGED <<device, runCb, thread, setters>>

(* The driver refuses: the callback is put back, FEND_FL_LOCK is not.        *)
LockFails(l) ==
  /\ lpc[l] = "test1" /\ ~runCb
  /\ lockFlag' = TRUE
  /\ lockp' = [lockp EXCEPT ![l].result = "err"]
  /\ lpc' = [lpc EXCEPT ![l] = "out"]
  /\ UNCHANGED <<device, runCb, devcb, tuned, thread, evt, setters>>

LockWaitAgain(l) ==
  /\ lpc[l] = "test2" /\ (runCb \/ lockFlag)
  /\ lpc' = [lpc EXCEPT ![l] = "wait2"]
  /\ UNCHANGED <<device, runCb, lockFlag, devcb, tuned, thread, evt, lockp, setters>>

\* Mutant: the wait loop tests FEND_FL_RUN_CB only.
LockReturn_AnyRound(l) ==
  /\ lpc[l] = "test2" /\ ~runCb
  /\ devcb' = lockp[l].old
  /\ lockp' = [lockp EXCEPT ![l].para = None, ![l].old = None, ![l].result = "ok"]
  /\ lpc' = [lpc EXCEPT ![l] = "out"]
  /\ UNCHANGED <<device, runCb, lockFlag, tuned, thread, evt, setters>>

\* Mutant: the wait loop tests FEND_FL_LOCK only.
LockReturn_WhileRunning(l) ==
  /\ lpc[l] = "test2" /\ ~lockFlag
  /\ devcb' = lockp[l].old
  /\ lockp' = [lockp EXCEPT ![l].para = None, ![l].old = None, ![l].result = "ok"]
  /\ lpc' = [lpc EXCEPT ![l] = "out"]
  /\ UNCHANGED <<device, runCb, lockFlag, tuned, thread, evt, setters>>

LockReturn(l) ==
  /\ lpc[l] = "test2" /\ ~runCb /\ ~lockFlag
  /\ devcb' = lockp[l].old
  /\ lockp' = [lockp EXCEPT ![l].para = None, ![l].old = None, ![l].result = "ok"]
  /\ lpc' = [lpc EXCEPT ![l] = "out"]
  /\ UNCHANGED <<device, runCb, lockFlag, tuned, thread, evt, setters>>

SpuriousWake ==
  /\ \/ \E l \in Lockers : lpc[l] \in {"wait1", "wait2"} /\
          lpc' = [lpc EXCEPT ![l] = IF @ = "wait1" THEN "test1" ELSE "test2"]
        /\ UNCHANGED spc
     \/ \E s \in Setters : spc[s] = "wait" /\ spc' = [spc EXCEPT ![s] = "woken"]
        /\ UNCHANGED lpc
  /\ UNCHANGED <<device, runCb, lockFlag, devcb, tuned, thread, evt, lockp, sreq>>

--------------------------------------------------------------------------------
(* Open and Close, under am_gAdpLock.  The application closes a device only  *)
(* when nobody is inside AM_FEND_Lock.                                       *)

Open ==
  /\ life = "closed"
  /\ life' = "open"
  /\ enableThread' = TRUE
  /\ runCb' = FALSE /\ lockFlag' = FALSE
  /\ tpc' = "wait"
  /\ UNCHANGED <<devcb, tuned, evt, cur, lockers, setters>>

CloseBegin ==
  /\ life = "open"
  /\ \A l \in Lockers : lpc[l] = "out"
  /\ life' = "joining"
  /\ enableThread' = FALSE
  /\ UNCHANGED <<runCb, lockFlag, devcb, tuned, thread, evt, lockers, setters>>

CloseEnd ==
  /\ life = "joining" /\ tpc = "none"
  /\ \A s \in Setters : spc[s] = "out"
  /\ life' = "closed"
  /\ UNCHANGED <<enableThread, runCb, lockFlag, devcb, tuned, thread, evt,
                 lockers, setters>>

--------------------------------------------------------------------------------
MonitorRound ==
  \/ SetRunCb \/ CallCb \/ UserCbReturns \/ UserCbSetsCallback
  \/ \E l \in Lockers : LockCbIgnores(l) \/ LockCbStores(l)
                        \/ LockCbClears(l) \/ LockCbChains(l)
  \/ ClearRunCb \/ Broadcast \/ ThreadExit

SetterStep(s) ==
  \/ \E c \in UserCb : SetCallbackEnter(s, c)
  \/ \E p \in Paras : SetPara(s, p)
  \/ SetCallbackSame(s) \/ SetCallbackWait(s) \/ SetCallbackStore(s)

LockerStep(l) ==
  \/ LockEnter(l) \/ LockEnterWait(l)
  \/ \E p \in Paras : LockInstall(l, p)
  \/ LockFails(l) \/ LockWaitAgain(l) \/ LockReturn(l)

Next ==
  \/ Fetch \/ MonitorRound
  \/ \E l \in Lockers : LockerStep(l)
  \/ \E s \in Setters : SetterStep(s)
  \/ SpuriousWake
  \/ Open \/ CloseBegin \/ CloseEnd

Spec == Init /\ [][Next]_vars

(* The driver keeps reporting how a tuning went (the DVB frontend reports    *)
(* lock or timeout); callbacks return; a thread that wakes up gets the mutex *)
(* in the end, because the monitor thread gives it up in wait_event.         *)
FetchOutcome == Fetch /\ evt' # None /\ evt'.status # "zero"

Fairness ==
  /\ SF_vars(FetchOutcome)
  /\ WF_vars(MonitorRound) /\ WF_vars(UserCbReturns)
  /\ \A l \in Lockers : SF_vars(LockReturn(l)) /\ WF_vars(LockerStep(l))
  /\ \A s \in Setters : /\ SF_vars(SetCallbackStore(s))
                        /\ WF_vars(SetCallbackSame(s) \/ SetCallbackWait(s))

FairSpec == Spec /\ Fairness

--------------------------------------------------------------------------------
(* Properties.                                                               *)

InLock(l) == lpc[l] \in {"test2", "wait2"}

(* No other thread replaces dev->cb while the monitor thread is between      *)
(* reading the pair cb / user_data and the end of the callback, so the pair  *)
(* is never torn and a callback that AM_FEND_SetCallback has replaced is not *)
(* running when that call returns.  (While the device closes, SetCallback    *)
(* does not wait: enableThread.)                                             *)
CallbackNotSwapped ==
  [][enableThread /\ devcb' # devcb /\ (lpc' # lpc \/ spc' # spc) =>
       tpc \notin {"run", "cb", "flag", "chain"}]_vars

(* AM_FEND_Lock returns AM_SUCCESS only after *status has been stored.       *)
LockReturnsStatus ==
  \A l \in Lockers : lockp[l].result = "ok" => lockp[l].status # None

(* The parameter block of AM_FEND_Lock lives on its caller's stack: neither  *)
(* the device nor a running callback refers to it once the call is over.     *)
NoDanglingLock ==
  \A l \in Lockers : LockCb(l) \in {devcb, cur} => InLock(l)

(* The calls that wait for the monitor thread return: AM_FEND_Lock does not  *)
(* sleep for ever as long as nobody replaces its callback and nobody retunes *)
(* the device, nor AM_FEND_SetCallback, which waits for a running callback.  *)
CallsReturn ==
  /\ \A l \in Lockers : lpc[l] = "wait2" ~>
       (lpc[l] = "out" \/ devcb # LockCb(l) \/ tuned # lockp[l].para)
  /\ \A s \in Setters : spc[s] = "wait" ~> spc[s] = "out"
================================================================================
