------------------------------- MODULE DmxDevice -------------------------------
(****************************************************************************)
(* One demux device of am_adp/am_dmx/am_dmx.c with its linux_dvb driver:    *)
(* the filter table, the data thread that polls the driver and runs the     *)
(* clients' handlers WITHOUT the device lock, the DMX_FL_RUN_CB flag and    *)
(* condition variable behind AM_DMX_Sync, and Open / Close.                 *)
(*                                                                          *)
(* A stretch of code that holds dev->lock from its first to its last access *)
(* to shared state is one action; everywhere the lock is dropped, or was    *)
(* never taken, is a step of its own.  An API call may come from a client's *)
(* own thread or from inside its handler, that is, from the data thread.    *)
(* Calls that return an error before changing anything are not actions.     *)
(****************************************************************************)
EXTENDS Integers

CONSTANTS Clients,         \* code that registers handlers, one identity each
          FilterCount,     \* DMX_FILTER_COUNT
          None,
          DriverFaults,    \* may the DMX_STOP ioctl fail?
          OrderlyClose,    \* is Close called only once nobody holds a filter?
          HandlerSetsSource \* may a handler call AM_DMX_SetSource?

Filters == 0..(FilterCount - 1)

ASSUME DmxAssumption ==
  /\ FilterCount \in Nat \ {0}
  /\ None \notin Clients
  /\ None \notin Filters \X Clients
  /\ {DriverFaults, OrderlyClose, HandlerSetsSource} \subseteq BOOLEAN

VARIABLES
  life,      \* "closed", "open", or, in AM_DMX_Close with am_gAdpLock held,
             \* "joining" the data thread and "freeing" the filters
  left,      \* the filters AM_DMX_Close has not come to yet
  enableThread,
  runCb,     \* dev->flags & DMX_FL_RUN_CB
  used, enable, cb,  \* the fields of dev->filters[f]
  fd,        \* the filters with a descriptor in the driver's table
  tpc,       \* where the data thread is; "none": not running
  mask,      \* ids the poll reported that the thread has not looked at yet
  call,      \* <<f, c>>: handler and filter of the call the thread is making
  sync,      \* sync[c]: client c's thread with respect to AM_DMX_Sync
  st,        \* st[c][f]: c's own view of filter f, see DmxContract
  crashed,   \* a NULL filter pointer dereferenced, a joined thread joined
  \* History:
  bound,     \* bound[f]: has f had AM_DMX_SetCallback since it was allocated?
  stray      \* is the running handler one its filter's holder never set?

vars == <<life, left, enableThread, runCb, used, enable, cb, fd, tpc, mask,
          call, sync, st, crashed, bound, stray>>
device == <<life, left, enableThread, runCb>>
table == <<used, enable, cb, fd, bound>>
thread == <<tpc, mask, call, stray>>

TypeOK ==
  /\ life \in {"closed", "open", "joining", "freeing"}
  /\ left \in SUBSET Filters
  /\ enableThread \in BOOLEAN
  /\ runCb \in BOOLEAN
  /\ used \in [Filters -> BOOLEAN]
  /\ enable \in [Filters -> BOOLEAN]
  /\ cb \in [Filters -> Clients \cup {None}]
  /\ fd \in SUBSET Filters
  /\ tpc \in {"none", "poll", "mark", "scan", "call", "src", "wake"}
  /\ mask \in SUBSET Filters
  /\ call \in (Filters \X Clients) \cup {None}
  /\ sync \in [Clients -> {"out", "waiting", "woken"}]
  /\ st \in [Clients -> [Filters -> {"held", "freed", "syncing", "quiet"}]]
  /\ {crashed, stray} \subseteq BOOLEAN
  /\ bound \in [Filters -> BOOLEAN]

Init ==
  /\ life = "closed"
  /\ left = {}
  /\ enableThread = FALSE
  /\ runCb = FALSE
  /\ used = [f \in Filters |-> FALSE]
  /\ enable = [f \in Filters |-> FALSE]
  /\ cb = [f \in Filters |-> None]
  /\ fd = {}
  /\ tpc = "none"
  /\ mask = {}
  /\ call = None
  /\ sync = [c \in Clients |-> "out"]
  /\ st = [c \in Clients |-> [f \in Filters |-> "quiet"]]
  /\ crashed = FALSE
  /\ bound = [f \in Filters |-> FALSE]
  /\ stray = FALSE

Lowest(f, S) == f \in S /\ \A g \in S : f <= g
Live(f) == used[f] /\ enable[f]
Holds(c, f) == st[c][f] = "held"
InHandler(c) == tpc = "call" /\ \E f \in Filters : call = <<f, c>>

(* Client c can be executing an API call: its thread is not in AM_DMX_Sync,  *)
(* or its handler is running; dmx_get_openned_dev lets the call through.     *)
CanCall(c) == life # "closed" /\ (sync[c] = "out" \/ InHandler(c))

--------------------------------------------------------------------------------
(* Filter table operations: each holds dev->lock throughout.                *)

SetEnable(f, b) == enable' = [enable EXCEPT ![f] = b]

\* Mutant: the free slot is the first one that is not running.
AllocateFilter_NotRunning(c) ==
  /\ CanCall(c)
  /\ OrderlyClose => life = "open"
  /\ \E f \in Filters :
       /\ Lowest(f, {g \in Filters : ~enable[g]})
       /\ used' = [used EXCEPT ![f] = TRUE]
       /\ fd' = fd \cup {f}
       /\ bound' = [bound EXCEPT ![f] = FALSE]
       /\ st' = [st EXCEPT ![c][f] = "held"]
  /\ UNCHANGED <<device, thread, enable, cb, sync, crashed>>

AllocateFilter(c) ==
  /\ CanCall(c)
  /\ OrderlyClose => life = "open"
  /\ \E f \in Filters :
       /\ Lowest(f, {g \in Filters : ~used[g]})
       /\ used' = [used EXCEPT ![f] = TRUE]
       /\ fd' = fd \cup {f}
       /\ bound' = [bound EXCEPT ![f] = FALSE]
       /\ st' = [st EXCEPT ![c][f] = "held"]
  /\ UNCHANGED <<device, thread, enable, cb, sync, crashed>>

\* No code in the tree takes a handler back by setting NULL.
SetCallback(c, f) ==
  /\ CanCall(c) /\ Holds(c, f) /\ used[f]
  /\ cb' = [cb EXCEPT ![f] = c]
  /\ bound' = [bound EXCEPT ![f] = TRUE]
  /\ UNCHANGED <<device, thread, used, enable, fd, sync, st, crashed>>

(* SetSecFilter and SetPesFilter stop a running filter and leave it stopped, *)
(* whether or not the driver then accepts the parameters.                    *)
SetFilter(c, f) ==
  /\ CanCall(c) /\ Holds(c, f) /\ used[f] /\ enable[f]
  /\ SetEnable(f, FALSE)
  /\ UNCHANGED <<device, thread, used, cb, fd, bound, sync, st, crashed>>

(* The scanner, the EPG monitor and the decoders set a handler first, am_dvr *)
(* does not: its filter then runs with what the slot's last user left in cb. *)
StartFilter(c, f) ==
  /\ CanCall(c) /\ Holds(c, f) /\ used[f] /\ ~enable[f]
  /\ SetEnable(f, TRUE)
  /\ UNCHANGED <<device, thread, used, cb, fd, bound, sync, st, crashed>>

(* dmx_stop_filter clears enable even when the driver fails: its test is     *)
(* ret>=0, and the error codes of the module are positive.                   *)
StopFilter(c, f) ==
  /\ CanCall(c) /\ Holds(c, f) /\ used[f] /\ enable[f]
  /\ SetEnable(f, FALSE)
  /\ UNCHANGED <<device, thread, used, cb, fd, bound, sync, st, crashed>>

(* On a handle that is not allocated (the device was closed in between, or   *)
(* the filter freed by a stale handle), Start and Stop read filter->enable   *)
(* through the NULL pointer dmx_get_used_filter left behind.                 *)
StartStopUnallocated(c, f) ==
  /\ CanCall(c) /\ Holds(c, f) /\ ~used[f]
  /\ crashed' = TRUE
  /\ UNCHANGED <<device, table, thread, sync, st>>

(* dmx_free_filter.  A filter that cannot be stopped stays allocated.        *)
Release(f) ==
  /\ \E stopFails \in {FALSE, DriverFaults /\ Live(f)} :
       /\ used' = [used EXCEPT ![f] = stopFails]
       /\ fd' = IF stopFails THEN fd ELSE fd \ {f}
  /\ SetEnable(f, FALSE)

(* The clients overwrite their handle with -1 whatever FreeFilter returns.   *)
(* cb and user_data are left in the table.                                   *)
FreeFilter(c, f) ==
  /\ Holds(c, f) /\ (sync[c] = "out" \/ InHandler(c))
  /\ st' = [st EXCEPT ![c][f] = "freed"]
  /\ bound' = [bound EXCEPT ![f] = FALSE]
  /\ IF life # "closed" /\ used[f]
     THEN Release(f)
     ELSE UNCHANGED <<used, enable, fd>>
  /\ UNCHANGED <<device, thread, cb, sync, crashed>>

--------------------------------------------------------------------------------
(* AM_DMX_Sync from a client's thread.  (From the data thread it returns at  *)
(* once and tells the client nothing.)                                       *)

Mark(c, from, to) ==
  st' = [st EXCEPT ![c] = [f \in Filters |->
           IF st[c][f] = from THEN to ELSE st[c][f]]]

(* Entry: the mutex is taken, the flag looked at, and if a round of handlers *)
(* is in progress pthread_cond_wait gives the mutex back.                    *)
SyncWait(c) ==
  /\ sync[c] = "out" /\ life # "closed" /\ runCb
  /\ \E f \in Filters : st[c][f] = "freed"
  /\ sync' = [sync EXCEPT ![c] = "waiting"]
  /\ Mark(c, "freed", "syncing")
  /\ UNCHANGED <<device, table, thread, crashed>>

SyncAtOnce(c) ==
  /\ sync[c] = "out" /\ (life = "closed" \/ ~runCb)
  /\ \E f \in Filters : st[c][f] = "freed"
  /\ Mark(c, "freed", "quiet")
  /\ UNCHANGED <<device, table, thread, sync, crashed>>

(* Woken, with the mutex again: the while loop tests the flag once more.     *)
SyncAgain(c) ==
  /\ sync[c] = "woken" /\ runCb
  /\ sync' = [sync EXCEPT ![c] = "waiting"]
  /\ UNCHANGED <<device, table, thread, st, crashed>>

(* pthread_cond_wait may also return without a broadcast.                    *)
SpuriousWake(c) ==
  /\ sync[c] = "waiting"
  /\ sync' = [sync EXCEPT ![c] = "woken"]
  /\ UNCHANGED <<device, table, thread, st, crashed>>

\* Mutant: AM_DMX_Sync tests the flag with "if" in place of "while".
SyncReturn_If(c) ==
  /\ sync[c] = "woken"
  /\ sync' = [sync EXCEPT ![c] = "out"]
  /\ Mark(c, "syncing", "quiet")
  /\ UNCHANGED <<device, table, thread, crashed>>

SyncReturn(c) ==
  /\ sync[c] = "woken" /\ ~runCb
  /\ sync' = [sync EXCEPT ![c] = "out"]
  /\ Mark(c, "syncing", "quiet")
  /\ UNCHANGED <<device, table, thread, crashed>>

--------------------------------------------------------------------------------
(* dmx_data_thread.                                                          *)

\* Mutant: the descriptor loop of the driver runs one entry too far.
Poll_OneTooFar ==
  /\ tpc = "poll" /\ enableThread
  /\ \E ready \in (SUBSET (0..FilterCount)) \ {{}} : mask' = ready
  /\ tpc' = "mark"
  /\ UNCHANGED <<device, table, call, stray, sync, st, crashed>>

(* The poll reads the descriptor table without the lock; a timeout, or an    *)
(* empty result, goes round the loop again.                                  *)
Poll ==
  /\ tpc = "poll" /\ enableThread
  /\ \E ready \in (SUBSET fd) \ {{}} : mask' = ready
  /\ tpc' = "mark"
  /\ UNCHANGED <<device, table, call, stray, sync, st, crashed>>

SetRunCb ==
  /\ tpc = "mark"
  /\ tpc' = "scan"
  /\ runCb' = TRUE
  /\ UNCHANGED <<life, left, enableThread, table, mask, call, stray,
                 sync, st, crashed>>

(* The next id of the mask, under the lock: used and enable are looked at    *)
(* again, the handler is captured and the section read.                      *)
Skip(f) ==
  /\ tpc = "scan" /\ Lowest(f, mask)
  /\ mask' = mask \ {f}
  /\ UNCHANGED <<device, table, tpc, call, stray, sync, st, crashed>>

\* Mutant: used and enable are not looked at again under the lock.
Capture_NoRecheck(f) ==
  /\ tpc = "scan" /\ Lowest(f, mask)
  /\ cb[f] # None
  /\ call' = <<f, cb[f]>>
  /\ stray' = (~bound[f] /\ \E c \in Clients : Holds(c, f))
  /\ mask' = mask \ {f}
  /\ tpc' = "call"
  /\ UNCHANGED <<device, table, sync, st, crashed>>

Capture(f) ==
  /\ tpc = "scan" /\ Lowest(f, mask)
  /\ Live(f) /\ cb[f] # None
  /\ call' = <<f, cb[f]>>
  /\ stray' = (~bound[f] /\ \E c \in Clients : Holds(c, f))
  /\ mask' = mask \ {f}
  /\ tpc' = "call"
  /\ UNCHANGED <<device, table, sync, st, crashed>>

(* The handler, running without the lock, returns.                           *)
HandlerReturns ==
  /\ tpc = "call"
  /\ call' = None
  /\ stray' = FALSE
  /\ tpc' = "scan"
  /\ UNCHANGED <<device, table, mask, sync, st, crashed>>

(* A handler that calls AM_DMX_SetSource needs am_gAdpLock.  AM_DMX_Close    *)
(* holds it while it joins this thread, which then waits for ever; at other  *)
(* times the call changes nothing here.                                      *)
HandlerSetSource ==
  /\ HandlerSetsSource
  /\ tpc = "call" /\ life = "joining"
  /\ tpc' = "src"
  /\ UNCHANGED <<device, table, mask, call, stray, sync, st, crashed>>

ClearRunCb ==
  /\ tpc = "scan" /\ mask = {}
  /\ runCb' = FALSE
  /\ tpc' = "wake"
  /\ UNCHANGED <<life, left, enableThread, table, mask, call, stray,
                 sync, st, crashed>>

\* Mutant: the round ends without pthread_cond_broadcast.
Broadcast_Missing ==
  /\ tpc = "wake"
  /\ tpc' = "poll"
  /\ UNCHANGED <<device, table, mask, call, stray, sync, st, crashed>>

Broadcast ==
  /\ tpc = "wake"
  /\ tpc' = "poll"
  /\ sync' = [c \in Clients |-> IF sync[c] = "waiting" THEN "woken" ELSE sync[c]]
  /\ UNCHANGED <<device, table, mask, call, stray, st, crashed>>

ThreadExit ==
  /\ tpc = "poll" /\ ~enableThread
  /\ tpc' = "none"
  /\ UNCHANGED <<device, table, mask, call, stray, sync, st, crashed>>

--------------------------------------------------------------------------------
(* Open and Close, both under am_gAdpLock.                                   *)

Open ==
  /\ life = "closed"
  /\ life' = "open"
  /\ enableThread' = TRUE
  /\ runCb' = FALSE
  /\ tpc' = "poll"
  /\ UNCHANGED <<left, table, mask, call, stray, sync, st, crashed>>

CloseBegin ==
  /\ life = "open"
  /\ OrderlyClose => \A c \in Clients, f \in Filters : ~Holds(c, f)
  /\ life' = "joining"
  /\ enableThread' = FALSE
  /\ UNCHANGED <<left, runCb, table, thread, sync, st, crashed>>

\* Mutant: Close does not wait for the thread.
CloseJoins_NoJoin ==
  /\ life = "joining"
  /\ life' = "freeing"
  /\ left' = Filters
  /\ UNCHANGED <<enableThread, runCb, table, thread, sync, st, crashed>>

CloseJoins ==
  /\ life = "joining" /\ tpc = "none"
  /\ life' = "freeing"
  /\ left' = Filters
  /\ UNCHANGED <<enableThread, runCb, table, thread, sync, st, crashed>>

(* One filter after the other, without dev->lock: the clients' calls go on   *)
(* in between.  A filter that cannot be stopped is passed over.              *)
CloseFrees(f) ==
  /\ life = "freeing" /\ Lowest(f, left)
  /\ left' = left \ {f}
  /\ Release(f)
  /\ bound' = [bound EXCEPT ![f] = bound[f] /\ used'[f]]
  /\ UNCHANGED <<life, enableThread, runCb, cb, thread, sync, st, crashed>>

(* The driver's table, the lock and the condition variable go, whoever may   *)
(* be inside AM_DMX_Sync; one woken by then still leaves it (SyncReturn).    *)
CloseEnd ==
  /\ life = "freeing" /\ left = {}
  /\ life' = "closed"
  /\ fd' = {}
  /\ UNCHANGED <<left, enableThread, runCb, used, enable, cb, bound, thread, sync,
                 st, crashed>>

(* AM_DMX_Close looks at openned before it takes am_gAdpLock: a second call, *)
(* waiting for the first, then joins a thread that is joined already.  (If   *)
(* the device was opened again in between, that call is a CloseBegin.)       *)
CloseTwice ==
  /\ ~OrderlyClose /\ life = "freeing" /\ left = {}
  /\ crashed' = TRUE
  /\ UNCHANGED <<device, table, thread, sync, st>>

CloseStep == CloseJoins \/ (\E f \in Filters : CloseFrees(f)) \/ CloseEnd

--------------------------------------------------------------------------------
ClientStep(c) ==
  \/ AllocateFilter(c)
  \/ \E f \in Filters :
       \/ SetCallback(c, f) \/ SetFilter(c, f) \/ StartFilter(c, f)
       \/ StopFilter(c, f) \/ StartStopUnallocated(c, f) \/ FreeFilter(c, f)
  \/ SyncWait(c) \/ SyncAtOnce(c) \/ SyncAgain(c)
  \/ SpuriousWake(c) \/ SyncReturn(c)

(* The steps of the data thread once a poll has reported something.          *)
ThreadRound ==
  \/ SetRunCb
  \/ \E f \in Filters : Skip(f) \/ Capture(f)
  \/ HandlerReturns \/ HandlerSetSource
  \/ ClearRunCb \/ Broadcast \/ ThreadExit

Next ==
  /\ ~crashed
  /\ \/ \E c \in Clients : ClientStep(c)
     \/ Poll
     \/ ThreadRound
     \/ Open \/ CloseBegin \/ CloseTwice \/ CloseStep

Spec == Init /\ [][Next]_vars

(* Handlers return and the thread is scheduled; that data arrives (Poll) is  *)
(* not assumed.  A thread coming out of pthread_cond_wait competes with the  *)
(* data thread for the mutex, which is free while that thread polls: strong  *)
(* fairness.  Nothing is assumed of what clients choose to call.             *)
Fairness ==
  /\ WF_vars(~crashed /\ ThreadRound)
  /\ WF_vars(~crashed /\ CloseStep)
  /\ \A c \in Clients : SF_vars(~crashed /\ SyncReturn(c))

FairSpec == Spec /\ Fairness

--------------------------------------------------------------------------------
(* Properties.                                                               *)

(* What the contract is about: handlers that were registered for the filter  *)
(* they run for.  A stray one is left over in cb from the slot's last user.  *)
Contract == INSTANCE DmxContract
  WITH st <- st, call <- IF stray THEN None ELSE call

(* The device implements its contract: a handler registered for a filter is  *)
(* started only while its client holds that filter, although the poll result *)
(* may be older than a free, a stop or a reallocation of the id, and         *)
(* AM_DMX_Sync returns only when the handlers of what was given back are     *)
(* over.  It is not promised of a filter that is started without a handler   *)
(* being set: there the handler of the slot's last user can run.             *)
ImplementsContract == Contract!Spec

(* After FreeFilter and Sync no call of the handler registered for the freed *)
(* filter is running (am_scan.c and am_epg.c free its context next).         *)
Quiescence == Contract!Quiescence

(* As long as the device is closed only when idle, a handle a client holds   *)
(* stays allocated and is nobody else's, even though a failed FreeFilter     *)
(* leaves a filter allocated that nobody knows of.                           *)
HandlesExclusive ==
  OrderlyClose => \A c \in Clients, f \in Filters : Holds(c, f) =>
    used[f] /\ \A d \in Clients \ {c} : ~Holds(d, f)

(* A closed device is at rest: its thread is gone and no handler runs, and   *)
(* nobody is left asleep on the condition variable that Close destroys.  If  *)
(* it was closed when nobody held a filter, none is left allocated, not even *)
(* one that an earlier FreeFilter could not stop and nobody knew of.         *)
ClosedDeviceIsIdle ==
  life = "closed" =>
    /\ tpc = "none" /\ call = None /\ ~runCb
    /\ \A c \in Clients : sync[c] # "waiting"
    /\ OrderlyClose => \A f \in Filters : ~used[f] /\ ~enable[f]

(* The calls that wait for the data thread return: a thread that sleeps in   *)
(* AM_DMX_Sync gets out of it, and AM_DMX_Close, which joins the data thread *)
(* while it holds am_gAdpLock, comes to its end (provided handlers stay away *)
(* from that lock).                                                          *)
CallsReturn ==
  /\ \A c \in Clients : sync[c] = "waiting" ~> sync[c] = "out"
  /\ life = "joining" ~> life = "closed"
================================================================================
