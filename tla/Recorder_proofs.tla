----------------------------- MODULE Recorder_proofs -----------------------------
(****************************************************************************)
(* Proofs about Recorder for any number of callers and rows, with or        *)
(* without work found by the clock and calls made by event callbacks.       *)
(****************************************************************************)
EXTENDS Recorder, TLAPS

(* The flag AM_REC_FL_RECORDING is up exactly while a record thread is there *)
(* that nobody has begun to join.                                            *)
FlagTellsThread ==
  /\ mpc = "join" => rt # "none" /\ recording = FALSE
  /\ mpc # "join" => \/ recording = TRUE /\ rt # "none"
                     \/ recording = FALSE /\ rt = "none"

(* Where the management thread may go on: after a join, and after a start.   *)
GoesOn ==
  /\ mpc = "join" => after \notin {"tstarted", "begin"}
  /\ mpc = "begin" => after \in {"expire", "handled", "tstarted"}

(* The mailbox is locked from AM_REC_Create until the thread has begun; a    *)
(* recorder that is down has no thread.                                      *)
Started ==
  /\ evt = "init" => mpc \in {"new", "gone"}
  /\ life = "down" => mpc = "gone"

IndInv ==
  /\ TypeOK
  /\ SignalReachesManager
  /\ FlagTellsThread
  /\ IdleWhenGone
  /\ GoesOn
  /\ Started

USE RecAssumption DEF RecAssumption

--------------------------------------------------------------------------------
LEMMA InitIndInv == Init => IndInv
<1> SUFFICES ASSUME Init PROVE IndInv
  OBVIOUS
<1>1. TypeOK
  BY DEF Init, TypeOK, Request, NoRow, NoRequest, Locked
<1>2. SignalReachesManager /\ FlagTellsThread /\ IdleWhenGone /\ GoesOn /\ Started
  BY DEF Init, SignalReachesManager, FlagTellsThread, IdleWhenGone, GoesOn, Started
<1> QED
  BY <1>1, <1>2 DEF IndInv

LEMMA NoRequestIsRequest == NoRequest \in Request
  BY DEF NoRequest, Request, NoRow

(* What a signal or broadcast may change.                                    *)
LEMMA SignalMoves ==
  ASSUME NEW cp \in [Callers -> {"out", "waiting", "woken", "signal", "join"}],
         NEW r \in {"none", "run", "closing", "notify", "call", "callwait", "ended"},
         mpc \in Locked \cup {"new", "asleep", "late", "woken", "join", "gone"},
         SignalCond(cp, r)
  PROVE  /\ mpc' = mpc \/ (mpc = "asleep" /\ mpc' = "woken")
         /\ rt' = r \/ (r = "callwait" /\ rt' = "call")
         /\ cpc' \in [Callers -> {"out", "waiting", "woken", "signal", "join"}]
         /\ \A c \in Callers : cpc'[c] = "waiting" => cp[c] = "waiting"
  BY DEF SignalCond

(* The steps of the callers.                                                 *)
LEMMA CallPreserves ==
  ASSUME IndInv, NEW c \in Callers, CallStep(c)
  PROVE  IndInv'
<1> USE DEF IndInv
<1>1. ASSUME NEW q \in Request, WaitEventsDone(c, q) \/ Refuse(c, q) \/ AddFails(c, q)
      PROVE  IndInv'
  <2>1. /\ UNCHANGED <<life, evt, handling, mpc, after, due, recording, timeshift, dbid,
                       endcheck, rt, rtOf, status>>
        /\ \/ cpc' = [cpc EXCEPT ![c] = "waiting"] /\ evt # "none"
           \/ cpc' = [cpc EXCEPT ![c] = "out"]
        /\ creq' \in [Callers -> Request]
    BY <1>1 DEF WaitEventsDone, Refuse, AddFails, mailbox, manager, flags, recorder,
       TypeOK, Request, NoRow, NoRequest
  <2>2. TypeOK'
    BY <2>1 DEF TypeOK
  <2>3. SignalReachesManager'
    BY <2>1 DEF SignalReachesManager, TypeOK
  <2> QED
    BY <2>1, <2>2, <2>3 DEF FlagTellsThread, IdleWhenGone, GoesOn, Started
<1>2. ASSUME NEW q \in Request, LeaveRequest(c, q) \/ AddTimeRecord(c, q)
      PROVE  IndInv'
  <2> DEFINE cp == [cpc EXCEPT ![c] = "out"]
  <2>1. /\ UNCHANGED <<life, handling, after, due, recording, timeshift, endcheck, rtOf>>
        /\ SignalCond(cp, rt) /\ creq' = [creq EXCEPT ![c] = NoRequest]
        /\ evt = "none" /\ evt' \in (Event \ {"quit"}) \cup {"none"}
        /\ mpc \notin Locked
    BY <1>2 DEF LeaveRequest, AddTimeRecord, mailbox, flags, InCall, LockFree
  <2>2. /\ dbid' \in Recs \cup {None}
        /\ status' \in [Recs -> {"absent", "notstart", "wait", "recording", "complete"}]
    BY <1>2 DEF LeaveRequest, AddTimeRecord, TypeOK, flags, Request, NoRow, Event
  <2>3. cp \in [Callers -> {"out", "waiting", "woken", "signal", "join"}]
    BY DEF TypeOK
  <2> HIDE DEF cp
  <2>4. /\ mpc' = mpc \/ (mpc = "asleep" /\ mpc' = "woken")
        /\ rt' = rt \/ (rt = "callwait" /\ rt' = "call")
        /\ cpc' \in [Callers -> {"out", "waiting", "woken", "signal", "join"}]
        /\ \A d \in Callers : cpc'[d] = "waiting" => cp[d] = "waiting"
    BY <2>1, <2>3, SignalMoves DEF TypeOK
  <2>5. TypeOK'
    <3>1. creq' \in [Callers -> Request]
      BY <2>1, NoRequestIsRequest DEF TypeOK
    <3>2. evt' \in Event \cup {"init", "none"}
      BY <2>1
    <3>3. mpc' \in Locked \cup {"new", "asleep", "late", "woken", "join", "gone"}
      BY <2>4 DEF TypeOK
    <3>4. rt' \in {"none", "run", "closing", "notify", "call", "callwait", "ended"}
      BY <2>4 DEF TypeOK
    <3> QED
      BY <2>1, <2>2, <2>4, <3>1, <3>2, <3>3, <3>4 DEF TypeOK
  <2>6. SignalReachesManager'
    BY <2>1, <2>4 DEF SignalReachesManager, TypeOK, cp
  <2> QED
    BY <2>1, <2>4, <2>5, <2>6 DEF FlagTellsThread, IdleWhenGone, GoesOn, Started, Event
<1>3. CASE DestroyEnter(c) \/ DestroyRequests(c)
  <2>1. /\ UNCHANGED <<handling, mpc, after, due, recording, timeshift, dbid,
                       endcheck, rt, rtOf, status>>
        /\ \/ life' = "closing" /\ evt' = evt
           \/ life' = life /\ evt' = "quit"
        /\ \/ cpc' = [cpc EXCEPT ![c] = "woken"]
           \/ cpc' = [cpc EXCEPT ![c] = "signal"]
    <3>1. CASE DestroyEnter(c)
      BY <3>1 DEF DestroyEnter, mailbox, manager, flags, recorder, TypeOK
    <3>2. CASE DestroyRequests(c)
      BY <3>2 DEF DestroyRequests, manager, flags, recorder
    <3> QED
      BY <1>3, <3>1, <3>2
  <2>a. creq' \in [Callers -> Request]
    <3>1. [op |-> "quit", row |-> None] \in Request
      BY DEF Request, NoRow
    <3> QED
      BY <1>3, <3>1, NoRequestIsRequest DEF DestroyEnter, DestroyRequests, TypeOK
  <2>2. TypeOK'
    BY <2>1, <2>a DEF TypeOK, Event
  <2>3. SignalReachesManager'
    BY <2>1 DEF SignalReachesManager, TypeOK
  <2> QED
    BY <2>1, <2>2, <2>3 DEF FlagTellsThread, IdleWhenGone, GoesOn, Started
<1>4. CASE DestroySignals(c)
  <2> DEFINE cp == [cpc EXCEPT ![c] = "join"]
  <2>1. /\ UNCHANGED <<life, evt, handling, after, due, recording, timeshift, dbid,
                       endcheck, rtOf, status, creq>>
        /\ SignalCond(cp, rt)
    BY <1>4 DEF DestroySignals, mailbox, flags
  <2>2. cp \in [Callers -> {"out", "waiting", "woken", "signal", "join"}]
    BY DEF TypeOK
  <2> HIDE DEF cp
  <2>3. /\ mpc' = mpc \/ (mpc = "asleep" /\ mpc' = "woken")
        /\ rt' = rt \/ (rt = "callwait" /\ rt' = "call")
        /\ cpc' \in [Callers -> {"out", "waiting", "woken", "signal", "join"}]
        /\ \A d \in Callers : cpc'[d] = "waiting" => cp[d] = "waiting"
    BY <2>1, <2>2, SignalMoves DEF TypeOK
  <2>4. TypeOK'
    BY <2>1, <2>3 DEF TypeOK
  <2>5. SignalReachesManager'
    BY <2>1, <2>3 DEF SignalReachesManager, TypeOK, cp
  <2> QED
    BY <2>1, <2>3, <2>4, <2>5 DEF FlagTellsThread, IdleWhenGone, GoesOn, Started
<1>5. CASE DestroyJoins(c)
  BY <1>5 DEF DestroyJoins, mailbox, manager, flags, recorder, TypeOK,
     SignalReachesManager, FlagTellsThread, IdleWhenGone, GoesOn, Started
<1> QED
  BY <1>1, <1>2, <1>3, <1>4, <1>5 DEF CallStep

--------------------------------------------------------------------------------
(* The management thread.                                                    *)

(* Its waits, and the checks by the clock that move nothing else.            *)
LEMMA WaitPreserves ==
  ASSUME IndInv,
         \/ Timeout \/ WakeLate \/ Wake \/ CheckNotDue \/ NothingDue \/ Sleep
         \/ Expire \/ Replace \/ NotifySoon
  PROVE  IndInv'
<1> USE DEF IndInv
<1>0. UNCHANGED <<life, recording, endcheck, rt, rtOf, cpc, creq>>
  BY DEF Timeout, WakeLate, Wake, CheckNotDue, NothingDue, Sleep, Expire, Replace,
     NotifySoon, mailbox, flags, recorder, callers
<1>1. CASE Timeout \/ WakeLate \/ Wake \/ CheckNotDue \/ NothingDue \/ Sleep
  <2>1. /\ UNCHANGED <<evt, after, due, timeshift, dbid, status>>
        /\ mpc \in {"asleep", "late", "woken", "check", "due", "end"}
        /\ mpc' \in {"late", "check", "handle", "end", "expire", "asleep"}
        /\ handling' \in Event \cup {"none"}
    BY <1>1 DEF Timeout, WakeLate, Wake, CheckNotDue, NothingDue, Sleep, mailbox, flags,
       TypeOK, Started
  <2> QED
    BY <1>0, <2>1 DEF TypeOK, Locked, SignalReachesManager, FlagTellsThread, IdleWhenGone, GoesOn, Started
<1>2. CASE Expire
  BY <1>0, <1>2 DEF Expire, mailbox, flags, TypeOK, Locked, SignalReachesManager,
     FlagTellsThread, IdleWhenGone, GoesOn, Started
<1>3. CASE Replace
  BY <1>0, <1>3 DEF Replace, mailbox, TypeOK, Locked, SignalReachesManager,
     FlagTellsThread, IdleWhenGone, GoesOn, Started
<1>4. CASE NotifySoon
  <2>1. /\ evt' \in {evt, "stop", "start"} /\ dbid' \in Recs \cup {None}
        /\ status' \in [Recs -> {"absent", "notstart", "wait", "recording", "complete"}]
    BY <1>4 DEF NotifySoon, CallbackCalls, TypeOK
  <2> QED
    BY <1>0, <1>4, <2>1 DEF NotifySoon, TypeOK, Event, Locked, SignalReachesManager,
       FlagTellsThread, IdleWhenGone, GoesOn, Started
<1> QED
  BY <1>1, <1>2, <1>3, <1>4

(* Every way of stopping a recording, and the join that follows.             *)
LEMMA StopPreserves ==
  ASSUME IndInv,
         \/ CheckDeleted \/ EndTime \/ HandleStop \/ Exit \/ Join
         \/ \E r \in Recs : RecordDue(r)
  PROVE  IndInv'
<1> USE DEF IndInv
<1>1. ASSUME NEW k \in (Locked \cup {"asleep", "gone"}) \ {"begin", "tstarted"},
             StopRecord(k), UNCHANGED mailbox,
             mpc \in Locked, mpc # "begin"
      PROVE  IndInv'
  <2>1. CASE recording
    <3>1. TypeOK'
      <4>1. /\ UNCHANGED <<life, evt, handling, due, timeshift, dbid, endcheck, rt, rtOf,
                           status, cpc, creq>>
            /\ mpc' = "join" /\ after' = k /\ recording' = FALSE
        BY <1>1, <2>1 DEF StopRecord, mailbox, recorder, callers
      <4> QED
        BY <4>1 DEF TypeOK
    <3>2. SignalReachesManager'
      BY <1>1, <2>1 DEF StopRecord, mailbox, recorder, callers, SignalReachesManager
    <3>3. FlagTellsThread' /\ IdleWhenGone'
      BY <1>1, <2>1 DEF StopRecord, mailbox, recorder, callers, FlagTellsThread, IdleWhenGone, TypeOK, Locked
    <3>4. GoesOn' /\ Started'
      BY <1>1, <2>1 DEF StopRecord, mailbox, recorder, callers, GoesOn, Started, TypeOK, Locked
    <3> QED
      BY <3>1, <3>2, <3>3, <3>4
  <2>2. CASE ~recording
    <3>1. TypeOK'
      BY <1>1, <2>2 DEF StopRecord, mailbox, recorder, callers, TypeOK, Locked, Event
    <3>2. SignalReachesManager'
      BY <1>1, <2>2 DEF StopRecord, mailbox, recorder, callers, SignalReachesManager
    <3>3. FlagTellsThread' /\ IdleWhenGone'
      BY <1>1, <2>2 DEF StopRecord, mailbox, recorder, callers, FlagTellsThread, IdleWhenGone, TypeOK, Locked
    <3>4. GoesOn' /\ Started'
      BY <1>1, <2>2 DEF StopRecord, mailbox, recorder, callers, GoesOn, Started, TypeOK, Locked
    <3> QED
      BY <3>1, <3>2, <3>3, <3>4
  <2> QED
    BY <2>1, <2>2
<1>2. CASE CheckDeleted
  <2>1. CASE dbid # None /\ ~Present(dbid)
    BY <1>1, <1>2, <2>1 DEF CheckDeleted, Locked
  <2>2. CASE ~(dbid # None /\ ~Present(dbid))
    <3>1. TypeOK'
      BY <1>2, <2>2 DEF CheckDeleted, mailbox, flags, recorder, callers, TypeOK, Locked, Event
    <3>2. SignalReachesManager'
      BY <1>2, <2>2 DEF CheckDeleted, mailbox, flags, recorder, callers, SignalReachesManager
    <3>3. FlagTellsThread' /\ IdleWhenGone'
      BY <1>2, <2>2 DEF CheckDeleted, mailbox, flags, recorder, callers, FlagTellsThread, IdleWhenGone, TypeOK, Locked
    <3>4. GoesOn' /\ Started'
      BY <1>2, <2>2 DEF CheckDeleted, mailbox, flags, recorder, callers, GoesOn, Started, TypeOK, Locked
    <3> QED
      BY <3>1, <3>2, <3>3, <3>4
  <2> QED
    BY <2>1, <2>2
<1>3. CASE EndTime
  BY <1>1, <1>3 DEF EndTime, Locked
<1>4. CASE HandleStop
  BY <1>1, <1>4 DEF HandleStop, Locked
<1>5. CASE Exit
  BY <1>1, <1>5 DEF Exit, Locked
<1>6. CASE Join
  <2>1. TypeOK'
    BY <1>6 DEF Join, mailbox, callers, TypeOK, GoesOn
  <2>2. SignalReachesManager'
    BY <1>6 DEF Join, mailbox, callers, SignalReachesManager
  <2>3. FlagTellsThread' /\ IdleWhenGone'
    BY <1>6 DEF Join, mailbox, callers, FlagTellsThread, IdleWhenGone, TypeOK, Locked
  <2>4. GoesOn' /\ Started'
    BY <1>6 DEF Join, mailbox, callers, GoesOn, Started, TypeOK, Locked
  <2> QED
    BY <2>1, <2>2, <2>3, <2>4
<1>7. ASSUME NEW r \in Recs, RecordDue(r)
      PROVE  IndInv'
  <2>1. CASE recording
    BY <1>7, <2>1 DEF RecordDue, mailbox, recorder, callers, TypeOK, Locked,
       SignalReachesManager, FlagTellsThread, IdleWhenGone, GoesOn, Started
  <2>2. CASE ~recording
    BY <1>7, <2>2 DEF RecordDue, mailbox, recorder, callers, TypeOK, Locked,
       SignalReachesManager, FlagTellsThread, IdleWhenGone, GoesOn, Started
  <2> QED
    BY <2>1, <2>2
<1> QED
  BY <1>2, <1>3, <1>4, <1>5, <1>6, <1>7

(* am_rec_start_record in its three outcomes.                                *)
LEMMA StartPreserves ==
  ASSUME IndInv, StartRecord \/ StartBusy \/ StartFails
  PROVE  IndInv'
<1> USE DEF IndInv
<1>0. /\ UNCHANGED <<life, handling, after, due, cpc, creq>>
      /\ mpc = "begin" /\ mpc' \in {"expire", "handled"}
  BY DEF StartRecord, StartBusy, StartFails, ContinueAt, GoesOn, mailbox, callers
<1>1. /\ evt' \in {evt, "stop", "start"} /\ dbid' \in Recs \cup {None}
      /\ timeshift' \in BOOLEAN /\ endcheck' \in BOOLEAN /\ recording' \in BOOLEAN
      /\ rtOf' \in Recs \cup {None}
      /\ status' \in [Recs -> {"absent", "notstart", "wait", "recording", "complete"}]
  <2>1. CASE StartRecord
    BY <2>1 DEF StartRecord, TypeOK, mailbox
  <2>2. CASE StartBusy
    BY <2>2 DEF StartBusy, CallbackCalls, TypeOK, recorder
  <2>3. CASE StartFails
    BY <2>3 DEF StartFails, TypeOK, recorder
  <2> QED
    BY <2>1, <2>2, <2>3
<1>2. \/ recording' = TRUE /\ rt' # "none"
      \/ recording' = FALSE /\ rt' = "none"
  BY <1>0 DEF StartRecord, StartBusy, StartFails, recorder, FlagTellsThread
<1>3. rt' \in {rt, "run"}
  BY DEF StartRecord, StartBusy, StartFails, recorder
<1> QED
  BY <1>0, <1>1, <1>2, <1>3 DEF TypeOK, Event, Locked, SignalReachesManager,
     FlagTellsThread, IdleWhenGone, GoesOn, Started

(* Begin, and the handling of a request.                                     *)
LEMMA HandlePreserves ==
  ASSUME IndInv,
         \/ Begin \/ HandleStart \/ HandleOther \/ TimeshiftStopped
         \/ HandleAgain \/ HandleDone
  PROVE  IndInv'
<1> USE DEF IndInv
<1>1. CASE Begin \/ HandleDone
  <2>1. /\ cpc' \in [Callers -> {"out", "waiting", "woken", "signal", "join"}]
        /\ \A c \in Callers : cpc'[c] # "waiting"
        /\ rt' \in {"none", "run", "closing", "notify", "call", "ended"}
        /\ rt' = "none" <=> rt = "none"
    BY <1>1 DEF Begin, HandleDone, WakeCallers, TypeOK
  <2> QED
    BY <1>1, <2>1 DEF Begin, HandleDone, flags, TypeOK, Locked, SignalReachesManager,
       FlagTellsThread, IdleWhenGone, GoesOn, Started
<1>2. CASE HandleStart
  <2>1. TypeOK'
    <3>1. timeshift' \in BOOLEAN
      BY <1>2 DEF HandleStart, TypeOK
    <3>2. mpc' \in Locked /\ after' \in Locked \cup {"asleep", "tstarted", "gone"}
      BY <1>2 DEF HandleStart, TypeOK, Locked
    <3> QED
      BY <1>2, <3>1, <3>2 DEF HandleStart, mailbox, recorder, callers, TypeOK
  <2>2. SignalReachesManager'
    BY <1>2 DEF HandleStart, mailbox, recorder, callers, SignalReachesManager
  <2>3. FlagTellsThread' /\ IdleWhenGone'
    BY <1>2 DEF HandleStart, mailbox, recorder, callers, FlagTellsThread, IdleWhenGone, TypeOK, Locked
  <2>4. GoesOn' /\ Started'
    BY <1>2 DEF HandleStart, mailbox, recorder, callers, GoesOn, Started, TypeOK, Locked
  <2> QED
    BY <2>1, <2>2, <2>3, <2>4
<1>3. CASE HandleOther \/ TimeshiftStopped \/ HandleAgain
  <2>1. TypeOK'
    <3>1. /\ UNCHANGED <<life, evt, after, due, recording, dbid, endcheck, rt, rtOf,
                         status, cpc, creq>>
          /\ mpc' \in {"handled", "handle"}
      BY <1>3 DEF HandleOther, TimeshiftStopped, HandleAgain, mailbox, flags, recorder, callers
    <3>2. timeshift' \in BOOLEAN
      BY <1>3 DEF HandleOther, TimeshiftStopped, HandleAgain, flags, TypeOK
    <3>3. handling' \in Event \cup {"none"}
      BY <1>3 DEF HandleOther, TimeshiftStopped, HandleAgain, mailbox, TypeOK, Started
    <3> QED
      BY <3>1, <3>2, <3>3 DEF TypeOK, Locked
  <2>2. SignalReachesManager'
    BY <1>3 DEF HandleOther, TimeshiftStopped, HandleAgain, mailbox, flags, recorder, callers, SignalReachesManager
  <2>3. FlagTellsThread' /\ IdleWhenGone'
    BY <1>3 DEF HandleOther, TimeshiftStopped, HandleAgain, mailbox, flags, recorder, callers, FlagTellsThread, IdleWhenGone, TypeOK, Locked
  <2>4. GoesOn' /\ Started'
    BY <1>3 DEF HandleOther, TimeshiftStopped, HandleAgain, mailbox, flags, recorder, callers, GoesOn, Started, TypeOK, Locked
  <2> QED
    BY <2>1, <2>2, <2>3, <2>4
<1> QED
  BY <1>1, <1>2, <1>3

--------------------------------------------------------------------------------
(* The record thread, which takes the flag from nobody.                      *)
LEMMA RecordPreserves ==
  ASSUME IndInv, RecordStep \/ RecordFails
  PROVE  IndInv'
<1> USE DEF IndInv
<1>1. CASE RecordStops \/ RecordFails \/ RecordNotifies \/ CallbackWaits
  BY <1>1 DEF RecordStops, RecordFails, RecordNotifies, CallbackWaits, mailbox, manager,
     flags, callers, TypeOK, SignalReachesManager, FlagTellsThread, IdleWhenGone, GoesOn, Started
<1>2. CASE RecordCloses
  BY <1>2 DEF RecordCloses, mailbox, manager, flags, callers, TypeOK,
     SignalReachesManager, FlagTellsThread, IdleWhenGone, GoesOn, Started
<1>3. CASE CallbackStops
  <2>1. CASE recording
    <3>1. /\ mpc' = mpc \/ (mpc = "asleep" /\ mpc' = "woken")
          /\ rt' = "ended"
          /\ cpc' \in [Callers -> {"out", "waiting", "woken", "signal", "join"}]
      BY <1>3, <2>1, SignalMoves DEF CallbackStops, TypeOK
    <3> QED
      <4>1. TypeOK'
        BY <1>3, <2>1, <3>1 DEF CallbackStops, flags, LockFree, TypeOK, Locked, Event
      <4>2. SignalReachesManager'
        BY <1>3, <2>1, <3>1 DEF CallbackStops, flags, LockFree, SignalReachesManager
      <4>3. FlagTellsThread' /\ IdleWhenGone'
        BY <1>3, <2>1, <3>1 DEF CallbackStops, flags, LockFree, FlagTellsThread, IdleWhenGone, TypeOK, Locked
      <4>4. GoesOn' /\ Started'
        BY <1>3, <2>1, <3>1 DEF CallbackStops, flags, LockFree, GoesOn, Started, TypeOK, Locked
      <4> QED
        BY <4>1, <4>2, <4>3, <4>4
  <2>2. CASE ~recording
    BY <1>3, <2>2 DEF CallbackStops, flags, TypeOK,
       SignalReachesManager, FlagTellsThread, IdleWhenGone, GoesOn, Started
  <2> QED
    BY <2>1, <2>2
<1> QED
  BY <1>1, <1>2, <1>3 DEF RecordStep

LEMMA NextIndInv == IndInv /\ [Next]_vars => IndInv'
<1> SUFFICES ASSUME IndInv, [Next]_vars
             PROVE  IndInv'
  OBVIOUS
<1>1. CASE Create
  <2>1. TypeOK'
    BY <1>1 DEF IndInv, Create, recorder, callers, TypeOK, Locked, Event
  <2>2. SignalReachesManager'
    BY <1>1 DEF IndInv, Create, recorder, callers, SignalReachesManager
  <2>3. FlagTellsThread' /\ IdleWhenGone'
    BY <1>1 DEF IndInv, Create, recorder, callers, FlagTellsThread, IdleWhenGone, Started
  <2>4. GoesOn' /\ Started'
    BY <1>1 DEF IndInv, Create, recorder, callers, GoesOn, Started, TypeOK, Locked
  <2> QED
    BY <2>1, <2>2, <2>3, <2>4 DEF IndInv
<1>2. CASE SpuriousWake
  BY <1>2 DEF SpuriousWake, IndInv, mailbox, flags, TypeOK, Locked,
     SignalReachesManager, FlagTellsThread, IdleWhenGone, GoesOn, Started
<1>3. ASSUME NEW c \in Callers, CallStep(c)
      PROVE  IndInv'
  BY <1>3, CallPreserves
<1>4. ASSUME NEW r \in Recs, UserDeletes(r)
      PROVE  IndInv'
  BY <1>4 DEF UserDeletes, IndInv, mailbox, manager, flags, recorder, callers, TypeOK,
     SignalReachesManager, FlagTellsThread, IdleWhenGone, GoesOn, Started
<1>5. CASE ManagerStep
  BY <1>5, WaitPreserves, StopPreserves, StartPreserves, HandlePreserves DEF ManagerStep
<1>6. CASE RecordStep \/ RecordFails
  BY <1>6, RecordPreserves
<1>7. CASE UNCHANGED vars
  BY <1>7 DEF vars, IndInv, TypeOK, SignalReachesManager, FlagTellsThread, IdleWhenGone, GoesOn, Started
<1> QED
  BY <1>1, <1>2, <1>3, <1>4, <1>5, <1>6, <1>7 DEF Next

--------------------------------------------------------------------------------
(* The invariant holds of every reachable state.                             *)
THEOREM Invariance == Spec => []IndInv
  BY InitIndInv, NextIndInv, PTL DEF Spec

(* Every variable of the recorder keeps its type; in particular the          *)
(* management thread never takes "init" out of the mailbox as a request.     *)
THEOREM TypeCorrect == Spec => []TypeOK
<1>1. IndInv => TypeOK
  BY DEF IndInv
<1> QED
  BY <1>1, Invariance, PTL

(* The one signal of a request cannot wake a caller in place of the          *)
(* management thread, however many callers there are.                        *)
THEOREM SignalsArrive == Spec => []SignalReachesManager
<1>1. IndInv => SignalReachesManager
  BY DEF IndInv
<1> QED
  BY <1>1, Invariance, PTL

(* After AM_REC_Destroy no record thread is left and the flag is down.       *)
THEOREM DestroyLeavesNothing == Spec => []GoneIsIdle
<1>1. IndInv => GoneIsIdle
  BY DEF IndInv, GoneIsIdle
<1> QED
  BY <1>1, Invariance, PTL

(* A record thread is created only when none is there, running or ended and  *)
(* not joined, whatever callbacks call and the clock demands.                *)
THEOREM OneRecordThread == Spec => RecordThreadsJoined
<1>1. IndInv /\ [Next]_vars => [rt' = "run" /\ rt # "run" => rt = "none"]_vars
  <2> SUFFICES ASSUME IndInv, Next, rt' = "run", rt # "run"
               PROVE  rt = "none"
    BY DEF vars
  <2>1. ASSUME NEW cp, NEW r, SignalCond(cp, r), r # "run"
        PROVE  FALSE
    BY <2>1 DEF SignalCond
  <2>2. ~(\E c \in Callers : CallStep(c))
    BY <2>1 DEF CallStep, WaitEventsDone, Refuse, LeaveRequest, AddTimeRecord, AddFails,
       DestroyEnter, DestroyRequests, DestroySignals, DestroyJoins, recorder
  <2>3. ~(RecordStep \/ RecordFails)
    BY <2>1 DEF RecordStep, RecordFails, RecordStops, RecordCloses, RecordNotifies,
       CallbackWaits, CallbackStops
  <2>4. ~(Create \/ SpuriousWake \/ \E r \in Recs : UserDeletes(r))
    BY DEF Create, SpuriousWake, UserDeletes, recorder
  <2>5. CASE ManagerStep
    <3>1. StartRecord
      BY <2>5 DEF ManagerStep, Begin, Timeout, WakeLate, Wake, CheckNotDue, CheckDeleted,
         NotifySoon, NothingDue, RecordDue, Replace, Expire, EndTime, Sleep, StartBusy,
         StartFails, HandleStart, HandleStop, HandleOther, TimeshiftStopped, HandleAgain,
         HandleDone, Join, Exit, StopRecord, WakeCallers, recorder
    <3> QED
      BY <3>1 DEF StartRecord, IndInv, FlagTellsThread
  <2> QED
    BY <2>2, <2>3, <2>4, <2>5 DEF Next
<1> QED
  BY <1>1, Invariance, PTL DEF Spec, RecordThreadsJoined

--------------------------------------------------------------------------------
(* The record thread completes its own row.                                  *)

(* What the record thread reads without the mutex is what it was started     *)
(* for, unless the row was overwritten while the thread was being joined.    *)
Recording == rt \in {"run", "closing"}
OwnRow ==
  /\ Recording /\ rtOf = None => timeshift
  /\ Recording /\ rtOf # None => dbid = rtOf \/ DbidOverwritten

(* Nothing is recorded where the flag for timeshifting is taken down, but    *)
(* for the recording of a row because of which timeshifting is refused.      *)
Untouched ==
  /\ mpc \in {"replace", "tstopped"} => ~recording
  /\ mpc = "begin" /\ after = "tstarted" /\ Recording => rtOf # None

(* The mailbox stays locked while its request is served.                     *)
Serving ==
  /\ handling # "none" => evt # "none"
  /\ mpc = "new" => handling = "none"

OwnInv == OwnRow /\ Untouched /\ Serving

LEMMA InitOwnInv == Init => OwnInv
  BY DEF Init, OwnInv, OwnRow, Untouched, Serving, Recording

LEMMA ManagerOwn ==
  ASSUME IndInv, OwnInv, ManagerStep
  PROVE  OwnInv'
<1> USE DEF IndInv, OwnInv, OwnRow, Untouched, Serving, Recording, DbidOverwritten
<1>1. CASE Timeout \/ WakeLate \/ Wake \/ CheckNotDue \/ NothingDue \/ Sleep
  BY <1>1 DEF Timeout, WakeLate, Wake, CheckNotDue, NothingDue, Sleep,
     mailbox, flags, recorder, callers, FlagTellsThread
<1>2. CASE Expire
  BY <1>2 DEF Expire, mailbox, flags, recorder, callers
<1>3. CASE NotifySoon \/ StartBusy
  BY <1>3 DEF NotifySoon, StartBusy, CallbackCalls, ContinueAt, mailbox, flags, recorder,
     callers, FlagTellsThread, GoesOn
<1>4. CASE CheckDeleted \/ HandleStop \/ Exit \/ EndTime
  BY <1>4 DEF CheckDeleted, HandleStop, Exit, EndTime, StopRecord, mailbox, flags, recorder,
     callers, FlagTellsThread
<1>5. CASE Join
  BY <1>5 DEF Join, mailbox, callers, FlagTellsThread, GoesOn, TypeOK, Locked
<1>6. CASE StartRecord
  BY <1>6 DEF StartRecord, mailbox, callers, ContinueAt, GoesOn, Present
<1>7. CASE Replace \/ \E r \in Recs : RecordDue(r)
  BY <1>7 DEF Replace, RecordDue, mailbox, recorder, callers, FlagTellsThread
<1>8. CASE StartFails
  <2>1. /\ rt = "none" /\ rt' = "none" /\ ~recording'
        /\ evt' \in {evt, "start"} /\ handling' = handling /\ mpc' # "new"
    BY <1>8 DEF StartFails, recorder, callers, ContinueAt, GoesOn, FlagTellsThread
  <2> QED
    BY <2>1
<1>9. CASE Begin \/ HandleDone
  BY <1>9 DEF Begin, HandleDone, WakeCallers, flags, FlagTellsThread
<1>10. CASE HandleStart
  BY <1>10 DEF HandleStart, mailbox, recorder, callers, FlagTellsThread
<1>11. CASE HandleOther \/ TimeshiftStopped \/ HandleAgain
  BY <1>11 DEF HandleOther, TimeshiftStopped, HandleAgain, mailbox, flags,
     recorder, callers, FlagTellsThread
<1> QED
  BY <1>1, <1>2, <1>3, <1>4, <1>5, <1>6, <1>7, <1>8, <1>9, <1>10, <1>11
  DEF ManagerStep

(* A start finds the mailbox empty only when no request is being handled.    *)
LEMMA CallOwn ==
  ASSUME IndInv, OwnInv, NEW c \in Callers, CallStep(c)
  PROVE  OwnInv'
<1> USE DEF IndInv, OwnInv, OwnRow, Untouched, Serving, Recording, DbidOverwritten
<1>1. ASSUME NEW q \in Request, WaitEventsDone(c, q) \/ Refuse(c, q) \/ AddFails(c, q)
      PROVE  OwnInv'
  BY <1>1 DEF WaitEventsDone, Refuse, AddFails, mailbox, manager, flags, recorder
<1>2. ASSUME NEW q \in Request, LeaveRequest(c, q)
      PROVE  OwnInv'
  <2>1. /\ mpc' = mpc \/ (mpc = "asleep" /\ mpc' = "woken")
        /\ rt' = rt \/ (rt = "callwait" /\ rt' = "call")
    BY <1>2 DEF LeaveRequest, SignalCond
  <2>2. /\ evt = "none" /\ evt' = q.op /\ evt' # "none" /\ mpc \notin Locked
        /\ UNCHANGED <<handling, after, recording, timeshift, rtOf>>
        /\ dbid' = dbid \/ (q.op = "start" /\ ~recording)
    BY <1>2 DEF LeaveRequest, InCall, LockFree, Event, Accepted
  <2> QED
    BY <2>1, <2>2 DEF Locked
<1>3. ASSUME NEW q \in Request, AddTimeRecord(c, q)
      PROVE  OwnInv'
  <2>1. /\ mpc' = mpc \/ (mpc = "asleep" /\ mpc' = "woken")
        /\ rt' = rt \/ (rt = "callwait" /\ rt' = "call")
    BY <1>3 DEF AddTimeRecord, SignalCond
  <2>2. UNCHANGED <<evt, handling, after, recording, timeshift, dbid, rtOf>>
    BY <1>3 DEF AddTimeRecord, mailbox, flags
  <2> QED
    BY <2>1, <2>2
<1>4. CASE DestroyEnter(c) \/ DestroyRequests(c) \/ DestroyJoins(c)
  BY <1>4 DEF DestroyEnter, DestroyRequests, DestroyJoins, mailbox, manager, flags, recorder
<1>5. CASE DestroySignals(c)
  <2>1. /\ mpc' = mpc \/ (mpc = "asleep" /\ mpc' = "woken")
        /\ rt' = rt \/ (rt = "callwait" /\ rt' = "call")
    BY <1>5 DEF DestroySignals, SignalCond
  <2> QED
    BY <1>5, <2>1 DEF DestroySignals, mailbox, flags
<1> QED
  BY <1>1, <1>2, <1>3, <1>4, <1>5 DEF CallStep

LEMMA NextOwnInv ==
  ASSUME IndInv, OwnInv, [Next]_vars
  PROVE  OwnInv'
<1> USE DEF IndInv, OwnInv, OwnRow, Untouched, Serving, Recording, DbidOverwritten
<1>1. CASE Create
  BY <1>1 DEF Create, recorder, callers, IdleWhenGone, Started
<1>2. CASE SpuriousWake
  BY <1>2 DEF SpuriousWake, mailbox, flags
<1>3. ASSUME NEW c \in Callers, CallStep(c)
      PROVE  OwnInv'
  BY <1>3, CallOwn
<1>4. CASE \E r \in Recs : UserDeletes(r)
  BY <1>4 DEF UserDeletes, mailbox, manager, flags, recorder
<1>5. CASE ManagerStep
  BY <1>5, ManagerOwn
<1>6. CASE RecordStops \/ RecordFails \/ RecordCloses \/ RecordNotifies \/ CallbackWaits
  BY <1>6 DEF RecordStops, RecordFails, RecordCloses, RecordNotifies, CallbackWaits,
     mailbox, manager, flags
<1>7. CASE CallbackStops
  BY <1>7 DEF CallbackStops, SignalCond, flags
<1>8. CASE UNCHANGED vars
  BY <1>8 DEF vars
<1> QED
  BY <1>1, <1>2, <1>3, <1>4, <1>5, <1>6, <1>7, <1>8 DEF Next, RecordStep

(* The record thread completes the row it was started for and no other,      *)
(* although it reads the row's id without the mutex: for any callers, rows,  *)
(* calls of the callbacks and work found by the clock, but for a start that  *)
(* comes while a recording is joined for which no request is being handled,  *)
(* and for the moment in which timeshifting is refused.                      *)
THEOREM OwnRowCompleted == Spec => CompletesOwnRow
<1>1. Init => OwnInv
  BY InitOwnInv
<1>2. IndInv /\ OwnInv /\ [Next]_vars => OwnInv'
  BY NextOwnInv
<1>3. IndInv /\ OwnInv /\ [Next]_vars
        => [rt = "closing" /\ rt' # rt /\ ~DbidOverwritten /\ ~FlagMistaken =>
              \A r \in Recs : status'[r] = IF r = rtOf /\ Present(r) THEN "complete"
                                           ELSE status[r]]_vars
  <2> SUFFICES ASSUME IndInv, OwnInv, Next, rt = "closing", rt' # rt,
                      ~DbidOverwritten, ~FlagMistaken, NEW r \in Recs
               PROVE  status'[r] = IF r = rtOf /\ Present(r) THEN "complete" ELSE status[r]
    BY DEF vars
  <2>1. RecordCloses
    <3>1. ASSUME NEW cp, SignalCond(cp, rt)
          PROVE  FALSE
      BY <3>1 DEF SignalCond
    <3>2. ~(\E c \in Callers : CallStep(c))
      BY <3>1 DEF CallStep, WaitEventsDone, Refuse, LeaveRequest, AddTimeRecord, AddFails,
         DestroyEnter, DestroyRequests, DestroySignals, DestroyJoins, recorder
    <3>3. ~(Create \/ SpuriousWake \/ \E s \in Recs : UserDeletes(s))
      BY DEF Create, SpuriousWake, UserDeletes, recorder
    <3>4. ~ManagerStep
      BY DEF ManagerStep, Begin, Timeout, WakeLate, Wake, CheckNotDue, CheckDeleted,
         NotifySoon, NothingDue, RecordDue, Replace, Expire, EndTime, Sleep, StartRecord,
         StartBusy, StartFails, HandleStart, HandleStop, HandleOther, TimeshiftStopped,
         HandleAgain, HandleDone, Join, Exit, StopRecord, WakeCallers, recorder,
         IndInv, FlagTellsThread
    <3> QED
      BY <3>2, <3>3, <3>4 DEF Next, RecordStep, RecordStops, RecordFails, RecordNotifies,
         CallbackWaits, CallbackStops
  <2> QED
    BY <2>1 DEF RecordCloses, OwnInv, OwnRow, Recording, FlagMistaken, IndInv, TypeOK, Present
<1> QED
  BY <1>1, <1>2, <1>3, Invariance, PTL DEF Spec, CompletesOwnRow
================================================================================
