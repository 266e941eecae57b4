------------------------------- MODULE AvDevice -------------------------------
(****************************************************************************)
(* The audio/video device, am_av/am_av.c with the aml driver,               *)
(* am_av/aml/aml.c: its play modes, and what each of them holds.            *)
(*                                                                          *)
(* Every API function holds dev->lock.  Starting a mode stops those it      *)
(* excludes, which joins their threads: one that writes an elementary       *)
(* stream to the decoder ("video", "audio"), and the monitor of a TS, which *)
(* reopens the decoder under gAVMonLock.  An elementary stream or a JPEG is *)
(* often a file that the API function has mapped; the device owns the       *)
(* mapping once started, and the caller frees it otherwise.                 *)
(*                                                                          *)
(* The event registry is composed in (EventRegistry): setters signal with   *)
(* dev->lock held, the monitor with gAVMonLock held, and the video output   *)
(* calls back into the device with the registry's mutex held.               *)
(*                                                                          *)
(* The modes without a thread of this file are opened and closed only; the  *)
(* player of "timeshift" is the module Timeshift.                           *)
(****************************************************************************)
EXTENDS Naturals, FiniteSets

CONSTANTS Callers, \* application threads
          Modes,   \* play modes in use
          Bufs,    \* addresses of mapped files (bound: each is used once)
          User,    \* data in the memory of the application
          Faults,  \* "open", "start", "reopen" fail; "thread": pthread_create fails
          Mon,     \* the monitor thread
          MaxLeft, \* bound: data sources that failed starts leave behind
          Vout,    \* the thread that changes the video output's format
          None

Players == {"video", "audio"}
Order == <<"video", "audio", "jpeg", "ts", "file", "inject", "timeshift">>
Alone == {"ts", "inject", "timeshift"}

(* A call in the API: who calls, and what is left to do.                     *)
Calls ==
  [by: Callers, op: {"start", "stop", "close", "set", "query"}, mode: Modes \cup {None},
   todo: SUBSET Modes, data: Bufs \cup {User, None}, own: BOOLEAN,
   at: {"unsub", "stop", "join", "signal", "query", "ask"}]

AvAssumption ==
  /\ Modes \subseteq {Order[i] : i \in DOMAIN Order}
  /\ Faults \subseteq {"open", "start", "reopen", "thread"}
  /\ MaxLeft \in Nat
  /\ User \notin Bufs /\ None \notin Bufs \cup Callers \cup Calls /\ User # None
  /\ Mon # Vout /\ {Mon, Vout} \cap Callers = {} /\ None \notin {Mon, Vout}
ASSUME AvAssumption

VARIABLES
  opened,
  mode,   \* dev->mode
  call,   \* the API function that holds dev->lock, or None
  pend,   \* pend[c]: the mapping c frees after a start that failed
  para,   \* vid_player.para and aud_player.para: data, and need_free
  drv,    \* what vid_player.drv_data and aud_player.drv_data point to
  vbufs,  \* open descriptors of /dev/amstream_vbuf
  left,   \* data sources of "video" that nothing refers to any more
  src,    \* the data sources: running, data, times, pos
  tpc,    \* their threads
  tsfd,   \* the descriptor in ts_player.drv_data; "stale" after a failed reopening
  tsRun,  \* av_thread_running
  mpc,    \* the monitor thread
  owner, subs, vpc, \* the registry, and the video output's thread
  maps,   \* what is mapped
  used,
  lost    \* history: mappings a second start of "video" has left behind

decoder == <<vbufs, left>>
device == <<opened, mode, para, drv, decoder>>
source == <<src, tpc>>
ts == <<tsfd, tsRun, mpc>>
registry == <<owner, subs, vpc>>
memory == <<maps, used, lost>>
vars == <<device, call, pend, source, ts, registry, memory>>

Evt == INSTANCE EventRegistry WITH Threads <- Callers \cup {Mon, Vout}

Callback == "av_vout_format_changed"

TypeOK ==
  /\ opened \in BOOLEAN /\ mode \subseteq Modes
  /\ call # None => call \in Calls
  /\ pend \in [Callers -> Bufs \cup {None}]
  /\ para \in [Players -> [data: Bufs \cup {User, None}, own: BOOLEAN]]
  /\ drv \in [Players -> {"none", "source", "jpeg"}]
  /\ src \in [Players -> [running: BOOLEAN, data: Bufs \cup {User, None},
                          times: 0..2, pos: {"start", "end", "off"}]]
  /\ tpc \in [Players -> {"none", "test", "work", "sleep", "done"}]
  /\ tsfd \in {"none", "open", "closed", "stale"} /\ tsRun \in BOOLEAN
  /\ mpc \in {"none", "nap", "check", "reopen", "signal", "done"}
  /\ Evt!TypeOK({Callback}) /\ vpc \in {"idle", "in"}
  /\ {maps, used, lost} \subseteq SUBSET Bufs

Idle == [running |-> FALSE, data |-> None, times |-> 0, pos |-> "off"]

Init ==
  /\ opened = FALSE /\ mode = {} /\ call = None
  /\ pend = [c \in Callers |-> None]
  /\ para = [p \in Players |-> [data |-> None, own |-> FALSE]]
  /\ drv = [p \in Players |-> "none"] /\ vbufs = 0 /\ left = 0
  /\ src = [p \in Players |-> Idle] /\ tpc = [p \in Players |-> "none"]
  /\ tsfd = "none" /\ tsRun = FALSE /\ mpc = "none"
  /\ Evt!Init /\ vpc = "idle"
  /\ maps = {} /\ used = {} /\ lost = {}

(* Where the call in the API is; AM_AV_Close alone is without dev->lock.      *)
At(a) == call # None /\ call.at = a
DevLocked == call # None /\ call.op # "close"

--------------------------------------------------------------------------------
(* The thread of a data source.  running is read without src->lock, the rest *)
(* of the loop holds it but for the waits: what is left of the data is       *)
(* written, and written again while times says so; then the thread sleeps.   *)
(* A wait of 20 ms ends by itself, and is part of the test that follows.     *)
Test(p) ==
  /\ tpc[p] = "test"
  /\ tpc' = [tpc EXCEPT ![p] = IF src[p].running THEN "work" ELSE "done"]
  /\ UNCHANGED <<device, call, pend, src, ts, registry, memory>>

Written(s, all) ==
  IF ~all /\ s.pos = "start" THEN s
  ELSE [s EXCEPT !.times = IF @ > 0 THEN @ - 1 ELSE @,
                 !.pos = IF s.times = 0 THEN "end" ELSE IF s.times = 1 THEN "off" ELSE "start"]

Work(p) ==
  /\ tpc[p] = "work"
  /\ IF src[p].pos = "off"
     THEN tpc' = [tpc EXCEPT ![p] = "sleep"] /\ UNCHANGED src
     ELSE /\ tpc' = [tpc EXCEPT ![p] = "test"]
          /\ \E all \in BOOLEAN : src' = [src EXCEPT ![p] = Written(@, all)]
  /\ UNCHANGED <<device, call, pend, ts, registry, memory>>

SourceStep(p) == Test(p) \/ Work(p)

Signalled(p) == IF tpc[p] = "sleep" THEN "test" ELSE tpc[p]

--------------------------------------------------------------------------------
(* The monitor of a TS.  It holds gAVMonLock but for its timed wait.         *)
MonLocked == mpc \in {"check", "reopen", "signal"}

MonWake ==
  /\ mpc = "nap"
  /\ ~At("ask")
  /\ mpc' = IF tsRun THEN "check" ELSE "done"
  /\ UNCHANGED <<device, call, pend, source, tsfd, tsRun, registry, memory>>

(* Nothing has stopped; data flows again; or the decoder stands still and is *)
(* closed, to be opened anew.  A decoder that does not answer is left alone. *)
MonCheck ==
  /\ mpc = "check"
  /\ \/ mpc' = "nap" /\ UNCHANGED tsfd
     \/ tsfd = "open" /\ mpc' = "signal" /\ UNCHANGED tsfd
     \/ tsfd = "open" /\ mpc' = "reopen" /\ tsfd' = "closed"
  /\ UNCHANGED <<device, call, pend, source, tsRun, registry, memory>>

(* What aml_open_mode returns is not looked at: when it fails, drv_data goes *)
(* on to be the number of the descriptor that was closed.                    *)
MonReopen ==
  /\ mpc = "reopen"
  /\ \/ tsfd' = "open"
     \/ "reopen" \in Faults /\ tsfd' = "stale"
  /\ mpc' \in {"nap", "signal"}
  /\ UNCHANGED <<device, call, pend, source, tsRun, registry, memory>>

MonSignal ==
  /\ mpc = "signal"
  /\ Evt!Signal(Mon)
  /\ mpc' = "nap"
  /\ UNCHANGED <<device, call, pend, source, tsfd, tsRun, vpc, memory>>

MonitorStep == MonWake \/ MonCheck \/ MonReopen \/ MonSignal

--------------------------------------------------------------------------------
(* AM_EVT_Signal of AM_VOUT_EVT_FORMAT_CHANGED: av_vout_format_changed sets  *)
(* the video window, for which it takes dev->lock.                           *)
VoutBegin ==
  /\ vpc = "idle"
  /\ Evt!SignalBegin(Vout)
  /\ vpc' = "in"
  /\ UNCHANGED <<device, call, pend, source, ts, memory>>

VoutEnd ==
  /\ vpc = "in"
  /\ ~(Callback \in subs /\ DevLocked)
  /\ Evt!SignalEnd(Vout)
  /\ vpc' = "idle"
  /\ UNCHANGED <<device, call, pend, source, ts, memory>>

--------------------------------------------------------------------------------
(* The API.  A thread enters when dev->lock is free and it has no mapping    *)
(* left to free.                                                             *)
Enter(c, op, m, todo, data, own, at) ==
  /\ opened /\ call = None /\ pend[c] = None
  /\ call' = [by |-> c, op |-> op, mode |-> m, todo |-> todo, data |-> data,
              own |-> own, at |-> at]

Open(c) ==
  /\ ~opened /\ call = None /\ pend[c] = None
  /\ opened' = TRUE /\ mode' = {}
  /\ Evt!Subscribe(c, Callback)
  /\ UNCHANGED <<call, pend, para, drv, decoder, source, ts, vpc, memory>>

(* Modes are stopped one by one, in this order.                              *)
First(S) ==
  Order[CHOOSE i \in DOMAIN Order : Order[i] \in S /\ \A j \in 1..(i - 1) : Order[j] \notin S]

(* av_start: the modes that are stopped before mode m starts.                *)
Excludes(m) ==
  CASE m = "video" -> Modes \ Players
    [] m = "audio" -> Modes \ {"video", "jpeg"}
    [] m = "jpeg"  -> Modes \ {"audio", "file"}
    [] OTHER       -> Modes

StartData(c, m) ==
  \/ /\ Bufs \ used # {}
     /\ LET b == CHOOSE b \in Bufs \ used : TRUE IN
          /\ Enter(c, "start", m, mode \cap Excludes(m), b, TRUE, "stop")
          /\ maps' = maps \cup {b} /\ used' = used \cup {b}
     /\ UNCHANGED <<device, pend, source, ts, registry, lost>>
  \/ /\ Enter(c, "start", m, mode \cap Excludes(m), User, FALSE, "stop")
     /\ UNCHANGED <<device, pend, source, ts, registry, memory>>

(* AM_AV_StartVideoES, -StartAudioES and their ...Data variants.             *)
StartES(c) == \E p \in Players \cap Modes : StartData(c, p)

(* AM_AV_GetJPEGInfo, AM_AV_DecodeJPEG and AM_AV_DacodeJPEGData.             *)
Jpeg(c) == "jpeg" \in Modes /\ StartData(c, "jpeg")

(* AM_AV_StartTS, -StartFile, -AddFile, -StartInject and -StartTimeshift.    *)
StartPlayer(c) ==
  /\ \E m \in Modes \ {"video", "audio", "jpeg"} :
       Enter(c, "start", m, mode \cap Excludes(m), None, FALSE, "stop")
  /\ UNCHANGED <<device, pend, source, ts, registry, memory>>

(* AM_AV_Stop of any mode.                                                   *)
Stop(c) ==
  /\ \E m \in mode : Enter(c, "stop", m, {m}, None, FALSE, "stop")
  /\ UNCHANGED <<device, pend, source, ts, registry, memory>>

(* AM_AV_Close holds am_gAdpLock and not dev->lock; it is called when no     *)
(* other call goes on.                                                       *)
Close(c) ==
  /\ \A d \in Callers : pend[d] = None
  /\ Enter(c, "close", None, mode, None, FALSE, "unsub")
  /\ UNCHANGED <<device, pend, source, ts, registry, memory>>

(* AM_AV_SetVideoWindow, -Contrast, ..., and the speed of a file.            *)
Set(c) ==
  /\ Enter(c, "set", None, {}, None, FALSE, "signal")
  /\ UNCHANGED <<device, pend, source, ts, registry, memory>>

(* AM_AV_GetVideoStatus and AM_AV_GetAudioStatus.                            *)
Query(c) ==
  /\ Enter(c, "query", None, {}, None, FALSE, "query")
  /\ UNCHANGED <<device, pend, source, ts, registry, memory>>

ApiCall(c) ==
  \/ Open(c) \/ StartES(c) \/ Jpeg(c) \/ StartPlayer(c) \/ Stop(c) \/ Close(c)
  \/ Set(c) \/ Query(c)

--------------------------------------------------------------------------------
(* What a call goes on to do.                                                *)
Unsubscribe ==
  /\ At("unsub")
  /\ Evt!Unsubscribe(call.by, Callback)
  /\ call' = [call EXCEPT !.at = "stop"]
  /\ UNCHANGED <<device, pend, source, ts, vpc, memory>>

SetSignal ==
  /\ At("signal")
  /\ Evt!Signal(call.by)
  /\ call' = None
  /\ UNCHANGED <<device, pend, source, ts, vpc, memory>>

\* Mutant: the status is asked for without gAVMonLock.
QueryUnlocked ==
  /\ At("query")
  /\ call' = [call EXCEPT !.at = "ask"]
  /\ UNCHANGED <<device, pend, source, ts, registry, memory>>

(* aml_get_vstatus and aml_get_astatus ask the decoder under gAVMonLock.     *)
QueryLock ==
  /\ At("query") /\ ~MonLocked
  /\ call' = [call EXCEPT !.at = "ask"]
  /\ UNCHANGED <<device, pend, source, ts, registry, memory>>

QueryEnd ==
  /\ At("ask")
  /\ call' = None
  /\ UNCHANGED <<device, pend, source, ts, registry, memory>>

HasThread(m) == IF m \in Players THEN src[m].running ELSE m = "ts" /\ tsRun
ThreadDone(m) == IF m \in Players THEN tpc[m] = "done" ELSE mpc = "done"

\* Mutant: close_mode does not wake the thread.
StopThreadSilently ==
  /\ At("stop") /\ call.todo # {}
  /\ LET m == First(call.todo) IN
       /\ HasThread(m)
       /\ IF m \in Players
          THEN src' = [src EXCEPT ![m].running = FALSE] /\ UNCHANGED <<tpc, ts>>
          ELSE tsRun' = FALSE /\ UNCHANGED <<source, tsfd, mpc>>
  /\ call' = [call EXCEPT !.at = "join"]
  /\ UNCHANGED <<device, pend, registry, memory>>

(* av_stop of the next mode: close_mode takes running back and wakes the     *)
(* thread without its lock, joins it, and closes; then the data is freed.    *)
StopThread ==
  /\ At("stop") /\ call.todo # {}
  /\ LET m == First(call.todo) IN
       /\ HasThread(m)
       /\ IF m \in Players
          THEN /\ src' = [src EXCEPT ![m].running = FALSE]
               /\ tpc' = [tpc EXCEPT ![m] = Signalled(m)]
               /\ UNCHANGED ts
          ELSE tsRun' = FALSE /\ UNCHANGED <<source, tsfd, mpc>>
  /\ call' = [call EXCEPT !.at = "join"]
  /\ UNCHANGED <<device, pend, registry, memory>>

PlayerOf(m) == IF m = "jpeg" THEN "video" ELSE m
UsesData(m) == m \in Players \cup {"jpeg"}

CloseMode ==
  /\ call # None /\ call.todo # {}
  /\ LET m == First(call.todo) IN
       /\ IF At("join") THEN ThreadDone(m) ELSE At("stop") /\ ~HasThread(m)
       /\ mode' = mode \ {m}
       /\ IF UsesData(m)
          THEN LET p == PlayerOf(m) IN
               /\ drv' = [drv EXCEPT ![p] = "none"]
               /\ para' = [para EXCEPT ![p].own = FALSE]
               /\ maps' = IF para[p].own THEN maps \ {para[p].data} ELSE maps
          ELSE UNCHANGED <<drv, para, maps>>
       /\ IF m \in Players
          THEN tpc' = [tpc EXCEPT ![m] = "none"] /\ src' = [src EXCEPT ![m] = Idle]
          ELSE UNCHANGED source
       /\ vbufs' = IF m = "video" THEN vbufs - 1 ELSE vbufs
       /\ IF m = "ts" THEN tsfd' = "none" /\ mpc' = "none" ELSE UNCHANGED <<tsfd, mpc>>
  /\ call' = [call EXCEPT !.at = "stop", !.todo = @ \ {First(@)}]
  /\ UNCHANGED <<opened, left, pend, tsRun, registry, used, lost>>

Stopped(op) == At("stop") /\ call.op = op /\ call.todo = {}

StopEnd ==
  /\ Stopped("stop")
  /\ call' = None
  /\ UNCHANGED <<device, pend, source, ts, registry, memory>>

CloseEnd ==
  /\ Stopped("close")
  /\ call' = None /\ opened' = FALSE
  /\ UNCHANGED <<mode, para, drv, decoder, pend, source, ts, registry, memory>>

(* The caller unlocks and then frees the data of a start that failed.        *)
Fails ==
  /\ call' = None
  /\ pend' = IF call.own THEN [pend EXCEPT ![call.by] = call.data] ELSE pend

(* open_mode fails.  A video is opened in two steps: when the second fails,  *)
(* the data source made in the first stays, and its descriptor open, and     *)
(* nothing refers to it any more.                                            *)
OpenFails ==
  /\ Stopped("start")
  /\ "open" \in Faults /\ call.mode \notin mode
  /\ \/ UNCHANGED decoder
     \/ /\ call.mode = "video" /\ left < MaxLeft
        /\ vbufs' = vbufs + 1 /\ left' = left + 1
  /\ Fails
  /\ UNCHANGED <<opened, mode, para, drv, source, ts, registry, memory>>

(* open_mode, unless the mode is on, and the parameters of what is played.   *)
Opened(m, own) ==
  /\ mode' = mode \cup {m}
  /\ IF UsesData(m)
     THEN LET p == PlayerOf(m) IN
          /\ drv' = [drv EXCEPT ![p] = IF m = "jpeg" THEN "jpeg" ELSE "source"]
          /\ para' = [para EXCEPT ![p] = [data |-> call.data, own |-> own]]
          /\ lost' = IF m = "video" /\ para[p].own THEN lost \cup {para[p].data} ELSE lost
     ELSE UNCHANGED <<drv, para, lost>>
  /\ tsfd' = IF m = "ts" THEN "open" ELSE tsfd
  /\ vbufs' = IF m = "video" /\ m \notin mode THEN vbufs + 1 ELSE vbufs
  /\ UNCHANGED <<opened, left, registry, maps, used>>

\* Mutant: the device goes on owning the data of a start that failed.
StartFailsOwning ==
  /\ Stopped("start") /\ "start" \in Faults
  /\ Opened(call.mode, call.own)
  /\ Fails
  /\ UNCHANGED <<source, tsRun, mpc>>

(* A mode whose start failed stays on.                                       *)
StartFails ==
  /\ Stopped("start") /\ "start" \in Faults
  /\ Opened(call.mode, FALSE)
  /\ Fails
  /\ UNCHANGED <<source, tsRun, mpc>>

(* aml_start_data_source; a video is played times + 1 times, an audio with   *)
(* times <= 0 once.                                                          *)
PlaySource(m) ==
  LET runs == src[m].running
  IN \E n \in IF m = "video" THEN {2} ELSE 0..1, made \in BOOLEAN :
       /\ ~made => "thread" \in Faults /\ ~runs
       /\ src' = [src EXCEPT ![m] = [running |-> made, data |-> call.data,
                                     times |-> n, pos |-> "start"]]
       /\ tpc' = [tpc EXCEPT ![m] = IF runs THEN Signalled(m) ELSE IF made THEN "test" ELSE "none"]

PlayTS ==
  \/ tsRun' = TRUE /\ mpc' = "nap"
  \/ "thread" \in Faults /\ UNCHANGED <<tsRun, mpc>>

(* A JPEG is decoded at once, and the mode left.                             *)
Starts ==
  /\ Stopped("start")
  /\ Opened(call.mode, call.own)
  /\ IF call.mode \in Players THEN PlaySource(call.mode) ELSE UNCHANGED source
  /\ IF call.mode = "ts" THEN PlayTS ELSE UNCHANGED <<tsRun, mpc>>
  /\ call' = IF call.mode = "jpeg"
             THEN [call EXCEPT !.op = "stop", !.todo = {"jpeg"}, !.own = FALSE]
             ELSE None
  /\ UNCHANGED pend

CallStep ==
  \/ Unsubscribe \/ SetSignal \/ QueryLock \/ QueryEnd \/ StopThread \/ CloseMode
  \/ StopEnd \/ CloseEnd \/ OpenFails \/ StartFails \/ Starts

FreePara(c) ==
  /\ pend[c] # None
  /\ maps' = maps \ {pend[c]}
  /\ pend' = [pend EXCEPT ![c] = None]
  /\ UNCHANGED <<device, call, source, ts, registry, used, lost>>

Next ==
  \/ \E p \in Players : SourceStep(p)
  \/ MonitorStep \/ VoutBegin \/ VoutEnd \/ CallStep
  \/ \E c \in Callers : ApiCall(c) \/ FreePara(c)

Spec == Init /\ [][Next]_vars

(* The threads run; one that waits for a mutex which others take in turns    *)
(* gets it in the end.  Nothing is assumed of what applications call.        *)
Fairness ==
  /\ \A p \in Players : WF_vars(SourceStep(p))
  /\ WF_vars(VoutEnd) /\ SF_vars(MonitorStep) /\ SF_vars(CallStep)

FairSpec == Spec /\ Fairness

--------------------------------------------------------------------------------
(* Properties.                                                               *)

(* What a data source may still read is mapped, although its file is         *)
(* unmapped by calls that stop, replace or fail to start it; and a mapping   *)
(* has exactly one owner who will unmap it: the device, the call that brings *)
(* it, or the caller of one that failed (a second AM_AV_StartVideoES alone   *)
(* forgets the first one's).                                                 *)
Owners(b) ==
  {p \in Players : para[p].own /\ para[p].data = b}
    \cup {c \in Callers : pend[c] = b \/ (call # None /\ call.by = c /\ call.own /\ call.data = b)}

MappingsSafe ==
  /\ \A p \in Players :
       tpc[p] \notin {"none", "done"} /\ src[p].pos # "off" => src[p].data \in maps \cup {User}
  /\ \A b \in Bufs : Cardinality(Owners(b)) = IF b \in maps \ lost THEN 1 ELSE 0

(* Every open descriptor of the video decoder is that of the mode, or of a  *)
(* start whose second open failed.                                           *)
Descriptors ==
  /\ left \in 0..MaxLeft
  /\ vbufs = left + IF "video" \in mode THEN 1 ELSE 0

(* A mode that is on holds what opening it has made, and nothing is left of  *)
(* one that is off, whatever failed in between, but for the data source and  *)
(* the descriptor that a start of "video" leaves when its second open fails: *)
(* driver data that two modes share is of the right kind, every other        *)
(* descriptor is closed once, threads belong to modes, modes that use the    *)
(* same decoder are not on together, and the TS decoder is closed while the  *)
(* mode is on only in the hands of its monitor, and never when it is asked   *)
(* or closed (if the monitor cannot open it again its number is stale).      *)
ResourcesMatchMode ==
  /\ TypeOK
  /\ drv["audio"] = IF "audio" \in mode THEN "source" ELSE "none"
  /\ drv["video"] = IF "video" \in mode THEN "source"
                    ELSE IF "jpeg" \in mode THEN "jpeg" ELSE "none"
  /\ Descriptors
  /\ ~({"video", "jpeg"} \subseteq mode)
  /\ \A m \in mode \cap Alone : mode = {m}
  /\ \A p \in Players \ mode : tpc[p] = "none" /\ ~src[p].running
  /\ "ts" \in mode <=> tsfd # "none"
  /\ mpc # "none" => "ts" \in mode
  /\ tsfd = "closed" => mpc = "reopen" /\ ~At("ask")
  /\ ~opened => mode = {}

(* The call waits for the registry, or for a thread or a lock whose owner    *)
(* does; the video output's thread has the registry and waits for the call.  *)
RegistryCycle ==
  /\ vpc = "in" /\ Callback \in subs
  /\ \/ At("signal")
     \/ mpc = "signal" /\ (At("query") \/ (At("join") /\ First(call.todo) = "ts"))

(* A data source that has written everything is told to stop between its     *)
(* test of running and its wait.                                             *)
SleepsThrough ==
  \E p \in Players : tpc[p] = "work" /\ src[p].pos = "off" /\ ~src[p].running

(* Every call returns, but for those two (a call joins a thread only after   *)
(* it has been elsewhere).                                                   *)
CallsReturn ==
  call # None /\ ~At("join") ~> call = None \/ RegistryCycle \/ SleepsThrough
================================================================================
