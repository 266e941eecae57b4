-------------------------------- MODULE Scanner --------------------------------
(****************************************************************************)
(* The channel scanner, am_mw/am_scan/am_scan.c: the scan thread with its   *)
(* NIT and TS stages, tables requested through section filters and ended by *)
(* completion or timeout, the section handler on the demux data thread, the *)
(* frontend callback on the monitor thread, and Create / Start / Destroy.   *)
(*                                                                          *)
(* The scanner uses the demux device through what DmxContract promises and  *)
(* the event registry through EventRegistry.                                *)
(*                                                                          *)
(* The scan thread is an agenda, todo: the code that is still to run, from  *)
(* the innermost call outwards, one step per stretch of code.  It holds     *)
(* scanner->lock except where SIGNAL_EVENT, am_scan_free_filter and the     *)
(* condition wait give it up; only there do the handler, the callback and   *)
(* the API functions run.  A loop over tables is a step with the tables that *)
(* are still to come.  A table is abstracted to what was received of it      *)
(* (nothing, a part, all); the bit of each section is left out.              *)
(****************************************************************************)
EXTENDS Integers, Sequences

CONSTANTS Freqs,     \* frequencies
          FreqLists, \* the frequency lists a NIT may name
          Modes,     \* what AM_SCAN_Create may be given, and what may go wrong
          Programs,  \* number of programs of a PAT that has some
          FilterIds, \* ids of demux filters the scanner can get
          Long,      \* tables that may have more than one section
          None

(* What may go wrong in a scan: "late": a table is completed in the moment   *)
(* its timeout is handled; "filters": the demux device runs out of filters   *)
(* or refuses to start one; "decode": sections that cannot be decoded;       *)
(* "events": the frontend reports more than once about a frequency.          *)
(* Nothing in the code keeps any of them away: a mode without one is a scan  *)
(* in which it happens not to occur.                                         *)
Faults == {"late", "filters", "decode", "events"}

Self == "scanner"

ScanAssumption ==
  /\ FreqLists \subseteq Seq(Freqs)
  /\ Modes \subseteq [atsc : BOOLEAN, auto : BOOLEAN, bat : BOOLEAN,
                     freqs : Seq(Freqs), faults : SUBSET Faults]
  /\ Programs \in Nat \ {0}
  /\ FilterIds \subseteq Nat
  /\ Long \subseteq {"pat", "pmt", "cat", "sdt", "nit", "bat", "mgt", "vct"}
  /\ None \notin Freqs \cup (FilterIds \X {Self})
ASSUME ScanAssumption

VARIABLES
  life,    \* "none", "live" (the thread runs), "gone" (memory freed)
  mode,    \* what AM_SCAN_Create was given
  joiner,  \* is the application inside AM_SCAN_Destroy, joining the thread?
  todo,    \* agenda of the scan thread
  evt,     \* scanner->evt_flag
  batch,   \* the copy of it the thread is working on
  recv,    \* scanner->recv_status, "fend" standing for WAIT_FEND
  over,    \* tables whose end_time has passed
  stage, freqs, curr,   \* stage, start_freqs and curr_freq
  ts,      \* frequency of curr_ts, or None
  tses,    \* frequencies of the transport streams in result.tses
  started, \* hsi # 0
  fid,     \* fid[t]: the filter of table t, -1 when it has none
  armed,   \* tables whose filter was started
  ctl,     \* ctl[t]: what the subtable control knows of the table's sections
  data,    \* data[t]: what the result holds of it (of the current TS)
  pats,    \* programs in curr_ts->pats, None when that is NULL
  prog,    \* index of cur_prog, 0 for NULL
  feEvt,   \* scanner->fe_evt
  tuned,   \* frequency the frontend was last set to, and whether it still
  owed,    \*   owes an event about it
  fendEvt, \* the event the monitor thread carries into AM_EVT_Signal
  owner, subs,   \* the event registry
  st, call,      \* the scanner's view of its filters, see DmxContract
  callFreq,      \* frequency the section of that handler call came from
  asked,   \* programs of the current TS whose PMT was requested
  ends,    \* number of SCAN_END events, up to 2
  stolen,  \* filters it gave back that were not its own
  crashed  \* curr_ts was dereferenced while NULL, or start_freqs

app == <<life, mode, joiner>>
tables == <<fid, armed, ctl, data, pats>>
plan == <<stage, freqs, curr>>
frontend == <<tuned, owed, fendEvt>>
registry == <<owner, subs>>
demux == <<st, call, callFreq>>
history == <<asked, ends, stolen>>
vars == <<app, todo, evt, batch, recv, over, plan, ts, tses, started, tables,
          prog, feEvt, frontend, registry, demux, history, crashed>>

Fend == "monitor"
Callback == "am_scan_fend_callback"

Dmx == INSTANCE DmxContract WITH Clients <- {Self}, Filters <- FilterIds
Evt == INSTANCE EventRegistry WITH Threads <- {Self, Fend}

TsTables == {"pat", "pmt", "cat", "sdt", "mgt", "vct"}
Tables == TsTables \cup {"nit", "bat"}
Checked == IF mode.atsc THEN {"pat", "pmt", "cat", "mgt", "vct"}
           ELSE {"pat", "pmt", "cat", "sdt", "nit", "bat"}
Order == <<"pat", "pmt", "cat", "sdt", "nit", "bat", "mgt", "vct">>
Amount == {"none", "part", "full"}
Count == IF freqs = None THEN 0 ELSE Len(freqs)
Held == {f \in FilterIds : st[Self][f] = "held"}

(* One step of the agenda: a name and an argument.                           *)
S(name, arg) == <<name, arg>>
At(name) == todo # <<>> /\ Head(todo)[1] = name
Arg == Head(todo)[2]
Rest == Tail(todo)
Then(steps) == todo' = steps \o Rest
Signal(e) == <<S("signal", e)>>
SignalIf(b, e) == IF b THEN Signal(e) ELSE <<>>

(* A loop over the tables in S0, and the one it begins with.                 *)
Loop(name, S0) == IF S0 = {} THEN <<>> ELSE <<S(name, S0)>>
First(S0) ==
  Order[CHOOSE i \in DOMAIN Order : Order[i] \in S0 /\ \A j \in 1..(i - 1) : Order[j] \notin S0]

(* scanner->lock is free: others may take it.                                *)
LockFree ==
  life = "live" /\ \E w \in {"wait", "signal", "sync", "exitSync"} : At(w)

NoEvent == [freq |-> None, locked |-> FALSE]
NoMode == [atsc |-> FALSE, auto |-> FALSE, bat |-> FALSE,
           freqs |-> <<>>, faults |-> {}]

TypeOK ==
  /\ life \in {"none", "live", "gone"}
  /\ mode \in Modes \cup {NoMode}
  /\ joiner \in BOOLEAN
  /\ evt \in SUBSET (Tables \cup {"START", "FEND", "QUIT"})
  /\ batch \in SUBSET (Tables \cup {"START", "FEND", "QUIT"})
  /\ recv \in SUBSET (Tables \cup {"fend"})
  /\ over \in SUBSET Tables
  /\ stage \in {"WAIT_START", "NIT", "TS", "DONE"}
  /\ freqs \in FreqLists \cup {mode.freqs, None}
  /\ curr \in -1..(Count - 1) \/ (freqs = None /\ curr = 0)
  /\ ts \in Freqs \cup {None}
  /\ tses \in SUBSET Freqs
  /\ fid \in [Tables -> FilterIds \cup {-1, 0}]
  /\ armed \in SUBSET Tables
  /\ ctl \in [Tables -> Amount] /\ data \in [Tables -> Amount]
  /\ pats \in {None, 0, Programs}
  /\ prog \in 0..Programs
  /\ Evt!TypeOK({Callback})
  /\ Dmx!TypeOK
  /\ asked \in SUBSET (1..Programs)
  /\ ends \in 0..2
  /\ {owed, started, crashed} \subseteq BOOLEAN

Init ==
  /\ life = "none" /\ mode = NoMode /\ joiner = FALSE
  /\ todo = <<>> /\ evt = {} /\ batch = {} /\ recv = {} /\ over = {}
  /\ stage = "WAIT_START" /\ freqs = None /\ curr = -1
  /\ ts = None /\ tses = {} /\ started = FALSE
  /\ fid = [t \in Tables |-> 0] /\ armed = {}
  /\ ctl = [t \in Tables |-> "none"] /\ data = [t \in Tables |-> "none"]
  /\ pats = None /\ prog = 0
  /\ feEvt = NoEvent /\ fendEvt = NoEvent
  /\ tuned = None /\ owed = FALSE
  /\ Evt!Init /\ Dmx!Init /\ callFreq = None
  /\ asked = {} /\ ends = 0 /\ stolen = {} /\ crashed = FALSE

--------------------------------------------------------------------------------
(* Steps of the scan thread.  Each is guarded by the head of the agenda.     *)

(* am_scan_free_filter: the filter is given back and the table forgets it,   *)
(* then the lock is dropped for AM_DMX_Sync.                                 *)
\* Mutant: the lock is kept, nothing waits for the handlers.
FreeFilter_NoSync ==
  /\ At("free")
  /\ IF fid[Arg] = -1
     THEN UNCHANGED <<fid, armed, st, call>>
     ELSE /\ Dmx!Release(Self, fid[Arg])
          /\ fid' = [fid EXCEPT ![Arg] = -1]
          /\ armed' = armed \ {Arg}
  /\ todo' = Rest
  /\ UNCHANGED <<app, evt, batch, recv, over, plan, ts, tses, started, ctl, data,
        pats, prog, feEvt, frontend, registry, callFreq, history, crashed>>

FreeFilter ==
  /\ At("free")
  /\ IF fid[Arg] = -1
     THEN todo' = Rest /\ UNCHANGED <<fid, armed, st, call>>
     ELSE /\ Dmx!Release(Self, fid[Arg])
          /\ fid' = [fid EXCEPT ![Arg] = -1]
          /\ armed' = armed \ {Arg}
          /\ Then(<<S("sync", "")>>)
  /\ UNCHANGED <<app, evt, batch, recv, over, plan, ts, tses, started, ctl, data,
        pats, prog, feEvt, frontend, registry, callFreq, history, crashed>>

Sync ==
  /\ At("sync")
  /\ Dmx!SyncEnd(Self, "freed")
  /\ todo' = Rest
  /\ UNCHANGED <<app, evt, batch, recv, over, plan, ts, tses, started, tables,
        prog, feEvt, frontend, registry, callFreq, history, crashed>>

(* am_scan_request_section, once the table has no filter: a filter is        *)
(* allocated and started and the timeout set.  When the device has no filter *)
(* left, or fails after that, the table is not waited for.                   *)
Free(f) == f \in FilterIds \ Held /\ \A g \in FilterIds \ Held : f <= g

AllocateFilter ==
  /\ At("alloc")
  /\ \/ \E f \in FilterIds :
          /\ Free(f)
          /\ Dmx!Take(Self, f)
          /\ fid' = [fid EXCEPT ![Arg] = f]
          /\ armed' = armed \cup {Arg}
          /\ recv' = recv \cup {Arg}
          /\ over' = over \ {Arg}
     \/ \E f \in FilterIds :
          /\ "filters" \in mode.faults /\ Free(f)
          /\ Dmx!Take(Self, f)
          /\ fid' = [fid EXCEPT ![Arg] = f]
          /\ UNCHANGED <<armed, recv, over>>
     \/ /\ "filters" \in mode.faults \/ Held = FilterIds
        /\ UNCHANGED <<fid, armed, recv, over, st, call>>
  /\ asked' = IF Arg = "pmt" /\ prog # 0 THEN asked \cup {prog} ELSE asked
  /\ todo' = Rest
  /\ UNCHANGED <<app, evt, batch, plan, ts, tses, started, ctl, data, pats, prog,
        feEvt, frontend, registry, callFreq, ends, stolen, crashed>>

Request(t) == <<S("free", t), S("alloc", t)>>

(* SIGNAL_EVENT: unlock, AM_EVT_Signal, lock.  The application's callback    *)
(* may call AM_SCAN_Destroy when it hears that the scan is over; this does   *)
(* not join on the thread's own account.                                     *)
SignalEvent ==
  /\ At("signal")
  /\ Evt!Signal(Self)
  /\ \E quit \in {{}, {"QUIT"}} :
       /\ quit # {} => Arg = "SCAN_END"
       /\ evt' = evt \cup quit
  /\ ends' = IF Arg = "SCAN_END" /\ ends < 2 THEN ends + 1 ELSE ends
  /\ todo' = Rest
  /\ UNCHANGED <<app, batch, recv, over, plan, ts, tses, started, tables, prog,
        feEvt, frontend, registry, demux, asked, stolen, crashed>>

--------------------------------------------------------------------------------
(* The done functions: free the filter, then per table what follows.         *)

DoneSteps(t) == <<S("free", t), S("after", t)>>
NextTs == <<S("nextTs", "")>>
NetworkDone == Signal("TS_END") \o Signal("NIT_END") \o NextTs

After(t) == At("after") /\ Arg = t
NotWaiting(t) == recv' = recv \ {t} /\ over' = over \ {t}

(* No NIT: the next frequency is tried, and the flag stays in recv_status.   *)
NitDone ==
  /\ After("nit")
  /\ IF data["nit"] = "none"
     THEN Then(<<S("tryNit", "")>>) /\ UNCHANGED <<recv, over, freqs, curr>>
     ELSE /\ NotWaiting("nit")
          /\ freqs' \in FreqLists \cup {None}
          /\ curr' = -1
          /\ Then(IF recv' = {} THEN NetworkDone ELSE <<>>)
  /\ UNCHANGED <<app, evt, batch, stage, ts, tses, started, tables, prog,
        feEvt, frontend, registry, demux, history, crashed>>

BatDone ==
  /\ After("bat")
  /\ NotWaiting("bat")
  /\ Then(IF recv' = {} THEN NetworkDone ELSE <<>>)
  /\ UNCHANGED <<app, evt, batch, plan, ts, tses, started, tables, prog,
        feEvt, frontend, registry, demux, history, crashed>>

(* The others report what curr_ts holds of the table: curr_ts->pats and so   *)
(* on, which crashes when there is no current TS.                            *)
TableDone(t, next) ==
  /\ After(t)
  /\ NotWaiting(t)
  /\ crashed' = (ts = None)
  /\ Then(Signal("TABLE_DONE") \o next)
  /\ UNCHANGED <<app, evt, batch, plan, ts, tses, started, tables, prog,
        feEvt, frontend, registry, demux, history>>

PatDone == TableDone("pat", <<S("nextPmt", "")>>)
CatDone == TableDone("cat", <<>>)
SdtDone == TableDone("sdt", <<>>)
MgtDone == TableDone("mgt", IF data["mgt"] = "none" THEN <<>> ELSE Request("vct"))
VctDone == TableDone("vct", <<>>)

PmtDone ==
  /\ After("pmt")
  /\ NotWaiting("pmt")
  /\ Then(<<S("nextPmt", "")>>)
  /\ UNCHANGED <<app, evt, batch, plan, ts, tses, started, tables, prog,
        feEvt, frontend, registry, demux, history, crashed>>

(* am_scan_request_next_pmt: cur_prog goes to the next program, or to the    *)
(* first one when it is NULL, and its PMT is requested.                      *)
\* Mutant: the last program of the PAT is left out.
NextPmt_OneShort ==
  /\ At("nextPmt")
  /\ IF ts = None \/ pats \in {None, 0}
     THEN todo' = Rest /\ UNCHANGED <<prog, ctl, data>>
     ELSE IF prog + 1 = Programs
     THEN prog' = 0 /\ Then(Signal("PMT_DONE")) /\ UNCHANGED <<ctl, data>>
     ELSE /\ prog' = prog + 1
          /\ Then(Request("pmt"))
          /\ ctl' = [ctl EXCEPT !["pmt"] = "none"]
          /\ data' = [data EXCEPT !["pmt"] = "none"]
  /\ UNCHANGED <<app, evt, batch, recv, over, plan, ts, tses, started, fid, armed,
        pats, feEvt, frontend, registry, demux, history, crashed>>

NextPmt ==
  /\ At("nextPmt")
  /\ IF ts = None \/ pats \in {None, 0}
     THEN todo' = Rest /\ UNCHANGED <<prog, ctl, data>>
     ELSE IF prog = Programs
     THEN prog' = 0 /\ Then(Signal("PMT_DONE")) /\ UNCHANGED <<ctl, data>>
     ELSE /\ prog' = prog + 1
          /\ Then(Request("pmt"))
          /\ ctl' = [ctl EXCEPT !["pmt"] = "none"]
          /\ data' = [data EXCEPT !["pmt"] = "none"]
  /\ UNCHANGED <<app, evt, batch, recv, over, plan, ts, tses, started, fid, armed,
        pats, feEvt, frontend, registry, demux, history, crashed>>

--------------------------------------------------------------------------------
(* Going from one frequency to the next.                                     *)

TryNit ==
  /\ At("tryNit")
  /\ stage' = "NIT"
  /\ Then(SignalIf(stage # "NIT", "NIT_BEGIN") \o
          SignalIf(curr >= 0, "TS_END") \o <<S("tune", "")>>)
  /\ UNCHANGED <<app, evt, batch, recv, over, freqs, curr, ts, tses, started,
        tables, prog, feEvt, frontend, registry, demux, history, crashed>>

StartNextTs ==
  /\ At("nextTs")
  /\ stage' = "TS"
  /\ Then(SignalIf(curr >= 0, "TS_END") \o <<S("leaveTs", ""), S("tune", "")>>)
  /\ UNCHANGED <<app, evt, batch, recv, over, freqs, curr, ts, tses, started,
        tables, prog, feEvt, frontend, registry, demux, history, crashed>>

(* What the result holds of the current TS: nothing yet, or no longer.       *)
NothingCollected ==
  /\ data' = [t \in Tables |-> IF t \in TsTables THEN "none" ELSE data[t]]
  /\ pats' = None
  /\ asked' = {}

(* curr_ts becomes NULL.  The TS stays in the result, so a cur_prog that was *)
(* left inside its PAT remains valid memory.                                 *)
LeaveTs ==
  /\ At("leaveTs")
  /\ ts' = None
  /\ NothingCollected
  /\ todo' = Rest
  /\ UNCHANGED <<app, evt, batch, recv, over, plan, tses, started, fid, armed, ctl,
        prog, feEvt, frontend, registry, demux, ends, stolen, crashed>>

(* One round of the loop of am_scan_try_nit and am_scan_start_next_ts: when  *)
(* the list is used up it is freed and the scan is over.                     *)
\* Mutant: the scan stays in its stage when the list is used up.
TuneNext_NotDone ==
  /\ At("tune")
  /\ IF curr + 1 >= Count
     THEN /\ freqs' = None
          /\ curr' = IF freqs = None THEN 0 ELSE -1
          /\ stage' = stage
          /\ Then(Signal("SCAN_END"))
     ELSE /\ curr' = curr + 1
          /\ Then(Signal("TS_BEGIN") \o <<S("setPara", "")>>)
          /\ UNCHANGED <<freqs, stage>>
  /\ UNCHANGED <<app, evt, batch, recv, over, ts, tses, started, tables, prog,
        feEvt, frontend, registry, demux, history, crashed>>

TuneNext ==
  /\ At("tune")
  /\ IF curr + 1 >= Count
     THEN /\ freqs' = None
          /\ curr' = IF freqs = None THEN 0 ELSE -1
          /\ stage' = "DONE"
          /\ Then(Signal("SCAN_END"))
     ELSE /\ curr' = curr + 1
          /\ Then(Signal("TS_BEGIN") \o <<S("setPara", "")>>)
          /\ UNCHANGED <<freqs, stage>>
  /\ UNCHANGED <<app, evt, batch, recv, over, ts, tses, started, tables, prog,
        feEvt, frontend, registry, demux, history, crashed>>

(* AM_FEND_SetPara.  It may fail; when it succeeds the frontend will report  *)
(* an event about this frequency.                                            *)
SetPara ==
  /\ At("setPara")
  /\ \/ /\ recv' = recv \cup {"fend"}
        /\ tuned' = freqs[curr + 1]
        /\ owed' = TRUE
        /\ todo' = Rest
     \/ /\ Then(Signal("TS_END") \o <<S("tune", "")>>)
        /\ UNCHANGED <<recv, tuned, owed>>
  /\ UNCHANGED <<app, evt, batch, over, plan, ts, tses, started, tables, prog,
        feEvt, fendEvt, registry, demux, history, crashed>>

--------------------------------------------------------------------------------
(* am_scan_solve_fend_evt.  Events about another frequency than the current  *)
(* one, or not waited for, are dropped.                                      *)

InList == curr >= 0 /\ curr < Count
Unexpected == InList /\ freqs[curr + 1] # feEvt.freq

SolveFendEvt ==
  /\ At("fend")
  /\ IF Unexpected \/ "fend" \notin recv
     THEN todo' = Rest /\ UNCHANGED recv
     ELSE recv' = recv \ {"fend"} /\ Then(Signal("SIGNAL") \o <<S("outcome", "")>>)
  /\ UNCHANGED <<app, evt, batch, over, plan, ts, tses, started, tables, prog,
        feEvt, frontend, registry, demux, history, crashed>>

(* After the signal scanner->fe_evt is read again: it may be a newer event.  *)
Unlocked ==
  /\ At("outcome") /\ ~feEvt.locked
  /\ Then(CASE stage = "NIT" -> <<S("tryNit", "")>>
            [] stage = "TS" -> NextTs
            [] OTHER -> <<>>)
  /\ UNCHANGED <<app, evt, batch, recv, over, plan, ts, tses, started, tables,
        prog, feEvt, frontend, registry, demux, history, crashed>>

Cleared(S0) == ctl' = [t \in Tables |-> IF t \in S0 THEN "none" ELSE ctl[t]]

LockedNit ==
  /\ At("outcome") /\ feEvt.locked /\ stage # "TS"
  /\ IF stage = "NIT"
     THEN /\ Cleared({"nit", "bat"})
          /\ Then(Request("nit") \o IF mode.bat THEN Request("bat") ELSE <<>>)
     ELSE todo' = Rest /\ UNCHANGED ctl
  /\ UNCHANGED <<app, evt, batch, recv, over, plan, ts, tses, started, fid, armed,
        data, pats, prog, feEvt, frontend, registry, demux, history, crashed>>

(* A new TS: the controls of its tables are cleared (all but the VCT's), the *)
(* tables are requested, and the TS joins the result.  cur_prog is not       *)
(* reset.  Where curr_freq is outside of the list (a NIT that was ended      *)
(* twice) the read of its frequency crashes, or gives any.                   *)
LockedTs ==
  /\ At("outcome") /\ feEvt.locked /\ stage = "TS"
  /\ ts' \in IF InList THEN {freqs[curr + 1]} ELSE Freqs
  /\ crashed' \in IF InList THEN {FALSE} ELSE BOOLEAN
  /\ tses' = tses \cup {ts'}
  /\ NothingCollected
  /\ LET own == IF mode.atsc THEN "mgt" ELSE "sdt" IN
     /\ Cleared({"pat", "pmt", "cat", own})
     /\ Then(Request("pat") \o Request("cat") \o Request(own))
  /\ UNCHANGED <<app, evt, batch, recv, over, plan, started, fid, armed,
        prog, feEvt, frontend, registry, demux, ends, stolen>>

--------------------------------------------------------------------------------
(* am_scan_thread.                                                           *)

(* handle_events: the flags are copied, every one of them is served, and     *)
(* only then are they cleared.                                               *)
ServiceOf(b) ==
  LET If(flag, step) == IF flag \in b THEN <<S(step, "")>> ELSE <<>>
  IN If("START", "begin") \o If("FEND", "fend") \o Loop("tables", b \cap Tables) \o
     <<S(IF "QUIT" \in b THEN "quit" ELSE "endBatch", "")>>

TablesDone ==
  /\ At("tables")
  /\ LET t == First(Arg) IN Then(DoneSteps(t) \o Loop("tables", Arg \ {t}))
  /\ UNCHANGED <<app, evt, batch, recv, over, plan, ts, tses, started, tables,
        prog, feEvt, frontend, registry, demux, history, crashed>>

(* am_scan_get_wait_timespec with the end_times in o passed.                 *)
\* Mutant: no timeout is checked for the PMT.
TimeoutSteps_NoPmt(o) ==
  Loop("checks", (o \cap Checked) \ {"pmt"}) \o <<S("tsComplete", "")>>

TimeoutSteps(o) == Loop("checks", o \cap Checked) \o <<S("tsComplete", "")>>

(* TIMEOUT_CHECK.                                                            *)
Expires(t) == t \in recv /\ t \in over /\ ("late" \in mode.faults \/ t \notin evt)

CheckTimeout ==
  /\ At("checks")
  /\ LET t == First(Arg) IN
       Then((IF Expires(t) THEN DoneSteps(t) ELSE <<>>) \o Loop("checks", Arg \ {t}))
  /\ UNCHANGED <<app, evt, batch, recv, over, plan, ts, tses, started, tables,
        prog, feEvt, frontend, registry, demux, history, crashed>>

(* The end of am_scan_get_wait_timespec, and the wait unless there is        *)
(* something to do.                                                          *)
\* Mutant: the next frequency is taken whenever no table is being received.
TsComplete_NoFend ==
  /\ At("tsComplete")
  /\ IF stage = "TS" /\ recv \cap Tables = {}
     THEN todo' = NextTs \o <<S("wait", "")>>
     ELSE todo' = <<S("wait", "")>>
  /\ UNCHANGED <<app, evt, batch, recv, over, plan, ts, tses, started, tables,
        prog, feEvt, frontend, registry, demux, history, crashed>>

TsComplete ==
  /\ At("tsComplete")
  /\ IF stage = "TS" /\ recv = {}
     THEN todo' = NextTs \o <<S("wait", "")>>
     ELSE todo' = <<S("wait", "")>>
  /\ UNCHANGED <<app, evt, batch, recv, over, plan, ts, tses, started, tables,
        prog, feEvt, frontend, registry, demux, history, crashed>>

(* The condition wait is skipped or ends: there are events, or there is no   *)
(* reason.                                                                   *)
Serve == batch' = evt /\ todo' = ServiceOf(evt)

WakeWhen(signalled) ==
  /\ At("wait") /\ signalled
  /\ Serve
  /\ UNCHANGED <<app, evt, recv, over, plan, ts, tses, started, tables, prog,
        feEvt, frontend, registry, demux, history, crashed>>

Wake == WakeWhen(evt # {})
SpuriousWake == WakeWhen(evt = {})

(* It ends with ETIMEDOUT when some end_time lies ahead, whatever has been   *)
(* signalled by then: some of the tables waited for are over, and those that *)
(* were stay so.  (Time that passes elsewhere is seen in the next wait.)     *)
WaitTimesOut ==
  /\ At("wait")
  /\ "late" \in mode.faults \/ evt = {}
  /\ \E late \in (SUBSET ((recv \cap Tables) \ over)) \ {{}} :
       over' = (over \cap recv) \cup late
  /\ todo' = TimeoutSteps(over')
  /\ UNCHANGED <<app, evt, batch, recv, plan, ts, tses, started, tables, prog,
        feEvt, frontend, registry, demux, history, crashed>>

\* Mutant: all flags are cleared, those set meanwhile included.
EndBatch_ClearsAll ==
  /\ At("endBatch")
  /\ evt' = {}
  /\ over' = over \cap recv
  /\ todo' = TimeoutSteps(over') /\ batch' = {}
  /\ UNCHANGED <<app, recv, plan, ts, tses, started, tables, prog, feEvt,
        frontend, registry, demux, history, crashed>>

EndBatch ==
  /\ At("endBatch")
  /\ evt' = evt \ batch
  /\ over' = over \cap recv
  /\ IF evt' = {} THEN todo' = TimeoutSteps(over') /\ batch' = {}
     ELSE todo' = ServiceOf(evt') /\ batch' = evt'
  /\ UNCHANGED <<app, recv, plan, ts, tses, started, tables, prog, feEvt,
        frontend, registry, demux, history, crashed>>

Begin ==
  /\ At("begin")
  /\ Then(IF started THEN <<>> ELSE Signal("SCAN_BEGIN") \o <<S("start", "")>>)
  /\ UNCHANGED <<app, evt, batch, recv, over, plan, ts, tses, started, tables,
        prog, feEvt, frontend, registry, demux, history, crashed>>

(* am_scan_start subscribes to the frontend with scanner->lock held, and      *)
(* only here the tables are told that they have no filter.                   *)
\* Mutant: they are not.
StartScan_KeepsFids ==
  /\ At("start")
  /\ Evt!Subscribe(Self, Callback)
  /\ started' = TRUE
  /\ curr' = -1
  /\ Then(IF mode.auto /\ ~mode.atsc THEN <<S("tryNit", "")>> ELSE NextTs)
  /\ UNCHANGED <<app, evt, batch, recv, over, stage, freqs, ts, tses, fid, armed, ctl,
        data, pats, prog, feEvt, frontend, demux, history, crashed>>

StartScan ==
  /\ At("start")
  /\ Evt!Subscribe(Self, Callback)
  /\ started' = TRUE
  /\ fid' = [t \in Tables |-> -1]
  /\ curr' = -1
  /\ Then(IF mode.auto /\ ~mode.atsc THEN <<S("tryNit", "")>> ELSE NextTs)
  /\ UNCHANGED <<app, evt, batch, recv, over, stage, freqs, ts, tses, armed, ctl,
        data, pats, prog, feEvt, frontend, demux, history, crashed>>

(* Quit: whatever was found is stored, then the thread cleans up.            *)
CleanUp == <<S("unsubscribe", ""), S("freeAll", ""), S("exitSync", ""), S("release", "")>>

Quit ==
  /\ At("quit")
  /\ todo' = IF tses = {} THEN CleanUp
             ELSE <<S("signal", "STORE_BEGIN"), S("signal", "STORE_END")>> \o CleanUp
  /\ UNCHANGED <<app, evt, batch, recv, over, plan, ts, tses, started, tables,
        prog, feEvt, frontend, registry, demux, history, crashed>>

(* AM_EVT_Unsubscribe, with scanner->lock held.                              *)
Unsubscribe ==
  /\ At("unsubscribe")
  /\ Evt!Unsubscribe(Self, Callback)
  /\ todo' = Rest
  /\ UNCHANGED <<app, evt, batch, recv, over, plan, ts, tses, started, tables,
        prog, feEvt, frontend, demux, history, crashed>>

(* Every fid that is not -1 is freed.  A scanner that was never started has  *)
(* zeroes there: it frees filter 0, which is not its own.                    *)
FreeAll ==
  /\ At("freeAll")
  /\ st' = [st EXCEPT ![Self] = [f \in FilterIds |->
              IF st[Self][f] = "held" THEN "freed" ELSE st[Self][f]]]
  /\ stolen' = stolen \cup (({fid[t] : t \in Checked} \ {-1}) \ Held)
  /\ armed' = {}
  /\ todo' = Rest
  /\ UNCHANGED <<app, evt, batch, recv, over, plan, ts, tses, started, fid, ctl,
        data, pats, prog, feEvt, frontend, registry, call, callFreq, asked, ends, crashed>>

(* The last AM_DMX_Sync, with the lock given up.                             *)
\* Mutant: the memory goes without it.
ExitSync_Not ==
  /\ At("exitSync")
  /\ todo' = Rest
  /\ UNCHANGED <<app, evt, batch, recv, over, plan, ts, tses, started, tables,
        prog, feEvt, frontend, registry, demux, history, crashed>>

ExitSync ==
  /\ At("exitSync")
  /\ Dmx!SyncEnd(Self, "freed")
  /\ todo' = Rest
  /\ UNCHANGED <<app, evt, batch, recv, over, plan, ts, tses, started, tables,
        prog, feEvt, frontend, registry, callFreq, history, crashed>>

Release ==
  /\ At("release")
  /\ life' = "gone"
  /\ todo' = <<>>
  /\ UNCHANGED <<mode, joiner, evt, batch, recv, over, plan, ts, tses, started,
        tables, prog, feEvt, frontend, registry, demux, history, crashed>>

--------------------------------------------------------------------------------
(* am_scan_section_handler on the demux data thread.  Deliver: the device    *)
(* starts the handler for a running filter.  Handle: the handler gets the    *)
(* lock, finds the table by its filter and looks at the section.  A start    *)
(* while the scan thread holds the lock is as good as one just before or     *)
(* just after, so Deliver and FendSignal are looked at when the lock is free. *)

Owners(f) == {t \in Tables : fid[t] = f /\ (mode.atsc => t \notin {"sdt", "nit", "bat"})
                                        /\ (~mode.atsc => t \notin {"mgt", "vct"})}

Deliver(f) ==
  /\ LockFree
  /\ \E t \in armed : fid[t] = f
  /\ Dmx!Deliver(Self, f)
  /\ callFreq' = tuned
  /\ UNCHANGED <<app, todo, evt, batch, recv, over, plan, ts, tses, started, tables,
        prog, feEvt, frontend, registry, history, crashed>>

(* Sections of one table come as they are broadcast: in any order, twice,    *)
(* and of a new version, of which the table may have more or fewer.  The     *)
(* control knows the version that came last, and what is complete of it; the *)
(* result keeps what was ever added, so it has all of a table once a version *)
(* of it was complete.                                                       *)
Sections(t) == IF t \in Long THEN {"part", "full"} ELSE {"full"}
Listed(t) == t \in TsTables => ts # None

\* Mutant: a table is complete with its first section.
Complete_First(t, c) == t # "bat"
(* test_complete finds nothing missing also when nothing was received.       *)
Complete(t, c) == c # "part" /\ t # "bat"
Completes(t, c) == evt' = IF Complete(t, c) THEN evt \cup {t} ELSE evt

(* It has been received already.                                             *)
Repetition(t) == ctl[t] # "none" /\ UNCHANGED <<ctl, data, pats, evt>>

(* It is added and marked: a further part, or the last that was missing, or  *)
(* the first of a new version, for which the control is reset.  (pats are    *)
(* the programs of the section that came first: curr_ts->pats stays at it,   *)
(* and am_scan_request_next_pmt walks no other.)                             *)
Adds(t) ==
  /\ Listed(t)
  /\ \E c \in Sections(t) :
       /\ ctl' = [ctl EXCEPT ![t] = c]
       /\ data' = [data EXCEPT ![t] = IF @ = "full" THEN @ ELSE c]
       /\ Completes(t, c)
  /\ IF t = "pat" /\ pats = None THEN pats' \in {0, Programs} ELSE UNCHANGED pats

(* It is not added: it cannot be decoded, or there is no TS to add it to.    *)
Ignores(t) ==
  /\ "decode" \in mode.faults \/ ~Listed(t)
  /\ Completes(t, ctl[t])
  /\ UNCHANGED <<ctl, data, pats>>

(* A VCT control that an earlier TS has filled: the section of another TS    *)
(* is added, but there is no room to mark it.                                *)
AddsUnmarked(t) ==
  /\ t = "vct" /\ ctl[t] = "full" /\ Listed(t)
  /\ data' = [data EXCEPT ![t] = IF @ = "full" THEN @ ELSE "part"]
  /\ Completes(t, "full")
  /\ UNCHANGED <<ctl, pats>>

(* A section of a table with one subtable.                                   *)
CollectSection(t) == Repetition(t) \/ Adds(t) \/ Ignores(t) \/ AddsUnmarked(t)

(* The BAT has many subtables: a repetition 3 s after the first section      *)
(* completes it, provided no subtable lacks sections.                        *)
CollectBat ==
  /\ UNCHANGED pats
  /\ \/ /\ \E c \in Sections("bat") :
            /\ ctl' = [ctl EXCEPT !["bat"] = c]
            /\ data' = [data EXCEPT !["bat"] = c]
       /\ UNCHANGED evt
     \/ /\ ctl["bat"] = "full"
       /\ evt' = evt \cup {"bat"}
       /\ UNCHANGED <<ctl, data>>

Handle ==
  /\ call # None /\ (LockFree \/ life = "gone")
  /\ Dmx!Return
  /\ callFreq' = None
  /\ LET owners == Owners(call[1]) IN
     IF owners = {}
     THEN UNCHANGED <<ctl, data, pats, evt>>
     ELSE \E t \in owners :
          \/ t = "bat" /\ CollectBat
          \/ t # "bat" /\ CollectSection(t)
  /\ UNCHANGED <<app, todo, batch, recv, over, plan, ts, tses, started, fid, armed,
        prog, feEvt, frontend, registry, history, crashed>>

--------------------------------------------------------------------------------
(* The frontend monitor thread in AM_EVT_Signal, and am_scan_fend_callback.  *)

FendSignal ==
  /\ LockFree /\ tuned # None
  /\ owed \/ "events" \in mode.faults
  /\ Evt!SignalBegin(Fend)
  /\ \E l \in BOOLEAN : fendEvt' = [freq |-> tuned, locked |-> l]
  /\ owed' = FALSE
  /\ UNCHANGED <<app, todo, evt, batch, recv, over, plan, ts, tses, started, tables,
        prog, feEvt, tuned, subs, demux, history, crashed>>

FendCallback ==
  /\ Callback \in subs
  /\ Evt!SignalEnd(Fend)
  /\ LockFree
  /\ feEvt' = fendEvt /\ fendEvt' = NoEvent
  /\ evt' = evt \cup {"FEND"}
  /\ UNCHANGED <<app, todo, batch, recv, over, plan, ts, tses, started, tables, prog,
        tuned, owed, demux, history, crashed>>

FendNobody ==
  /\ Callback \notin subs
  /\ Evt!SignalEnd(Fend)
  /\ fendEvt' = NoEvent
  /\ UNCHANGED <<app, todo, evt, batch, recv, over, plan, ts, tses, started, tables,
        prog, feEvt, tuned, owed, demux, history, crashed>>

--------------------------------------------------------------------------------
(* The application.                                                          *)

Create(m) ==
  /\ life = "none"
  /\ life' = "live"
  /\ mode' = m
  /\ freqs' = m.freqs
  /\ todo' = TimeoutSteps({})
  /\ UNCHANGED <<joiner, evt, batch, recv, over, stage, curr, ts, tses, started,
        tables, prog, feEvt, frontend, registry, demux, history, crashed>>

(* Starting a scan that runs changes nothing: hsi is tested in Begin.        *)
Start ==
  /\ LockFree /\ ~joiner /\ ~started
  /\ evt' = evt \cup {"START"}
  /\ UNCHANGED <<app, todo, batch, recv, over, plan, ts, tses, started, tables, prog,
        feEvt, frontend, registry, demux, history, crashed>>

Destroy ==
  /\ LockFree /\ ~joiner
  /\ evt' = evt \cup {"QUIT"}
  /\ joiner' = TRUE
  /\ UNCHANGED <<life, mode, todo, batch, recv, over, plan, ts, tses, started, tables,
        prog, feEvt, frontend, registry, demux, history, crashed>>

Join ==
  /\ joiner /\ life = "gone"
  /\ joiner' = FALSE
  /\ UNCHANGED <<life, mode, todo, evt, batch, recv, over, plan, ts, tses, started,
        tables, prog, feEvt, frontend, registry, demux, history, crashed>>

--------------------------------------------------------------------------------
ThreadStep ==
  \/ FreeFilter \/ Sync \/ AllocateFilter \/ SignalEvent
  \/ NitDone \/ BatDone \/ PatDone \/ CatDone \/ SdtDone \/ MgtDone \/ VctDone
  \/ PmtDone \/ NextPmt
  \/ TryNit \/ StartNextTs \/ LeaveTs \/ TuneNext \/ SetPara
  \/ SolveFendEvt \/ Unlocked \/ LockedNit \/ LockedTs
  \/ TablesDone \/ CheckTimeout \/ TsComplete \/ Wake \/ EndBatch \/ Begin \/ StartScan
  \/ Quit \/ Unsubscribe \/ FreeAll \/ ExitSync \/ Release

Next ==
  /\ ~crashed
  /\ \/ ThreadStep
     \/ SpuriousWake \/ WaitTimesOut
     \/ \E f \in FilterIds : Deliver(f)
     \/ Handle
     \/ FendSignal \/ FendCallback \/ FendNobody
     \/ \E m \in Modes : Create(m)
     \/ Start \/ Destroy \/ Join

Spec == Init /\ [][Next]_vars

(* Threads run: those that compete for scanner->lock or the registry's mutex *)
(* get them in the end.  Time passes, so a wait with an end_time ahead       *)
(* expires unless it is ended before.  The frontend reports an event for     *)
(* every AM_FEND_SetPara.  That sections arrive is not assumed.              *)
Fairness ==
  /\ SF_vars(~crashed /\ ThreadStep)
  /\ SF_vars(~crashed /\ WaitTimesOut)
  /\ SF_vars(~crashed /\ Handle)
  /\ SF_vars(~crashed /\ owed /\ FendSignal)
  /\ SF_vars(~crashed /\ FendCallback)
  /\ SF_vars(~crashed /\ FendNobody)

FairSpec == Spec /\ Fairness

--------------------------------------------------------------------------------
(* Properties.                                                               *)

(* Every filter the scanner holds is the filter of exactly one table, so a   *)
(* section is never taken for one of another table and no filter leaks; and  *)
(* when the scanner's memory has been freed it holds none, no section        *)
(* handler is at work on it, and the frontend will not call back into it.    *)
(* (The values of the variables are what the code can give them.)            *)
FiltersAccounted ==
  /\ TypeOK
  /\ started /\ life = "live" /\ ~At("exitSync") /\ ~At("release") =>
       /\ Held = {fid[t] : t \in Tables} \ {-1}
       /\ \A t \in Tables : fid[t] # -1 => \A u \in Tables \ {t} : fid[u] # fid[t]
  /\ life = "gone" => call = None /\ Held = {} /\ Callback \notin subs

(* AM_SCAN_Destroy gives back no filter of another client, unless the scan   *)
(* was never started.                                                        *)
GivesBackOwn == [][stolen' # stolen => ~started]_vars

(* A NIT that comes in and is timed out in the same turn is ended twice, and  *)
(* the second am_scan_try_nit replaces the list that is being scanned.        *)
NitEndsTwice == mode.auto /\ "late" \in mode.faults

(* What is taken for a section of the current transport stream was broadcast *)
(* on its frequency, although sections are handled after the frontend may    *)
(* have moved on.                                                            *)
SectionsOfOwnTs ==
  [][ts # None /\ ~NitEndsTwice /\ call # None /\ Handle
       => \A t \in Owners(call[1]) \cap TsTables : callFreq = ts]_vars

(* While transport streams are scanned no frequency is left before the       *)
(* frontend's answer about it has been looked at.                            *)
TuneAwaited == [][stage = "TS" /\ SetPara => "fend" \notin recv]_vars

(* A completion event means that the result has the whole table, in one      *)
(* version of it: although the control is reset by a section of a new        *)
(* version, even with the event pending, no event comes from parts of        *)
(* several.  (The VCT of a further ATSC frequency finds the control of the   *)
(* last one.  Scans with sections that cannot be decoded, or with a table     *)
(* that is completed as it times out, are not spoken of.)                    *)
WholeTables ==
  {"late", "decode"} \cap mode.faults = {} =>
    \A t \in (evt \ batch) \cap (TsTables \ {"vct"}) : data[t] = "full"

(* A transport stream is left only after the PMT of each program in the      *)
(* first section received of its PAT has been asked for, one by one.  (Those *)
(* of further sections never are.  Scans in which a filter cannot be had, or *)
(* a table is completed as it times out, are not spoken of.)                 *)
FirstSectionAsked ==
  [][ts # None /\ ts' = None /\ pats = Programs /\ {"late", "filters"} \cap mode.faults = {}
       => asked = 1..Programs]_vars

(* The end of a scan that tries no NIT is announced at most once, whatever   *)
(* goes wrong: also when a table is completed as it times out and is ended   *)
(* twice, as long as that does not crash (see TableDone).                    *)
EndsOnce == ~mode.auto => ends <= 1

(* It comes to its end, whatever is broadcast, if nothing else goes wrong.   *)
ScanEnds ==
  started /\ mode.faults = {} /\ ~mode.auto ~> stage = "DONE" \/ "QUIT" \in evt

(* A scan that is told to stop gets as far as its clean-up, or its end.       *)
QuitServed ==
  life = "live" /\ "QUIT" \in evt ~> At("unsubscribe") \/ life = "gone"
================================================================================
