------------------------------ MODULE EpgMonitor ------------------------------
(****************************************************************************)
(* The EPG monitor, am_mw/am_epg/am_epg.c: tables that are received over    *)
(* and over.  A table of one subtable (PAT, PMT, CAT, SDT, NIT) is asked    *)
(* for its next version as soon as it is complete; the EIT, TDT and STT are *)
(* asked for again when their check time comes.  The monitored tables       *)
(* follow a mode and are reset when the frontend has gone to another TS.    *)
(*                                                                          *)
(* As in Scanner, the monitor thread is an agenda, todo, and holds          *)
(* mon->lock except where SIGNAL_EVENT, am_epg_free_filter and the          *)
(* condition wait give it up; a loop over tables is a step with the tables  *)
(* that are still to come.  The section handler gives the lock up too, to   *)
(* announce an EIT section, but announces TDT and STT with the lock held.   *)
(*                                                                          *)
(* A transport stream is the number of the tuning that led to it.           *)
(****************************************************************************)
EXTENDS Integers, Sequences

CONSTANTS Tables,    \* the tables of this instance
          FilterIds, \* ids of demux filters the monitor can get
          MaxTunes,  \* bound: tunings after the creation of the monitor
          MaxCalls,  \* bound: changes of the settings
          Calls,     \* API functions the application uses
          Faults,    \* "filters": none left or one refused; "decode": bad sections
          None

Versioned == {"pat", "pmt", "cat", "sdt", "nit"}
Timed == {"tot", "stt"}
Eit == {"eit4e", "eit4f", "eit50", "eit51", "eit60", "eit61"}
DoneOrder == <<"pat", "pmt", "cat", "sdt", "nit", "eit4e", "eit4f",
               "eit50", "eit51", "eit60", "eit61", "tot", "stt">>
ModeOrder == <<"pat", "pmt", "cat", "sdt", "nit", "tot", "eit4e", "eit4f",
               "eit50", "eit51", "eit60", "eit61", "stt">>

(* The bit of mon->mode that a table belongs to.                             *)
Bit(t) == CASE t \in {"eit50", "eit51"} -> "sche_act"
            [] t \in {"eit60", "eit61"} -> "sche_oth"
            [] OTHER -> t
Bits == {Bit(t) : t \in Tables}

Self == "monitor thread"

EpgAssumption ==
  /\ None \notin FilterIds \X {Self}
  /\ Tables \subseteq Versioned \cup Timed \cup Eit
  /\ FilterIds \subseteq Nat
  /\ MaxTunes \in Nat /\ MaxCalls \in Nat
  /\ Calls \subseteq {"mode", "service", "pf", "sche", "destroy"}
  /\ Faults \subseteq {"filters", "decode"}
ASSUME EpgAssumption

VARIABLES
  life,    \* "none", "live" (the thread runs), "gone" (memory freed)
  calls,   \* changes of the settings so far
  joiner,  \* is the application inside AM_EPG_Destroy?
  todo,    \* agenda of the monitor thread
  evt,     \* mon->evt_flag
  batch,   \* the copy of it the thread is working on
  mode,    \* mon->mode
  service, \* mon_service # 0xffff
  single,  \* eit4ectl.subs = 1
  always,  \* which of "pf" and "sche" have check time 0
  fid,     \* fid[t]: the filter of table t, -1 when it has none
  armed,   \* tables whose filter was started
  ctl,     \* ctl[t]: what is known of the sections of t ("none": ver = 0xff)
  want,    \* version the filter lets through: any, the one after the last
           \*   completed, that one again, or 0 for no reason
  check,   \* tables with check_time # 0
  since,   \* since[t]: the TS that was current when t was last requested
  tuned, owed, fendEvt, \* frontend: TS, whether an event about it is due, and
                        \*   the event it carries into AM_EVT_Signal
  feEvt, curr,   \* TS of mon->fe_evt and of mon->curr_param
  owner, subs,   \* the event registry
  st, call,      \* the monitor's view of its filters, see DmxContract
  callTs,  \* TS the section of that handler call came from
  hpc,     \* where the handler is, "none" when call = None
  htab,    \* sec_ctrl of a handler that announces its section
  failed,  \* a filter could not be had
  overrun  \* flags that were set once more while the thread served them

app == <<life, calls, joiner>>
settings == <<mode, service, single, always>>
tables == <<fid, armed, ctl, want, check, since>>
frontend == <<tuned, owed, fendEvt>>
ts == <<feEvt, curr>>
registry == <<owner, subs>>
demux == <<st, call>>
handler == <<callTs, hpc, htab>>
history == <<failed, overrun>>
vars == <<app, todo, evt, batch, settings, tables, frontend, ts, registry,
          demux, handler, history>>

Data == "data thread"
Fend == "frontend thread"
Callback == "am_epg_fend_callback"

Dmx == INSTANCE DmxContract WITH Clients <- {Self}, Filters <- FilterIds
Evt == INSTANCE EventRegistry WITH Threads <- {Self, Data, Fend}

Flags == Tables \cup {"FEND", "SET_MODE", "SET_EITPF", "SET_EITSCHE", "SET_MON_SRV", "QUIT"}
Single(t) == t \in Versioned \cup Timed \/ (t = "eit4e" /\ single)
Monitored(t) == Bit(t) \in mode
Held == {f \in FilterIds : st[Self][f] = "held"}

S(name, arg) == <<name, arg>>
At(name) == todo # <<>> /\ Head(todo)[1] = name
Arg == Head(todo)[2]
Rest == Tail(todo)
Then(steps) == todo' = steps \o Rest
Signal == <<S("signal", "")>>

(* A loop over the tables in S0, and the one it begins with.                 *)
Loop(name, S0) == IF S0 = {} THEN <<>> ELSE <<S(name, S0)>>
First(order, S0) ==
  order[CHOOSE i \in DOMAIN order : order[i] \in S0 /\ \A j \in 1..(i - 1) : order[j] \notin S0]

(* mon->lock is free.  (A handler that announces a time holds it.)           *)
LockFree ==
  /\ life = "live" /\ hpc # "time"
  /\ \E w \in {"subscribe", "waiting", "signal", "sync", "exitSync"} : At(w)

TypeOK ==
  /\ life \in {"none", "live", "gone"}
  /\ calls \in 0..MaxCalls
  /\ evt \in SUBSET Flags /\ batch \in SUBSET Flags
  /\ mode \in SUBSET Bits
  /\ always \in SUBSET {"pf", "sche"}
  /\ fid \in [Tables -> FilterIds \cup {-1}]
  /\ armed \in SUBSET Tables
  /\ ctl \in [Tables -> {"none", "part", "full"}]
  /\ want \in [Tables -> {"any", "next", "same", "zero"}]
  /\ check \in SUBSET (Tables \ Versioned)
  /\ since \in [Tables -> 0..MaxTunes]
  /\ {tuned, fendEvt, feEvt, curr, callTs} \subseteq 0..MaxTunes
  /\ Evt!TypeOK({Callback}) /\ Dmx!TypeOK
  /\ hpc \in {"none", "enter", "time", "eit"}
  /\ htab \in Tables \cup {None}
  /\ {joiner, service, single, owed, failed} \subseteq BOOLEAN
  /\ overrun \subseteq Flags

Init ==
  /\ life = "none" /\ calls = 0 /\ joiner = FALSE
  /\ todo = <<>> /\ evt = {} /\ batch = {}
  /\ mode = {} /\ service = FALSE /\ single = FALSE /\ always = {}
  /\ fid = [t \in Tables |-> -1] /\ armed = {}
  /\ ctl = [t \in Tables |-> "none"] /\ want = [t \in Tables |-> "any"]
  /\ check = {} /\ since = [t \in Tables |-> 0]
  /\ tuned = 0 /\ owed = FALSE /\ fendEvt = 0
  /\ feEvt = 0 /\ curr = 0
  /\ Evt!Init /\ Dmx!Init
  /\ callTs = 0 /\ hpc = "none" /\ htab = None
  /\ failed = FALSE /\ overrun = {}

--------------------------------------------------------------------------------
(* Filters.                                                                  *)

\* Mutant: no AM_DMX_Sync, as in other clients of the demux.
FreeFilter_NoSync ==
  /\ At("free")
  /\ IF fid[Arg] = -1
     THEN UNCHANGED <<fid, armed, demux>>
     ELSE /\ Dmx!Release(Self, fid[Arg])
          /\ fid' = [fid EXCEPT ![Arg] = -1]
          /\ armed' = armed \ {Arg}
  /\ todo' = Rest
  /\ UNCHANGED <<app, evt, batch, settings, ctl, want, check, since, frontend, ts,
        registry, handler, history>>

(* am_epg_free_filter, with the lock dropped for AM_DMX_Sync.                *)
FreeFilter ==
  /\ At("free")
  /\ IF fid[Arg] = -1
     THEN todo' = Rest /\ UNCHANGED <<fid, armed, demux>>
     ELSE /\ Dmx!Release(Self, fid[Arg])
          /\ fid' = [fid EXCEPT ![Arg] = -1]
          /\ armed' = armed \ {Arg}
          /\ Then(<<S("sync", "")>>)
  /\ UNCHANGED <<app, evt, batch, settings, ctl, want, check, since, frontend, ts,
        registry, handler, history>>

Sync ==
  /\ At("sync") /\ hpc # "time"
  /\ Dmx!SyncEnd(Self, "freed")
  /\ todo' = Rest
  /\ UNCHANGED <<app, evt, batch, settings, tables, frontend, ts, registry, handler,
        history>>

(* A table of one subtable is asked for in the version its control knows;    *)
(* the control is cleared, so that each version is collected from scratch.   *)
SameVersion(t) == IF Single(t) /\ t \notin Timed /\ ctl[t] # "none" THEN "same" ELSE "any"
Fresh(t, known) == IF Single(t) THEN [known EXCEPT ![t] = "none"] ELSE known

(* am_epg_request_section for a table without a filter: one that lets        *)
(* through the versions w of what is known.  When there is no filter, or no  *)
(* handler can be set, it returns before the control is cleared.             *)
Lowest(f) == f \in FilterIds \ Held /\ \A g \in FilterIds \ Held : f <= g

RequestSection(t, w, known) ==
  /\ want' = [want EXCEPT ![t] = w]
  /\ since' = [since EXCEPT ![t] = curr]
  /\ \/ \E f \in FilterIds :
          /\ Lowest(f)
          /\ Dmx!Take(Self, f)
          /\ fid' = [fid EXCEPT ![t] = f]
          /\ armed' = armed \cup {t}
          /\ ctl' = Fresh(t, known)
          /\ UNCHANGED failed
     \/ \E f \in FilterIds :
          /\ "filters" \in Faults /\ Lowest(f)
          /\ Dmx!Take(Self, f)
          /\ fid' = [fid EXCEPT ![t] = f]
          /\ ctl' \in {known, Fresh(t, known)}
          /\ failed' = TRUE
          /\ UNCHANGED armed
     \/ /\ "filters" \in Faults \/ Held = FilterIds
        /\ ctl' = known
        /\ failed' = TRUE
        /\ UNCHANGED <<fid, armed, demux>>
  /\ todo' = Rest
  /\ UNCHANGED <<app, evt, batch, settings, frontend, ts, registry, handler, overrun>>

Open ==
  /\ At("open")
  /\ UNCHANGED check
  /\ RequestSection(Arg, SameVersion(Arg), ctl)

(* After am_epg_tablectl_clear.                                              *)
Renew ==
  /\ At("renew")
  /\ check' = check \ {Arg}
  /\ RequestSection(Arg, "any", [ctl EXCEPT ![Arg] = "none"])

(* ver++ and the request: a control that holds no version (0xff) goes to 0,  *)
(* of which nothing is marked as missing.                                    *)
OpenNext ==
  /\ At("openNext")
  /\ UNCHANGED check
  /\ LET w == IF ~Single(Arg) THEN "any" ELSE IF ctl[Arg] = "none" THEN "zero" ELSE "next"
     IN RequestSection(Arg, w, [ctl EXCEPT ![Arg] = IF w = "zero" THEN "full" ELSE @])

--------------------------------------------------------------------------------
(* SET_MODE and what uses it.                                                *)

Freed(t) == IF fid[t] = -1 THEN <<>> ELSE <<S("free", t)>>

Reset ==
  /\ At("reset")
  /\ LET t == First(ModeOrder, Arg) IN
     Then(Freed(t) \o (IF Monitored(t) THEN <<S("renew", t)>> ELSE <<>>) \o
          Loop("reset", Arg \ {t}))
  /\ UNCHANGED <<app, evt, batch, settings, tables, frontend, ts, registry, demux,
        handler, history>>

(* SET_MODE without reset.  (For EIT schedule other, tables 0x60 and 0x61, a *)
(* change of the check distance looks at the bit of EIT schedule actual.)    *)
SetMode ==
  /\ At("setMode") \/ At("setSche")
  /\ LET t == First(ModeOrder, Arg)
         on == IF At("setMode") THEN Monitored(t) ELSE "sche_act" \in mode
     IN Then((IF ~on THEN Freed(t) ELSE IF fid[t] = -1 THEN <<S("open", t)>> ELSE <<>>) \o
             Loop(Head(todo)[1], Arg \ {t}))
  /\ UNCHANGED <<app, evt, batch, settings, tables, frontend, ts, registry, demux,
        handler, history>>

(* am_epg_solve_fend_evt: only another frequency counts.                     *)
SolveFendEvt ==
  /\ At("fend")
  /\ curr' = feEvt
  /\ Then(IF feEvt = curr THEN <<>> ELSE Loop("reset", Tables))
  /\ UNCHANGED <<app, evt, batch, settings, tables, frontend, feEvt, registry, demux,
        handler, history>>

(* A check time that has become 0 starts the filters at once.                *)
ApplyPf ==
  /\ At("pf")
  /\ Then(IF "pf" \in always
          THEN Loop("setMode", Tables \cap (IF service THEN {"eit4f"} ELSE {"eit4e", "eit4f"}))
          ELSE <<>>)
  /\ UNCHANGED <<app, evt, batch, settings, tables, frontend, ts, registry, demux,
        handler, history>>

ApplySche ==
  /\ At("sche")
  /\ Then(IF "sche" \in always
          THEN Loop("setSche", Tables \cap {"eit50", "eit51", "eit60", "eit61"})
          ELSE <<>>)
  /\ UNCHANGED <<app, evt, batch, settings, tables, frontend, ts, registry, demux,
        handler, history>>

ApplyService ==
  /\ At("service")
  /\ single' = TRUE
  /\ Then(Loop("reset", Tables \cap {"pmt", "eit4e"}))
  /\ UNCHANGED <<app, evt, batch, mode, service, always, tables, frontend, ts,
        registry, demux, handler, history>>

--------------------------------------------------------------------------------
(* The done functions.                                                       *)

(* The filter of a table that is done is freed first.                        *)
TablesDone ==
  /\ At("tables")
  /\ LET t == First(DoneOrder, Arg) IN
     Then(<<S("free", t), S("done", t)>> \o Loop("tables", Arg \ {t}))
  /\ UNCHANGED <<app, evt, batch, settings, tables, frontend, ts, registry, demux,
        handler, history>>

(* A new version is announced and the next one asked for.                    *)
VersionDone ==
  /\ At("done")
  /\ Arg \in Versioned \/ (Arg = "eit4e" /\ service)
  /\ Then((IF Arg = "eit4e" THEN <<>> ELSE Signal) \o <<S("openNext", Arg)>>)
  /\ UNCHANGED <<app, evt, batch, settings, tables, frontend, ts, registry, demux,
        handler, history>>

\* Mutant: the check time is not set.
RefreshDone_NotAgain ==
  /\ At("done")
  /\ Arg \notin Versioned /\ (Arg = "eit4e" => ~service)
  /\ todo' = Rest
  /\ UNCHANGED <<app, evt, batch, settings, tables, frontend, ts, registry, demux,
        handler, history>>

(* The table is looked for again when its check time has come.               *)
RefreshDone ==
  /\ At("done")
  /\ Arg \notin Versioned /\ (Arg = "eit4e" => ~service)
  /\ check' = check \cup {Arg}
  /\ todo' = Rest
  /\ UNCHANGED <<app, evt, batch, settings, fid, armed, ctl, want, since, frontend,
        ts, registry, demux, handler, history>>

--------------------------------------------------------------------------------
(* am_epg_thread.                                                            *)

(* SIGNAL_EVENT: unlock, AM_EVT_Signal, lock.                                *)
SignalEvent ==
  /\ At("signal") /\ hpc # "time"
  /\ Evt!Signal(Self)
  /\ todo' = Rest
  /\ UNCHANGED <<app, evt, batch, settings, tables, frontend, ts, demux, handler, history>>

(* am_epg_get_next_ms, with the check times of the tables in due passed, and *)
(* the wait.  The reminders it checks after the tables may signal.           *)
Due == {t \in check : Monitored(t) /\ (t = "eit4e" => ~service)}
NextMs(due, reminders) == Loop("refresh", due) \o reminders \o <<S("wait", "")>>
Idle == \E due \in SUBSET Due, reminders \in {<<>>, Signal} : todo' = NextMs(due, reminders)

Refresh ==
  /\ At("refresh")
  /\ LET t == First(ModeOrder, Arg) IN
       /\ check' = check \ {t}
       /\ Then((IF fid[t] = -1 THEN <<S("open", t)>> ELSE <<>>) \o Loop("refresh", Arg \ {t}))
  /\ UNCHANGED <<app, evt, batch, settings, fid, armed, ctl, want, since, frontend,
        ts, registry, demux, handler, history>>

(* handle_events: frontend, tables, settings; the flags are cleared after    *)
(* all of them have been served.                                             *)
ServiceOf(b) ==
  LET If(flag, step) == IF flag \in b THEN <<S(step, "")>> ELSE <<>>
  IN If("FEND", "fend") \o
     Loop("tables", b \cap Tables) \o
     (IF "SET_MODE" \in b THEN Loop("reset", Tables) ELSE <<>>) \o
     If("SET_EITPF", "pf") \o If("SET_EITSCHE", "sche") \o If("SET_MON_SRV", "service") \o
     <<S(IF "QUIT" \in b THEN "quit" ELSE "endBatch", "")>>

Serve == batch' = evt /\ todo' = ServiceOf(evt)

(* It waits only if there is nothing to do; a wait that ends by its timeout  *)
(* looks at the check times first.                                           *)
Wait ==
  /\ At("wait")
  /\ IF evt = {} THEN Then(<<S("waiting", "")>>) /\ UNCHANGED batch ELSE Serve
  /\ UNCHANGED <<app, evt, settings, tables, frontend, ts, registry, demux, handler,
        history>>

WakeWhen(signalled) ==
  /\ At("waiting") /\ hpc # "time" /\ signalled
  /\ Serve
  /\ UNCHANGED <<app, evt, settings, tables, frontend, ts, registry, demux, handler,
        history>>

Wake == WakeWhen(evt # {})
SpuriousWake == WakeWhen(evt = {})

WaitTimesOut ==
  /\ At("waiting") /\ hpc # "time"
  /\ Idle
  /\ UNCHANGED <<app, evt, batch, settings, tables, frontend, ts, registry, demux,
        handler, history>>

\* Mutant: all flags are cleared, those set meanwhile included.
EndBatch_ClearsAll ==
  /\ At("endBatch")
  /\ evt' = {} /\ batch' = {}
  /\ Idle
  /\ UNCHANGED <<app, settings, tables, frontend, ts, registry, demux, handler, history>>

EndBatch ==
  /\ At("endBatch")
  /\ evt' = evt \ batch
  /\ IF evt' = {} THEN batch' = {} /\ Idle
     ELSE batch' = evt' /\ todo' = ServiceOf(evt')
  /\ UNCHANGED <<app, settings, tables, frontend, ts, registry, demux, handler, history>>

(* The thread subscribes before it takes the lock.                           *)
Subscribe ==
  /\ At("subscribe")
  /\ Evt!Subscribe(Self, Callback)
  /\ Idle
  /\ UNCHANGED <<app, evt, batch, settings, tables, frontend, ts, demux, handler, history>>

Quit ==
  /\ At("quit")
  /\ todo' = <<S("unsubscribe", "")>>
  /\ UNCHANGED <<app, evt, batch, settings, tables, frontend, ts, registry, demux,
        handler, history>>

\* Mutant: mon->mode = 0 is missing.
Unsubscribe_KeepsMode ==
  /\ At("unsubscribe")
  /\ Evt!Unsubscribe(Self, Callback)
  /\ todo' = Loop("setMode", Tables) \o <<S("exitSync", ""), S("release", "")>>
  /\ UNCHANGED <<app, evt, batch, settings, tables, frontend, ts, demux, handler, history>>

(* AM_EVT_Unsubscribe, with mon->lock held.                                  *)
Unsubscribe ==
  /\ At("unsubscribe")
  /\ Evt!Unsubscribe(Self, Callback)
  /\ mode' = {}
  /\ todo' = Loop("setMode", Tables) \o <<S("exitSync", ""), S("release", "")>>
  /\ UNCHANGED <<app, evt, batch, service, single, always, tables, frontend, ts,
        demux, handler, history>>

ExitSync ==
  /\ At("exitSync")
  /\ Dmx!SyncEnd(Self, "freed")
  /\ todo' = Rest
  /\ UNCHANGED <<app, evt, batch, settings, tables, frontend, ts, registry, handler,
        history>>

Release ==
  /\ At("release")
  /\ life' = "gone"
  /\ todo' = <<>>
  /\ UNCHANGED <<calls, joiner, evt, batch, settings, tables, frontend, ts, registry, demux,
        handler, history>>

--------------------------------------------------------------------------------
(* am_epg_section_handler on the demux data thread.  As in Scanner, Deliver  *)
(* is looked at when the lock is free, and repetitions that change nothing   *)
(* are left out.                                                             *)

Repeats(t) == ctl[t] = "full" /\ Single(t) /\ want[t] # "any"

Deliver(f) ==
  /\ LockFree
  /\ \E t \in armed : fid[t] = f /\ ~Repeats(t)
  /\ Dmx!Deliver(Self, f)
  /\ hpc' = "enter" /\ callTs' = tuned
  /\ UNCHANGED <<app, todo, evt, batch, settings, tables, frontend, ts, registry, htab,
        history>>

Leave == Dmx!Return /\ hpc' = "none" /\ htab' = None /\ UNCHANGED callTs
TableDone(t) == evt' = evt \cup {t}
Complete(t, c) == c # "part" /\ Single(t)
Owners == {t \in Tables : fid[t] = call[1]}
Enters(t) == hpc = "enter" /\ t \in Owners /\ (LockFree \/ life = "gone")

(* A section of a filter that no table has any more.                         *)
HandleUnknown ==
  /\ hpc = "enter" /\ Owners = {} /\ (LockFree \/ life = "gone")
  /\ Leave
  /\ UNCHANGED <<app, todo, evt, batch, settings, tables, frontend, ts, registry, history>>

(* COLLECT_SECTION: the section is a part of its table or the last that was  *)
(* missing; one that cannot be decoded leaves the control as it is, and a    *)
(* control without sections counts as complete.                              *)
HandleVersioned(t) ==
  /\ t \in Versioned /\ Enters(t)
  /\ \E c \in {"part", "full"} \cup (IF "decode" \in Faults THEN {ctl[t]} ELSE {}) :
       /\ ctl' = [ctl EXCEPT ![t] = c]
       /\ IF Complete(t, c) THEN TableDone(t) ELSE UNCHANGED evt
  /\ Leave
  /\ UNCHANGED <<app, todo, batch, settings, fid, armed, want, check, since, frontend,
        ts, registry, history>>

(* TDT and STT: the time is announced with the lock held.                    *)
HandleTime(t) ==
  /\ t \in Timed /\ Enters(t)
  /\ hpc' = "time" /\ htab' = t
  /\ UNCHANGED <<app, todo, evt, batch, settings, tables, frontend, ts, registry, demux,
        callTs, history>>

TimeAnnounced ==
  /\ hpc = "time"
  /\ Evt!Signal(Data)
  /\ TableDone(htab)
  /\ Leave
  /\ UNCHANGED <<app, todo, batch, settings, tables, frontend, ts, history>>

(* EIT: a section that is new is announced without the lock.                 *)
HandleEit(t) ==
  /\ t \in Eit /\ Enters(t)
  /\ \E c \in {"part", "full"} : ctl' = [ctl EXCEPT ![t] = c]
  /\ hpc' = "eit" /\ htab' = t
  /\ UNCHANGED <<app, todo, evt, batch, settings, fid, armed, want, check, since,
        frontend, ts, registry, demux, callTs, history>>

(* Afterwards the control is looked at, which may have changed meanwhile.    *)
EitAnnounced ==
  /\ hpc = "eit" /\ (LockFree \/ life = "gone")
  /\ Evt!Signal(Data)
  /\ IF Complete(htab, ctl[htab]) THEN TableDone(htab) ELSE UNCHANGED evt
  /\ Leave
  /\ UNCHANGED <<app, todo, batch, settings, tables, frontend, ts, history>>

(* A repetition of a table of many subtables completes it when no subtable   *)
(* lacks sections and enough time has passed.                                *)
HandleRepeat(t) ==
  /\ t \in Eit /\ ~Single(t) /\ Enters(t)
  /\ ctl[t] = "full"
  /\ TableDone(t)
  /\ Leave
  /\ UNCHANGED <<app, todo, batch, settings, tables, frontend, ts, registry, history>>

(* A section that cannot be decoded (nothing follows for a TDT).             *)
HandleBad(t) ==
  /\ "decode" \in Faults
  /\ t \in Eit \cup {"stt"} /\ Enters(t)
  /\ Complete(t, ctl[t])
  /\ TableDone(t)
  /\ Leave
  /\ UNCHANGED <<app, todo, batch, settings, tables, frontend, ts, registry, history>>

HandlerStep ==
  \/ HandleUnknown \/ TimeAnnounced \/ EitAnnounced
  \/ \E t \in Tables : HandleVersioned(t) \/ HandleTime(t) \/ HandleEit(t)
                          \/ HandleRepeat(t) \/ HandleBad(t)

--------------------------------------------------------------------------------
(* The frontend: it is tuned to another TS, reports, and AM_EVT_Signal calls *)
(* am_epg_fend_callback (which ignores an event without a status).           *)

Tune ==
  /\ LockFree /\ tuned < MaxTunes
  /\ tuned' = tuned + 1
  /\ owed' = TRUE
  /\ UNCHANGED <<app, todo, evt, batch, settings, tables, fendEvt, ts, registry, demux,
        handler, history>>

FendSignal ==
  /\ owed
  /\ Evt!SignalBegin(Fend)
  /\ fendEvt' = tuned /\ owed' = FALSE
  /\ UNCHANGED <<app, todo, evt, batch, settings, tables, tuned, ts, subs, demux,
        handler, history>>

FendCallback ==
  /\ Callback \in subs
  /\ Evt!SignalEnd(Fend)
  /\ LockFree
  /\ feEvt' = fendEvt
  /\ evt' = evt \cup {"FEND"}
  /\ overrun' = overrun \cup ({"FEND"} \cap batch)
  /\ UNCHANGED <<app, todo, batch, settings, tables, frontend, curr, demux, handler, failed>>

FendNobody ==
  /\ Callback \notin subs
  /\ Evt!SignalEnd(Fend)
  /\ UNCHANGED <<app, todo, evt, batch, settings, tables, frontend, ts, demux, handler,
        history>>

--------------------------------------------------------------------------------
(* The application.                                                          *)

Create ==
  /\ life = "none"
  /\ life' = "live"
  /\ todo' = <<S("subscribe", "")>>
  /\ UNCHANGED <<calls, joiner, evt, batch, settings, tables, frontend, ts, registry, demux,
        handler, history>>

May(name) == LockFree /\ ~joiner /\ name \in Calls
Notify(flag) ==
  /\ calls < MaxCalls
  /\ calls' = calls + 1
  /\ evt' = evt \cup {flag}
  /\ overrun' = overrun \cup ({flag} \cap batch)
  /\ UNCHANGED <<life, joiner, todo, batch, single, tables, frontend, ts, registry,
        demux, handler, failed>>

ChangeMode ==
  /\ May("mode")
  /\ \E B \in SUBSET Bits : mode' \in {mode \cup B, mode \ B}
  /\ Notify("SET_MODE")
  /\ UNCHANGED <<service, always>>

MonitorService ==
  /\ May("service")
  /\ service' \in BOOLEAN
  /\ Notify("SET_MON_SRV")
  /\ UNCHANGED <<mode, always>>

SetCheckDistance(kind, flag) ==
  /\ May(kind)
  /\ always' \in {always \cup {kind}, always \ {kind}}
  /\ Notify(flag)
  /\ UNCHANGED <<mode, service>>

SetEITPFCheckDistance == SetCheckDistance("pf", "SET_EITPF")
SetEITScheCheckDistance == SetCheckDistance("sche", "SET_EITSCHE")

Destroy ==
  /\ May("destroy")
  /\ evt' = evt \cup {"QUIT"}
  /\ joiner' = TRUE
  /\ UNCHANGED <<life, calls, todo, batch, settings, tables, frontend, ts, registry, demux,
        handler, history>>

Join ==
  /\ joiner /\ life = "gone"
  /\ joiner' = FALSE
  /\ UNCHANGED <<life, calls, todo, evt, batch, settings, tables, frontend, ts, registry, demux,
        handler, history>>

--------------------------------------------------------------------------------
ThreadStep ==
  \/ FreeFilter \/ Sync \/ Open \/ Renew \/ OpenNext \/ Reset \/ SetMode
  \/ SolveFendEvt \/ ApplyPf \/ ApplySche \/ ApplyService
  \/ TablesDone \/ VersionDone \/ RefreshDone \/ SignalEvent \/ Refresh
  \/ Wait \/ Wake \/ EndBatch \/ Subscribe \/ Quit \/ Unsubscribe \/ ExitSync \/ Release

Next ==
  \/ ThreadStep
  \/ SpuriousWake \/ WaitTimesOut
  \/ \E f \in FilterIds : Deliver(f)
  \/ HandlerStep
  \/ Tune \/ FendSignal \/ FendCallback \/ FendNobody
  \/ Create \/ ChangeMode \/ MonitorService
  \/ SetEITPFCheckDistance \/ SetEITScheCheckDistance \/ Destroy \/ Join

Spec == Init /\ [][Next]_vars

(* Threads run and get, in the end, the locks they compete for; the frontend *)
(* reports every tuning.  That sections arrive is not assumed.               *)
Fairness ==
  /\ SF_vars(ThreadStep)
  /\ SF_vars(HandlerStep)
  /\ SF_vars(FendSignal \/ FendCallback \/ FendNobody)

FairSpec == Spec /\ Fairness

--------------------------------------------------------------------------------
(* Properties.                                                               *)

(* Every filter the monitor holds is the filter of exactly one table, so no  *)
(* filter leaks and no section is taken for one of another table; and when   *)
(* the monitor's memory is freed it holds none, no section handler is at     *)
(* work on it, and the frontend thread will not call back into it.           *)
FiltersAccounted ==
  /\ Held = {fid[t] : t \in Tables} \ {-1}
  /\ \A t, u \in Tables : t # u /\ fid[t] = fid[u] => fid[t] = -1
  /\ life = "gone" => call = None /\ Held = {} /\ Callback \notin subs

AtRest == At("waiting") /\ evt = {}

(* A monitor at rest watches every table of its mode: the table has a filter *)
(* or a check time that will give it one, unless the monitor ran out of      *)
(* filters or was told a setting while it was serving a change of the same.  *)
(* The schedule of other streams is not included: ApplySche switches it by   *)
(* the bit of the schedule of this stream, and may take its filters away.    *)
(* (The values of the variables are what the code can give them.)            *)
Undisturbed == ~failed /\ overrun \subseteq {"FEND"}
Watched(t) == fid[t] # -1 \/ t \in Due

TablesWatched ==
  /\ TypeOK
  /\ AtRest /\ Undisturbed =>
       \A t \in Tables \ {"eit60", "eit61"} : Monitored(t) => Watched(t)

(* Once a table is asked for on a transport stream, no section of an earlier *)
(* one is collected for it (by a step of the handler: hpc moves).            *)
NoStaleSections ==
  [][\A t \in Tables : hpc' # hpc /\ ctl'[t] # ctl[t] => callTs >= since[t]]_vars

(* The frontend thread waits for mon->lock inside the registry, while its    *)
(* owner waits for the registry.                                             *)
LockCycle ==
  owner = Fend /\ Callback \in subs /\ (hpc = "time" \/ At("unsubscribe"))

(* A monitor that is told to stop is gone in the end, unless it is caught in *)
(* that cycle of locks.                                                      *)
QuitServed == "QUIT" \in evt ~> life = "gone" \/ LockCycle

(* A change of TS that the frontend reports after the monitor subscribed is  *)
(* followed, unless it is reported while the monitor follows another one.    *)
TuneFollowed ==
  owed /\ tuned = MaxTunes /\ Callback \in subs
    ~> curr = MaxTunes \/ "FEND" \in overrun \/ "QUIT" \in evt \/ LockCycle
================================================================================
