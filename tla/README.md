# Verification of the STB DVB API (`src/am_stb_api`)

The repository is a software kit for Amlogic set-top boxes. Its core is the C
library `src/am_stb_api`: device layers (`am_adp`: demux, frontend, DVR,
audio/video, input, ...) and middleware on top of them (`am_mw`: channel scan,
EPG, recording, subtitles, SI tables, database), used by applications through a
C API that any thread may call. Everything else in `src/` is stand-alone
graphics and device test programs and a vendored `iperf`.

What is hard in this library is not data: it is threads. Every device layer has
a thread of its own that runs *callbacks of its clients without the device
lock*; clients free what those callbacks use, wait for them with a flag and a
condition variable, and call back into the layer from inside a callback. This
project models that, for the layers where most of it happens, in TLA+; checks
it with TLC on small instances; and proves the main results with TLAPS for
every value of the constants.

## 1. Inventory

Paths are relative to `src/am_stb_api`.

| Component | State | Operations | Hard behaviour | What makes it correct |
|---|---|---|---|---|
| **Demux device**, `am_adp/am_dmx` | filter table (`used`, `enable`, `cb`, `user_data`), `flags` (`DMX_FL_RUN_CB`), `enable_thread`, device lock, condition variable | Open, Close, AllocateFilter, SetCallback, SetSec/PesFilter, SetBufferSize, Start/Stop/FreeFilter, Sync, SetSource; data thread: poll, read, run handlers | handlers run unlocked; poll results are older than the table; ids are reused at once; Sync waits for a round; Close joins under the global lock; ioctls that fail half way | handlers only for filters their client holds; none running after Free + Sync; handles never shared; Sync and Close return |
| **Frontend device**, `am_adp/am_fend` | `cb`/`user_data`, `flags` (`FEND_FL_RUN_CB`, `FEND_FL_LOCK`), parameters in the driver | Open, Close, SetPara, SetCallback, Lock, Get*, SetThreadDelay; monitor thread: wait_event, callback, AM_EVT_Signal | Lock puts a callback with a block on its caller's stack in front of the registered one; events about older tunings; spurious wake-ups | the callback pair is never torn; Lock returns with the outcome of its own tuning; nothing points at a stack that is gone |
| **Recording manager**, `am_mw/am_rec` | mailbox `evt`, `stat_flag`, `rec_db_id`, `rec_thread`, `rec_table` in the database | Create, Destroy, StartRecord, StopRecord, AddTimeRecord, Start/Stop/Play/... TimeShifting; management thread; record thread | one condition variable for two kinds of waiters; the mutex given up during a join; callbacks that call back in; a record thread that reads shared fields unlocked; a schedule that acts by the clock | every request handled once; one record thread at a time; the right row completed; nothing left behind by Destroy |
| **Event registry**, `am_adp/am_evt` | hash table of subscriptions under one recursive lock | Subscribe, Unsubscribe, Signal | callbacks run *under* the registry's lock and take locks of their own; unsubscribing from a callback | no deadlock with the clients' locks; no freed subscription is read |
| **Channel scan**, `am_mw/am_scan` | one `sectbl` control block per table (version, section bitmask, timeout), scan stages, results, frontend event | Create, Destroy, GetStatus; scan thread; section handlers | section handlers on the data thread set flags for the scan thread; tables of several sections that change version; the lock given up inside a handler for Sync; timeouts against late sections | a table is complete exactly when each of its sections has been seen; stages end; no handler runs on freed data |
| **EPG monitor**, `am_mw/am_epg` | as am_scan, with tables received for ever | Create, Destroy, ChangeMode, MonitorService | as am_scan, plus mode changes at run time | as am_scan |
| **DVR device**, `am_adp/am_dvr` | streams (fid, pid) per record, `record` flag | Open, Close, StartRecord, StopRecord, Read, SetSource | a client of the demux that keeps filter ids; Read holds the lock while it polls | every filter started is stopped and freed |
| **Audio/video**, `am_adp/am_av` | play modes, mapped files (`need_free`), driver data, data source threads, TS monitor | Open, Close, Start/Stop of each mode, picture settings, status queries | modes that exclude one another and share driver data; starts that fail half way; threads joined with `dev->lock` held; the monitor reopens the decoder by itself; a callback under the registry's lock | what a thread reads is mapped, and unmapped once; a mode holds what it needs and leaves nothing; calls return |
| **Timeshift player**, `am_adp/am_av/aml` | ring file, command, play state | StartTimeshift, TimeshiftFillData, Play/Pause/Resume/Seek/FastForward/FastBackward, StopTimeshift; player thread | positions and file offsets moved separately; the recorder overtakes the player; the player leaves commands for itself where the application leaves its own | positions, counts and offsets agree; a command is taken; StopTimeshift returns |
| **Smart card, input, descrambler**, `am_adp/am_smc`, `am_inp`, `am_dsc` | callback and flag, key repeat, channel table | Open, Close, SetCallback, reads | as am_fend, on a smaller scale | as am_fend |
| **Threads, time, misc** `am_adp/am_misc`, `am_time` | list of threads | wrappers | milliseconds in an `int` | timeouts survive the wrap |
| **TV application**, `am_app/am_tv` | `status` (playing, waiting for the frontend, TV or radio), `srv_dbid`, `fend_para`, one mutex | Create, Destroy, ChannelUp/Down, PlayChannel, Play, StopPlay; frontend callback | a program is started by the call, or later by the frontend thread with whatever is chosen by then; reports about earlier channels; unsubscribing with the mutex held | the status says what the decoder does; only a report about its own frequency starts a program; a program that waits is started |
| SI decoding, database, configuration, fonts, images, GUI, OSD, outputs, network, memory watch | | | parsing, drawing, ioctls, SQL | left to tests |

How they interact. Middleware calls the device layers; device threads call
middleware handlers, without the device's lock (`am_dmx`, `am_fend`) or under
the registry's lock (`am_evt`). Open and Close of all devices share
`am_gAdpLock`. The scan and EPG threads own a lock that their handlers take; the
recorder's management thread runs a record thread that reads from `am_dvr` and
writes to a file or to the timeshift player, and shares the schedule in the
database with the user interface. `PROJECT.json` lists every component, and under
`hazards` every place found where this can go wrong, at its line.

## 2. Modules

| Module | Models |
|---|---|
| `DmxContract` | abstract: what the demux layer promises to code that registers handlers |
| `DmxDevice`, `DmxDevice_proofs` | `am_dmx.c` with the `linux_dvb` driver; `ImplementsContract` is the refinement |
| `FendDevice`, `FendDevice_proofs` | `am_fend.c` with the `linux_dvb` driver |
| `Recorder`, `Recorder_proofs` | `am_rec.c`, with what it uses of `am_dvr`, `am_av` and the database as choices |
| `EventRegistry` | `am_evt.c`, a part that the next two, `AvDevice` and `TvPlayer` are composed with |
| `Scanner`, `Scanner_proofs` | `am_scan.c`, over `DmxContract` and `EventRegistry` |
| `EpgMonitor`, `EpgMonitor_proofs` | `am_epg.c`, over `DmxContract` and `EventRegistry` |
| `TimeshiftFile` | the ring file of the timeshift player as a record and its operators |
| `Timeshift`, `Timeshift_proofs` | the timeshift player of `am_av/aml/aml.c` over `TimeshiftFile` |
| `AvDevice`, `AvDevice_proofs` | `am_av.c` and the play modes of `aml.c`, over `EventRegistry` |
| `TvPlayer`, `TvPlayer_proofs` | `am_tv.c`, over `EventRegistry` |
| `MC...` | definitions for TLC only: symmetry sets, scan modes; the `.cfg` files give the constants |

`EXTENDS` joins a component with what belongs to it; a component that *uses*
another one instantiates it (`Dmx == INSTANCE DmxContract WITH ...`) and
conjoins its operations with its own steps (`Dmx!Release(Self, f)` in
`FreeFilter`). `Scanner` and `EpgMonitor` rely on the contract of the demux layer
and not on `DmxDevice`: that the device keeps the contract is the refinement
checked in `dmx_rough` and proved in `DmxDevice_proofs`.

A definition that is introduced by "Mutant:" is an action or operator with a
plausible bug. Each property of a passing run has one that breaks it, so none
holds just by the shape of the model; `PROJECT.json` pairs them.

### Grain of the actions

A stretch of code that holds the component's mutex from its first to its last
access of shared state is one action. Wherever the mutex is released
(`pthread_cond_wait`, `pthread_join`, a callback, AM_DMX_Sync inside a handler's
clean-up) or shared state is read without it (`dev->enable_thread`, `dev->cb`,
`rec->rec_db_id`, `src->running`), a new action begins. A condition wait is two
positions, asleep and woken; a broadcast moves every sleeper, a signal one of
them *if there is one*, and spurious wake-ups are actions. Return values of
drivers, of the database and of the DVR are choices. An API call that returns an
error before it changed anything is not an action.

### DmxContract and DmxDevice

`DmxContract` has two variables: `st[c][f]`, what client `c` knows of its use of
filter `f` (`held`, `freed`, `syncing`, `quiet`), and `call`, the handler that is
running. A handler starts only for a filter its client holds; `SyncEnd` is only
allowed when no handler of what the client freed is running.

`DmxDevice` adds the filter table, `DMX_FL_RUN_CB` (`runCb`), the data thread and
Open/Close. AM_DMX_Close is `CloseBegin`, `CloseJoins`, `CloseFrees` for one filter
after the other (which it does without `dev->lock`) and `CloseEnd`; `CloseTwice` is a second
call that waited for it. The data thread's position is `tpc`: `poll` (line 151 of `am_dmx.c`),
`mark` (157), `scan` (163, one filter of the mask after the other, lowest first),
`call` (inside a handler, 214), `src` (a handler waiting for `am_gAdpLock` in
AM_DMX_SetSource), `wake` (between clearing the flag and the broadcast, 223).
`Capture` is lines 178-214: the filter is looked at again under the lock, its
callback copied, and the handler called with the copy. Filter calls may come
from a client's own thread or from inside its handler, hence AM_DMX_Sync has two
forms: `SyncWait`, and `SyncAtOnce` for a call on the data thread, which returns at
once (or when no round is in progress). `FreeFilter` sets the client's view to
`freed` whatever the driver answered, because the callers drop the handle
whatever it returns; with a failed DMX_STOP the slot stays used.

`cb` outlives the use of a filter, as in the code: `StartFilter` asks for no handler, and
a filter that is started without AM_DMX_SetCallback (am_dvr does so) runs the handler the
last user of its slot left there. The history variables `bound` and `stray` tell such a
call from one of a registered handler.

Constants that change the system: `DriverFaults` (can DMX_STOP fail),
`OrderlyClose` (is the device closed only when nobody holds a filter, which is
how the middleware uses it), `HandlerSetsSource` (may a handler call
AM_DMX_SetSource, which no handler in the repository does).

### FendDevice

The monitor thread's positions: `wait` (wait_event), `got`, `run` (flag up, about
to read `dev->cb`), `cb` (in a callback), `flag` and `chain` (inside `fend_lock_cb`,
after the status is stored and after FEND_FL_LOCK is cleared), `signal`, `wake`.
`cur` is the callback it is in: a pair of function and `user_data`. `LockCb(l)` is
`fend_lock_cb` with the parameter block on the stack of locker `l`; `lockp[l]` is
that block together with `*status`. AM_FEND_Lock is `LockEnter`, the wait for a running
callback, `LockInstall` (install, tune, second wait, in one hold of the mutex) or
`LockFails`, and `LockReturn`. `fend_para_equal` is equality of parameters of a
known frontend type.

### Recorder

`evt` is the mailbox, with `"init"` before the management thread has started.
`mpc` is the management thread: `asleep`, `late` (the timed wait has expired, the
mutex not yet taken), `woken`; `check`, `soon`, `due`, `replace`, `begin`, `expire`,
`end` are the parts of am_rec_check_records and of the start of a recording;
`handle`, `tstopped`, `handled` the handling of a request; `join` the one place where
the mutex is given up in between, with `after` where it goes on. `rt` is the
record thread, which reads `recording` and `dbid` without the mutex. `status` is
`rec_table`. The six timeshift commands that change nothing the model keeps are
one request, `"ctl"`. Time is abstract: a row may be found due, expired or near
at any check.

`ClockActs` switches on what the clock makes the thread do, `CallbackPosts` calls
made by event callbacks on the management thread (which skip
am_rec_wait_events_done, line 51), `RecordEndCalls` a call made by the
RECORD_END callback on the record thread. Nothing in the repository subscribes to
these events, so the three are open to a user of the library and are
constants here.

### EventRegistry

Two variables: `owner`, the thread inside AM_EVT_Signal, and `subs`, who is
subscribed. The registry's mutex is held over the callbacks, which is what its
clients can deadlock with; it is recursive, so the owner may subscribe, signal
and unsubscribe again. A callback that unsubscribes itself while the list is
walked is not modelled.

### Scanner and EpgMonitor

The two share a plan. Their thread is an *agenda*, `todo`: the code that is still
to run, from the innermost call outwards, as a sequence of named steps with an
argument. `TsComplete`, say, replaces its own step by those of
am_scan_start_next_ts. The thread holds the component's lock except at the steps
`wait`, `signal`, `sync` and `exitSync`, and only there do section handlers (on
the demux data thread), the frontend callback (on the frontend's monitor thread,
inside AM_EVT_Signal) and API functions run. `evt` is `evt_flag`, `batch` the copy
the thread works through. The handler of the EPG monitor gives the lock up once
in the middle, to announce an EIT section (`hpc`), and announces TDT and STT with
the lock held.

`Scanner`: `recv` is `recv_status`, what the stage still waits for; `over` the
tables whose end time has passed. A table is abstracted to what was received of
it (nothing, a part, all): `ctl` is what the section bookkeeping believes, `data`
what the result holds, and they are separate variables because sections come in
any order, twice and of two versions. `callFreq` remembers the frequency a
section came from, `asked` the programs whose PMT was requested, `stolen` the filters it gave
back that were not its own. `mode.faults` is what can go wrong in a scan: a
completion, or any other event, in the moment of a timeout, a lack of filters, sections that
cannot be decoded, repeated frontend events. A section is a repetition, a further part, or
the first of a new version that resets the control of a table, complete or not (`Adds`); the
programs (`pats`) are those of the PAT section received first, because the code walks no other.

`EpgMonitor`: `want` is the version the filter lets through; `check` the tables
whose check time is set (any of them may come due at a wake-up, `Due`); a
transport stream is the number of the tuning that led to it. `since`, `callTs`,
`overrun` and `failed` are history.

### TimeshiftFile and Timeshift

The ring is a record with three positions, two counts, and the offsets of the two
file descriptors, which the code moves independently: `Written`, `Played` and
`Sought` are aml_timeshift_file_write, -read and -seek with short transfers and
the split at the end of the ring. `Timeshift` has the API calls, which hold
`dev->lock` (`devLock`) over a fill and over the join of the player, and the
player thread: it takes a command (`Take`), acts on it only if it differs from
the last one, moves data (`Move`), and sleeps not at all, for a while, or for
ever (`sleep`). A start whose thread cannot be created leaves the file open and returns
success, and the recorder goes on filling it. Sizes are small abstract units; that the
size, `rate * duration` (an `int` product, `aml.c:2225`), does not overflow is assumed.

### AvDevice

`call` is the API function inside `dev->lock`; `call.todo` the modes av_start or
av_stop_all have still to stop, in the order of the code (`ToStop`), each with the
join of its thread when it has one. `tpc` and `src` are the threads that write
elementary streams; `mpc`, `tsfd`, `tsRun` the monitor of a TS and its decoder.
`para` is what the device keeps of its data, `pend[c]` what caller `c` frees after
av_start has failed. A start may fail in open_mode (`OpenFails`: nothing has
changed but what was stopped, except that a video whose second open fails leaves its data
source and the descriptor of the first, counted by `left` among all that are open,
`vbufs`) or in start_mode (`StartFails`, the mode stays on),
and the threads may not come into being, which nobody looks at. The two JPEG
modes differ only in what is decoded and are one, `"jpeg"`. AM_AV_GetJPEGDataInfo
(`am_av.c:1170`), which hands `info` to av_start in place of its parameters, is not
modelled. `VoutBegin` and `VoutEnd` are the video output's thread inside
AM_EVT_Signal of a new format.

### TvPlayer

Each API call holds `tv->lock` from beginning to end and is one action, but for a call
that tunes: `step` is `tuned` between AM_FEND_SetPara and the assignment of
`fend_para` (`Tuned`), when the report may already be on its way, and `destroy`
between taking the lock in AM_TV_Destroy and the registry's. `tv->status` is
`playing`, `wait` and `kind`; `srv` is the row chosen last. `Found` is the search of
am_tv_get_channel with its way round the ends of the list, `ToChannel` and `Change`
am_tv_play_channel with am_tv_try_play. Outside of the code are `av`, what the decoder
plays, `hw` and `owed`, where the frontend is and whether it owes a report, and
`rows`, what is in `srv_table`, which scans and the user interface change at any
time. `CallbackPlays` and `CallbackIgnores` are am_tv_fend_callback, on the frontend
thread inside AM_EVT_Signal. `unsure` and `refused` are history.

## 3. Runs

| Run | Instance | Properties |
|---|---|---|
| `dmx` | 3 clients, 1 filter, STOP ioctls fail, orderly closing, fair | `TypeOK`, `HandlesExclusive`, `ClosedDeviceIsIdle`, `CallsReturn` |
| `dmx_rough` | 2 clients, 2 filters, STOP fails, closed at any time and twice at once, handlers may set the source | `Quiescence`, `ImplementsContract` |
| `fend` | 1 locker, 1 setter, 2 callbacks (one NULL), 2 parameters, fair | `LockReturnsStatus`, `NoDanglingLock`, `CallbackNotSwapped`, `CallsReturn` |
| `rec` | 1 caller, 2 rows, everything switched on | `GoneIsIdle`, `RecordThreadsJoined`, `CompletesOwnRow` |
| `rec_live` | 2 callers, 1 row, no clock, callbacks on the management thread make calls, fair | `SignalReachesManager`, `HandledOnceWoken` |
| `scan` | 1 or 2 frequencies, 3 filters, 2 programs, a PAT of several sections, a NIT that names one more frequency; DVB, ATSC; one kind of fault per scan; a scanner that is never started | `FiltersAccounted`, `WholeTables`, `EndsOnce`, `GivesBackOwn`, `SectionsOfOwnTs`, `TuneAwaited`, `FirstSectionAsked` |
| `scan_live` | 2 frequencies DVB, 1 ATSC, 1 program, no faults, fair | `ScanEnds`, `QuitServed` |
| `epg` | PAT and EIT present/following, 1 tuning, 2 changes of settings, filters that cannot be had | `TablesWatched`, `NoStaleSections` |
| `epg_live` | STT and EIT schedule, 2 tunings, 1 change, Destroy, bad sections, fair | `FiltersAccounted`, `QuitServed`, `TuneFollowed` |
| `tshift` | ring of 4 then 3 units, buffer 2, chunks of up to 2, 3 fills, 2 commands, short writes, failed starts, fair | `TypeOK`, `RingConsistent`, `InStep`, `PauseTaken`, `StopReturns` |
| `av` | video, audio, JPEG, TS and a file; 2 callers, a mapped file and data of the application; every kind of failure, one second open that fails, fair | `MappingsSafe`, `ResourcesMatchMode`, `CallsReturn` |
| `tv` | 2 TV channels and a radio channel on 2 frequencies; failures of the database, the decoder and the tuning; another user of the frontend, fair | `PlaysWhatIsChosen`, `StartsOnOwnReport`, `ChosenPlays` |

Where a run lists no `TypeOK`, type correctness is a conjunct of an invariant it lists
(`GoneIsIdle`, `FiltersAccounted`, `TablesWatched`, `ResourcesMatchMode`, `PlaysWhatIsChosen`), or proved
(`fend`).

The properties in words:

- `Quiescence`: after FreeFilter and Sync no handler call for the freed filter is
  running. am_scan and am_epg free the handler's data next.
- `HandlesExclusive`: a held handle is allocated and nobody else's, although a
  failed FreeFilter leaves slots behind that nobody knows of.
- `ImplementsContract`: the device, with its thread, flag and stale poll results,
  is an implementation of `DmxContract`, for handlers that were registered for the filter
  they run for. (`Quiescence` speaks of those, too.)
- `ClosedDeviceIsIdle`: no thread, no running handler and no sleeper survive AM_DMX_Close,
  and no filter of a device that was closed when nobody held one, not even a filter
  whose STOP had failed. `CallsReturn` (demux):
  AM_DMX_Sync and AM_DMX_Close come to an end.
- `CallbackNotSwapped`: no other thread replaces the callback between the monitor
  thread's reading the pair and the end of the call.
- `LockReturnsStatus`, `NoDanglingLock`: AM_FEND_Lock returns success only with a
  status, and leaves no pointer to its stack. `CallsReturn` (frontend): it
  returns as long as nobody replaces its callback or retunes the device, and
  AM_FEND_SetCallback gets past a callback that is running.
- `SignalReachesManager`: `pthread_cond_signal` of a request cannot wake a caller
  in place of the management thread, although both sleep on one condition.
- `RecordThreadsJoined`, `GoneIsIdle`: never two record threads on one file, and none
  after Destroy.
- `CompletesOwnRow`: the record thread completes the row it was started for, and no other,
  although it reads the id without the mutex, clock, callbacks and user interface at work;
  but for two moments it names, in which the code does complete another (see below).
- `HandledOnceWoken`: a request is handled once its signal has reached the
  management thread, and the join of the record thread ends.
- `FiltersAccounted` (scan, EPG): every filter held belongs to exactly one table,
  although freeing one gives the lock up in the middle; a destroyed scanner or
  monitor has none, no handler runs on its memory, nobody will call it back.
- `SectionsOfOwnTs`: what is filed under a transport stream was broadcast on its
  frequency, although sections are handled after the frontend may have moved on. It
  is not claimed of a scan with a NIT whose timeouts can come with it: a NIT ended twice
  (see below) replaces the list of frequencies under a scan that has begun.
- `TuneAwaited`: in the TS stage no frequency is left before the frontend's answer
  about *it* was looked at. `FirstSectionAsked`: nor a transport stream before
  the PMT of each program in the PAT section received first was asked for, if filters can be had.
- `WholeTables`: a completion means that the whole table is in the result, whatever order
  and versions its sections come in, except for the
  VCT of a further ATSC frequency, whose control is not cleared (`am_scan.c:1868-1871`). Scans
  with sections that cannot be decoded or with late completions (below) are not spoken of.
- `GivesBackOwn`: AM_SCAN_Destroy gives back the scanner's own filters only, if it was started.
- `EndsOnce`: the end of a scan that tries no NIT is announced once, also when tables
  complete as they time out. `ScanEnds`, `QuitServed`: it comes,
  whatever is broadcast, if nothing else goes wrong; a scanner that is told to stop gets to its clean-up.
- `TablesWatched`: an EPG monitor at rest watches every table of its mode: with a
  filter, or a check time that will bring one. The schedule of other streams (0x60,
  0x61) is left out, for the reason given below.
- `NoStaleSections`: once a table is asked for on a transport stream, no section
  of an earlier one is collected for it.
- `QuitServed`, `TuneFollowed` (EPG): a monitor told to stop is gone in the end, and
  a change of TS is followed, up to the cycle of locks below.
- `RingConsistent`: what is kept and what is left to play both end where the next
  data goes, after any writes, reads, seeks and changes of size.
- `InStep`: file offsets follow the positions but for full turns, until the
  recorder overtakes the player.
- `PauseTaken`: a PAUSE nothing replaces is acted on. `StopReturns`: AM_AV_StopTimeshift
  returns, except for a player that is about to fall asleep.
- `MappingsSafe`: what a data source still reads is mapped, and each mapping has
  exactly one owner who will unmap it, whichever calls stop, replace or fail.
- `ResourcesMatchMode`: a mode that is on holds what opening it made, nothing is
  left of one that is off but what the failed second open of a video leaves (and no more
  descriptors of the decoder than that are open), excluded modes are not on together, driver data that
  two modes share is of the right kind, and nobody but the monitor sees the TS
  decoder closed.
- `CallsReturn` (AV): API calls return but for the two cases below.
- `PlaysWhatIsChosen`: the TV's status says "playing" exactly if a program is being
  decoded, and then it is the one chosen last, with the frontend at its frequency,
  unless somebody else has tuned it or the database or the tuning has failed.
- `StartsOnOwnReport`: the frontend thread starts a program only on a report about
  the frequency the program is on, however late reports come. It is not claimed while
  `unsure`: after a row of the database that could not be had or a tuning that failed (the
  old frequency's report then does start the new program, see below), or after another user's tuning.
- `ChosenPlays`: a program that waits for the frontend is started, or refused by the
  decoder or the database, unless the frontend is taken elsewhere or the TV destroyed.

Bounds, and why they are enough. Two clients are what it takes to reuse a filter
id, to run one client's handler while the other frees, syncs or closes; two
filters what it takes for a round to go on after one handler, and for a mask that
is stale for the second; the third client of `dmx` competes for the mutex. In `fend`
one locker and one setter interleave with the monitor thread in all ways, with an
older and a newer tuning. In `rec` two rows are
what it takes to complete the wrong one, with the caller, the user interface, the callbacks and
the clock as the actors; in `rec_live` two callers compete for the mailbox and for signals. Two
frequencies are a scan that leaves one for another, with a third table of
frequencies from the NIT; two programs make the chain of PMTs; three filters are
fewer than a DVB stage wants. In `epg` one table is of each of the two kinds
(asked for again at once, or when its time comes), and two settings can meet in
one batch. A ring of four units shrunk to three, with chunks of two, is filled over
its end, split at it, and overtakes its player within three fills. In `av` the mapped
file and the application's own data are an earlier and a later one, and two callers let one free
the data of its failed start while the other one plays; one descriptor that is left over shows
that it stays over whatever follows. In `tv` two channels of one kind on two
frequencies are what it takes for a report about one to come late for the other, and
the radio channel shares a frequency with one of them. Where there is a proof (below) the
result holds for every size; the bounds then matter to liveness only.

Deadlock is checked in `dmx`, `fend`, `rec_live` and `epg`. The other systems really can
stop: a handler that sets the source during Close waits for its join, and a null
filter ends the process (`dmx_rough`); a RECORD_END callback that calls into the
recorder waits for its own join (`rec`); the scanner, the EPG monitor, the AV device
and the TV application have the cycles of locks below (`scan`, `scan_live`, `epg_live`,
`av`, `tv`); a timeshift player can sleep through its stop, and its application has a
bounded number of calls (`tshift`).

Fairness. `dmx`: weak fairness of the data thread's round and of the end of Close
(handlers return, the thread is scheduled), strong fairness of a thread that
wakes from `pthread_cond_wait` and needs the mutex, which the data thread gives up
in every poll. `fend`: the driver keeps reporting the outcome of a tuning (strong
fairness of `FetchOutcome`, a DVB frontend reports lock or timeout again and again),
callbacks return, woken threads get the mutex in the end. `rec_live`: weak fairness of the
two threads of the recorder; the management thread never sleeps without a timeout.
`scan_live`, `epg_live`: the component's thread and the handlers get the lock they
compete for (strong fairness), timed waits expire, and the frontend reports a
tuning. `tshift`: weak fairness of the player and of what holds `dev->lock`. `av`: weak
fairness of the data sources, strong fairness of the monitor and of the call, which
compete for `gAVMonLock` and the registry. `tv`: a call that tunes goes on (weak), the
frontend reports every tuning and its thread gets `tv->lock` in the end, although calls
compete for it (strong). That data or sections arrive is assumed nowhere,
nor anything of what applications call.

### Where the code does not do what its text says

TLC refutes some of what one would expect of the code. The models contain these cases; the properties are stated so that each shows as an exception, or with a constant
that keeps it out, and no run is spent on them:

- *Demux*: AM_DMX_StartFilter and StopFilter of a free handle follow a null pointer
  (`am_dmx.c:597`); a freed filter keeps its `cb`, and a filter that is started without
  AM_DMX_SetCallback (`am_dvr.c:148-156`) runs the handler of the slot's last user, who may
  have freed its data (`am_dmx.c:214`, `stray`); a second AM_DMX_Close that passes
  dmx_get_openned_dev while the first one closes joins a thread that is joined
  (360, `CloseTwice`).
- *Frontend*: with two threads in AM_FEND_Lock the outcome of one ends the wait of the
  other, whose status is never written (`am_fend.c:628`); an event fetched before the
  tuning, about equal parameters, ends the wait (563); registering the same
  function keeps the old `user_data` (527); a callback registered during
  AM_FEND_Lock is lost (641).
- *Recorder*: a request left during the join, or as the timed wait expires, is not
  looked at before the next signal, and later callers wait (`am_rec.c:772`); a
  RECORD_END callback that calls AM_REC_StopRecord and the joining thread wait for
  each other; a recording that ends because its time is over, its row was deleted or another
  row is due is joined with the mailbox empty, so that a StartRecord accepted meanwhile makes the
  record thread complete another row (220, `DbidOverwritten`); while a timeshift that comes
  during a recording is being refused, the flag for timeshifting is up, and a record thread that
  closes in this moment completes no row (`FlagMistaken`); the row of a recording started through
  AM_REC_StartRecord is deleted as expired while it records (682); the timeshift
  flag survives AM_REC_StopRecord (781).
- *Scanner*: AM_EVT_Unsubscribe with `scanner->lock` held, against AM_EVT_Signal into
  am_scan_fend_callback, which wants that lock (`am_scan.c:2075`); of a PAT of several sections only the programs of
  the section received first are walked (1577-1588), those of the others are never asked for;
  a scanner that is destroyed without having been started still has zeroes for its `fid`s
  and gives filter 0 back, whoever holds it (2078, `stolen`); in the NIT stage
  the timeouts of NIT and frontend both go on to the next frequency, and one of them
  before the other's answer (1186); a table that completes in the moment of its
  timeout is ended twice, the second time perhaps with `curr_ts` NULL (1935), or, for a NIT, with
  the frequency list replaced under the TS stage, so that a TS is filed under a frequency
  read outside of the list.
- *EPG monitor*: the same cycle (`am_epg.c:1232`), and again between the handler
  that announces a time with `mon->lock` held and the frontend callback (`LockCycle`);
  `evt_flag &= ~evt_flag` after a batch also takes down a flag set once more while the
  batch was served, so that a second AM_EPG_ChangeMode, or change of TS, goes unnoticed
  until the next one (1221, `overrun`); when the check distance of the EIT schedule
  becomes 0, which is to update it all the time (1442), tables 0x60 and 0x61 are
  switched by the mode bit of 0x50 and 0x51 (1200): a monitor of the schedule of other
  streams alone gives up their filters and does not update it at all.
- *Timeshift*: AM_AV_StopTimeshift broadcasts without the player's lock, so a player
  between its test of `running` and its wait never wakes (`aml.c:1778`, `FallsAsleep`);
  after AM_AV_SeekTimeshift the player leaves itself an AV_PLAY_START in the variable in
  which the next command of the application comes (2009): a second seek that comes at once
  replaces it and is then ignored, because it equals the last command acted on (1915),
  and the player stands still at the first position, where the documentation has it
  play on (`am_av.c:2433`); when the player's thread cannot be created, AM_AV_StartTimeshift
  succeeds all the same (1757), nothing plays, and the stop does not close the file (1775).
- *Audio/video*: aml_destroy_data_source does the same to a data source that has
  written everything (`aml.c:700`, `SleepsThrough`); the video output's event handler
  wants `dev->lock` inside the registry, which setters enter with `dev->lock` held and the
  monitor with `gAVMonLock` (`am_av.c:317`, `RegistryCycle`); a second AM_AV_StartVideoES
  forgets the first one's mapping (`am_av.c:157`, `lost`); a start of a video whose second open
  fails leaves the data source it has made and an open `/dev/amstream_vbuf` behind, to
  which nothing refers any more (`aml.c:2960-2972`, `left`); when the monitor cannot open
  the decoder again, the number of the descriptor it closed stays in use and is
  closed once more by the stop (`aml.c:2913`, `"stale"`); an audio file with `times`
  <= 0, "played all the time" according to `am_av.c:1427`, is played once (`aml.c:598`).
- *TV application*: a report of the frontend after AM_TV_StopPlay starts the stopped program
  again, because the callback starts whatever is chosen (`am_tv.c:187`); when am_tv_try_play
  finds no row of `srv_table` or `ts_table` (125-139) it has set `srv_dbid` and not `fend_para`,
  and the next report about the old frequency starts the new program (174-188, `unsure`); a program chosen
  while an earlier tuning is still waited for, on a frequency somebody else has tuned
  meanwhile, is neither started nor tuned for (149); AM_TV_Destroy and the callback
  have the cycle of locks of the scanner (374, `LockCycle`), and the decoder plays on
  after it; AM_TV_Play returns the failure of its first attempt when it then starts the
  first TV channel (476-482), and AM_TV_Destroy always an error (381).

## 4. Proofs

`tlapm` checks eight modules. The only assumptions are those on the constants, in the
modules that declare them (`DmxAssumption`, `FendAssumption`, `RecAssumption`,
`TimeshiftAssumption`, `AvAssumption`, `ScanAssumption`, `EpgAssumption`, `TvAssumption`): the
"no value" constant differs from values, sizes are positive, filter ids are numbers, a chunk fits into the ring, each channel has a number, a kind and a frequency, modes and
tables are those the code knows.

**DmxDevice** (`TypeCorrect`, `SyncQuiesces`, `HandlesAreExclusive`, `ClosedIsIdle`,
`Implementation`). Neither `Quiescence` nor the refinement is inductive. The invariant
`IndInv` adds `FlagCoversRound` (DMX_FL_RUN_CB is up exactly while the data thread is
in a round, so a Sync that saw it down saw no handler running), `RunningFilters` (an
enabled filter is used and held, and if a handler was registered for it, its client is the
holder; this is what makes the second look in `Capture`
sufficient against a stale mask), `ThreadLife` (what is left while and after the data
thread is joined), `OrderlyFilters` (a device closed when nobody held a filter runs none and
keeps none behind the loop of AM_DMX_Close, failed STOPs or not) and `HandlesWhileOpen`. `Implementation` is the
step simulation: `Capture` maps to `Deliver`, `HandlerReturns` to `Return`, the
allocation, free and sync steps to those of the contract, the rest to stuttering.

**FendDevice** (`TypeCorrect`, `RunningCallbackProtected`, `LockKeepsPromise`,
`LockLeavesNothing`). `FlagCoversRound` again carries the argument that a callback is
not replaced under the monitor thread, for any number of threads. What AM_FEND_Lock
promises is proved for `SingleLocker`, any setters, handlers and parameters:
`LockProgress` says that a lock in progress remembers a callback of the application
(never its own, which would make the chain recursive) and has its status by the time
FEND_FL_LOCK is down, and `NoDanglingLock` that its callback is in reach only while
it is in progress. With two lockers both are false.

**Recorder** (`TypeCorrect`, `SignalsArrive`, `OneRecordThread`, `DestroyLeavesNothing`,
`OwnRowCompleted`), for
any callers and rows, with clock and callbacks that call back in. `IndInv` adds to the
types and to `SignalReachesManager` itself: `FlagTellsThread` (outside of a join, the
flag is up exactly while there is a record thread to join), `GoesOn` (where the management
thread goes on after a join, and after the start of a recording) and `Started` (the
mailbox is locked until the thread has begun, and a recorder that is down has none). `OneRecordThread` is an
action property from the same invariant.
`OwnRowCompleted` holds with the clock and all callbacks at work; its two exemptions are part of
the property. Its invariant `OwnInv` adds the protocol that stands in for
the lock which the record thread does not take: what it reads in `rec_para` is what it was
started for unless the row was overwritten during a join (`OwnRow`), the flag for timeshifting is
not taken down under a recording (`Untouched`), and the mailbox stays locked while its request is
served (`Serving`), which is why a stop that was asked for is safe.

**Timeshift** (`TypeCorrect`, `RingStaysConsistent`, `FilesInStep`), for every size of
ring, buffer and chunk, with short transfers and the change of size. Lemmas say what
each operator of `TimeshiftFile` does to the ring: positions stay inside, counts within
the size, and both counts end at the write position; the arithmetic rests on `Turn` (a
position moved by at most one turn of the ring). `IInv` is `TypeOK`, the ring's
consistency, and what is open when (with or without a player thread). For `FilesInStep` a second invariant is needed,
`StepInv`: until the ring is full for the first time (`Early`) the start is 0, the write
offset is what is kept and the read offset is the read position, which is what the
change of size needs; afterwards both offsets follow modulo the size (`Follows`).

**AvDevice** (`DataIsMappedAndOwned`, `ModeHoldsItsResources`), for any callers, modes, mapped
files and faults. `IInv` says what is on between calls and in the middle of one:
`ModesExclude`, `Opens` (driver data and sources follow the modes that are on), `Monitored`
(the TS decoder is closed only while the monitor reopens it), `Calling` (what a call has
still to stop is on, and is all that its mode excludes), `Reading` (a source that is not
finished reads what the device keeps for it, or a mapping that is lost) and `OwnedOnce`:
a mapping that is not lost has an owner, and never two, among the device's players, the
call in progress and the callers who still have to free what a failed start left them.
The last is where the hazard is: a start that fails must hand ownership to exactly one
side, and it passes through all three. `Descriptors` counts what is open of the video decoder
against the mode and the failed second opens, for any number of them.

**EpgMonitor** (`TypeCorrect`, `NoFilterLost`, `RestIsWatchful`, `SectionsAreFresh`), for any set
of tables, any filters, settings, tunings and faults. The monitor thread is an agenda, a
sequence, and the invariant has to say which agendas there are. `Agenda`: a step that needs
its table to have no filter is first and has none, or comes right after the step that frees
it (`Ready`), although freeing gives the lock up in between; what ends a turn of the
thread's loop is last. `Stopping`: the agenda of a thread that leaves (`Exiting`) frees every
filter that remains. `Filters`: what the demux device gave out are exactly the filters of the
tables, and what was given back waits for its Sync. `Handling`: a section in the hands of
the handler is of the TS its table was asked for on, or of a later one. `Watching`: a
table of the mode has a filter that is not about to be freed, or a check time, or is
promised one, by a later step of the agenda (`Promised`) or by a flag that the
batch does not contain (`Pending`); this is what must survive every step, the lossy
`evt_flag &= ~evt_flag` included, and at rest only the filter and the check time remain.
`RestIsWatchful` then is `TablesWatched`.

**Scanner** (`TypeCorrect`, `NoFilterLost`, `OwnFiltersOnly`, `TuneIsAwaited`, `EndsAreSingle`, `SectionsAreOwn`,
`TablesAreWhole`), for any frequencies, lists a NIT may name, programs, filters and faults. The argument is that of EpgMonitor with a longer agenda, which
here also holds the rest of every call of a done function, every loop over tables and the
signals in between. `Agenda` says that a filter is asked for right after the step that frees
the table's last one (`Ready`), that a wait for a Sync comes first, and that a scan is begun
before all else. `Starting` is about a scan that was created and not started: it has no
filter and no callback, and its thread takes none of the steps that would need them
(`Early`); its `fid` still is all zeroes, which is why `Filters` relates `fid` to the filters
of the demux only for a scan that is started, and why `OwnFiltersOnly` is about such a scan. `Living` gives the agendas of a thread
that leaves (`Exiting`) and what each has undone. Most of the proof are lemmas about
agendas: which may be put in front of which (`LooseJoined`, `Fits`), and what is left of one
when its first step is over (`TailInOrder`).
`MovesInv` is about the steps that move the scan on: an agenda has at most one
(`OneMove`); while one is pending, or the answer of the frontend is awaited, nothing else
can move the scan (`Awaited`); and the steps of the network stage and of the end are not
repeated once that stage is over (`Once`, `Fresh`). `TuneIsAwaited` and `EndsAreSingle` follow from it, for every set of faults, late completions
included: the second end of a table moves a scan without a NIT nowhere.

What is collected is another matter: no single step files a section under a wrong TS, it takes a
table that is still received when the frontend moves on. Four more invariants, each on top of the one
before, lead there; TLC checked each before it was proved.
`OrderInv` (`OrderInvariance`) is the order of *all* pending steps: `Precedes` says which may come
before which (what ends a table follows the step that freed its filter, a table is asked for only
before what moves on, no two loops are nested), a filter given back is waited for at once
(`Synced`), and the batch is empty while the thread waits (`Rested`).
`WaitsInv` (`WaitsInvariance`) ties the flags together: a filter that runs, and a handler at work, are
for a table in `recv_status` (`Expected`), and so are a completion event and the rest of a
done function (`WaitedFor`), unless a table completes while its timeout is handled. There the flag of a
table that was ended stays up, which is the hazard at `am_scan.c:1935`.
`OwnInv` (`OwnInvariance`): with a current TS the frontend is tuned to it, its answer is not waited for, and
nothing that tunes is pending without `leaveTs` in front of it (`OnTs`); tables of a TS are received
only then (`OffTs`), those of the network no more (`NetworkOver`); the answer waited for is about the
next frequency of the list (`Listening`); hence a handler at work has a section of the current
TS (`Heard`), which is `SectionsOfOwnTs`. It does not hold of a scan whose NIT ends
twice, where the attempt to prove it led to the corner that section 3 lists. Its part `Sound`, that a
scan without late completions never crashes on a NULL `curr_ts`, is proved along with it, as each
done function needs it.
`WholeInv` (`WholeInvariance`) adds what was received: the PAT and a PMT are never waited for
together (`PmtAlone`), so the clearing of the PMT's control in
am_scan_request_next_pmt hits no completion that is pending, and a table that is complete has all its sections in
the result (`Whole`), also when a new version has reset its control. `WholeTables` is its
projection; both are about scans without late completions and bad sections, because a table
ended twice, or one whose section could not be decoded, is announced with less. The VCT is exempt: its control
survives a change of TS, so it is announced complete with the first section of the next one.

**TvPlayer** (`StatusTrue`, `OwnReports`), for any channels and frequencies, with every
fault, as far as the properties claim it. `Settled` adds to the types what holds between the calls of a live TV: status and
decoder agree, a call that has tuned stands before its assignment with nothing playing,
and `fend_para` is the frequency the frontend is at, unless `unsure`. Together with the
comparison in the callback, the last part is why a late report starts nothing. It is not
proved while `unsure`, where it is false.

Only model-checked: all liveness (out of the prover's reach), and of `Scanner` `FirstSectionAsked`. The
latter is not true for every value of the constants: a device that has fewer filters than the tables a
TS needs at once refuses one, and the chain of PMTs ends there. A proof would have to count
the filters in use.

## 5. Not modelled, and the plan

Abstracted in the modules: contents of sections and of streams, formats of
parameters, file names, durations, the EIT and SQL text; the DVR, the decoder and the
database as choices; the bits of a table's sections. The application closes a frontend or the
AV device only when nobody is inside a call, and destroys a recorder only when no other
call is in progress; the code enforces neither.

Of `src/` as a whole, the map covers a small part, and a project of this kind cannot
cover much more of it: most of it is `iperf`, `memwatch`, the vendored SI
decoders and fonts, generated or copied hardware demos, teletext and subtitle decoders,
image codecs, SQL and widget drawing. That code is sequential and has no protocol to get wrong
between threads; models of it would transliterate it. In particular:

- am_fend's NorDig arithmetic, am_time and am_dsc: pure functions and a table
  under one lock, within the reach of unit tests.
- am_dvr, am_smc, am_inp: small device layers. am_dvr is a client of the demux whose
  filters are started and freed under one lock; am_smc and am_inp repeat the
  callback protocol of am_fend without AM_FEND_Lock.
- am_aout, am_vout, am_osd, am_net, am_db, am_cfg, am_font, am_img, am_gui, am_si: wrappers
  over ioctls, SQLite, pixels and parsers.
- the store callback of the scan (`am_scan.c:197-1000`) and the reservations of programs in am_epg:
  SQL on one thread.
- inside am_av the media player, the injection and the decoding of JPEGs: one external
  library each, driven from under `dev->lock`.

What could come next, in this order: `FirstSectionAsked` as a theorem for devices with a filter for
each table that is received at once; `am_dvr` over `DmxContract`; am_smc and am_inp as instances of what `FendDevice` models; the walk of
the registry's list under unsubscription from a callback.
