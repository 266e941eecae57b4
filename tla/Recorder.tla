-------------------------------- MODULE Recorder --------------------------------
(****************************************************************************)
(* One recorder of am_mw/am_rec/am_rec.c: API calls leave one request at a  *)
(* time in rec->evt, the management thread takes it out, starts and joins   *)
(* the record thread, and watches the table of scheduled recordings.        *)
(*                                                                          *)
(* The recorder has one mutex and ONE condition variable, on which both the *)
(* management thread (for a request) and the callers (for an empty mailbox) *)
(* sleep.  The management thread holds the mutex except in its two waits    *)
(* and while it joins the record thread; the record thread takes it only in *)
(* calls that its event callbacks make.                                     *)
(*                                                                          *)
(* Time is abstract: a check that depends on the clock may or may not be    *)
(* due.  AM_DVR, AM_AV and the database answer in any way they can.         *)
(****************************************************************************)
EXTENDS Integers

CONSTANTS Callers,        \* application threads
          Recs,           \* db_id values of rec_table
          None,
          ClockActs,      \* does a check by the clock ever find something to do: a row
                          \* due, expired or deleted, a recording at its end?
          CallbackPosts,  \* do event callbacks on the management thread make calls?
          RecordEndCalls  \* does one on the record thread call AM_REC_StopRecord?

ASSUME RecAssumption ==
  /\ None \notin Recs
  /\ {ClockActs, CallbackPosts, RecordEndCalls} \subseteq BOOLEAN

VARIABLES
  life,       \* "down", "up", "closing": in AM_REC_Destroy
  evt,        \* rec->evt
  mpc, after, \* where the management thread is, and goes after a join or a start
  handling,   \* its local evt
  due,        \* its local db_rec_id
  recording, timeshift,  \* rec->stat_flag
  dbid,       \* rec->rec_db_id
  endcheck,   \* rec->rec_end_check_time # 0
  rt,         \* the record thread; "ended" until it has been joined
  status,     \* rec_table: status of each row, "absent" without a row
  cpc, creq,  \* each caller: position, request
  rtOf        \* history: the row the record thread was started for

vars == <<life, evt, mpc, after, handling, due, recording, timeshift, dbid,
          endcheck, rt, status, cpc, creq, rtOf>>
mailbox == <<evt, handling>>
manager == <<mpc, after, due>>
flags == <<recording, timeshift, dbid, endcheck>>
recorder == <<rt, rtOf>>
callers == <<cpc, creq>>

Event == {"start", "stop", "tshift", "tstop", "ctl", "quit"}
NoRow == [op : {"stop", "tshift", "tstop", "ctl", "quit"}, row : {None}]
Request == NoRow \cup [op : {"start", "add"}, row : Recs]
NoRequest == [op |-> "ctl", row |-> None]
Locked == {"check", "soon", "due", "replace", "begin", "expire", "end",
           "handle", "tstopped", "handled", "exit"}

TypeOK ==
  /\ life \in {"down", "up", "closing"}
  /\ evt \in Event \cup {"init", "none"}
  /\ mpc \in Locked \cup {"new", "asleep", "late", "woken", "join", "gone"}
  /\ after \in Locked \cup {"asleep", "tstarted", "gone"}
  /\ handling \in Event \cup {"none"}
  /\ due \in Recs \cup {None}
  /\ {recording, timeshift, endcheck} \subseteq BOOLEAN
  /\ {dbid, rtOf} \subseteq Recs \cup {None}
  /\ rt \in {"none", "run", "closing", "notify", "call", "callwait", "ended"}
  /\ status \in [Recs -> {"absent", "notstart", "wait", "recording", "complete"}]
  /\ cpc \in [Callers -> {"out", "waiting", "woken", "signal", "join"}]
  /\ creq \in [Callers -> Request]

Init ==
  /\ life = "down" /\ mpc = "gone" /\ after = "gone"
  /\ evt = "init" /\ handling = "none"
  /\ due = None /\ dbid = None /\ rtOf = None
  /\ recording = FALSE /\ timeshift = FALSE /\ endcheck = FALSE
  /\ rt = "none"
  /\ status = [r \in Recs |-> "absent"]
  /\ cpc = [c \in Callers |-> "out"]
  /\ creq = [c \in Callers |-> NoRequest]

LockFree == mpc \notin Locked
Present(r) == r # None /\ status[r] # "absent"

--------------------------------------------------------------------------------
(* The condition variable.                                                   *)

(* pthread_cond_signal wakes one of the threads that sleep, if any does; cp  *)
(* is where the callers are, r where the record thread is (it sleeps in a    *)
(* call that its callback made).                                             *)
SignalCond(cp, r) ==
  \/ mpc = "asleep" /\ mpc' = "woken" /\ cpc' = cp /\ rt' = r
  \/ /\ \E c \in Callers : cp[c] = "waiting" /\ cpc' = [cp EXCEPT ![c] = "woken"]
     /\ UNCHANGED mpc /\ rt' = r
  \/ r = "callwait" /\ rt' = "call" /\ cpc' = cp /\ UNCHANGED mpc
  \/ /\ mpc # "asleep" /\ r # "callwait" /\ \A c \in Callers : cp[c] # "waiting"
     /\ cpc' = cp /\ rt' = r
     /\ UNCHANGED mpc

\* Mutant: pthread_cond_signal in place of the broadcast.
WakeCallers_One ==
  \/ \E c \in Callers : cpc[c] = "waiting" /\ cpc' = [cpc EXCEPT ![c] = "woken"]
     /\ UNCHANGED rt
  \/ (\A c \in Callers : cpc[c] # "waiting") /\ UNCHANGED cpc
     /\ rt' = IF rt = "callwait" THEN "call" ELSE rt

WakeCallers ==
  /\ cpc' = [c \in Callers |-> IF cpc[c] = "waiting" THEN "woken" ELSE cpc[c]]
  /\ rt' = IF rt = "callwait" THEN "call" ELSE rt

SpuriousWake ==
  /\ \/ mpc = "asleep" /\ mpc' = "woken" /\ UNCHANGED <<cpc, rt>>
     \/ \E c \in Callers : cpc[c] = "waiting" /\ cpc' = [cpc EXCEPT ![c] = "woken"]
        /\ UNCHANGED <<mpc, rt>>
     \/ rt = "callwait" /\ rt' = "call" /\ UNCHANGED <<mpc, cpc>>
  /\ UNCHANGED <<life, mailbox, after, due, flags, rtOf, status, creq>>

--------------------------------------------------------------------------------
(* API calls from application threads.                                       *)

Create ==
  /\ life = "down"
  /\ life' = "up"
  /\ evt' = "init" /\ mpc' = "new" /\ handling' = "none"
  /\ dbid' = None /\ recording' = FALSE /\ timeshift' = FALSE /\ endcheck' = FALSE
  /\ UNCHANGED <<after, due, recorder, status, callers>>

(* c is in a call with request q and has the mutex.                          *)
InCall(c, q) ==
  /\ LockFree
  /\ \/ life = "up" /\ cpc[c] = "out" /\ q.op # "quit"
     \/ cpc[c] = "woken" /\ creq[c] = q

(* am_rec_wait_events_done: the mailbox must be empty first.                 *)
WaitEventsDone(c, q) ==
  /\ InCall(c, q) /\ evt # "none"
  /\ cpc' = [cpc EXCEPT ![c] = "waiting"]
  /\ creq' = [creq EXCEPT ![c] = q]
  /\ UNCHANGED <<life, mailbox, manager, flags, recorder, status>>

(* The flags each call looks at before it leaves its request.                *)
Accepted(op) ==
  CASE op = "start"  -> ~recording
    [] op = "stop"   -> recording
    [] op = "tshift" -> ~recording /\ ~timeshift
    [] op \in {"tstop", "ctl"} -> timeshift
    [] OTHER -> TRUE

Refuse(c, q) ==
  /\ InCall(c, q) /\ evt = "none" /\ ~Accepted(q.op)
  /\ cpc' = [cpc EXCEPT ![c] = "out"]
  /\ creq' = [creq EXCEPT ![c] = NoRequest]
  /\ UNCHANGED <<life, mailbox, manager, flags, recorder, status>>

(* "ctl" stands for Play, Pause, Resume, FastForward, FastBackward and Seek. *)
\* Mutant: the call does not wait for the mailbox to be empty.
LeaveRequest_NoWait(c, q) ==
  /\ InCall(c, q) /\ evt # "init"
  /\ q.op \in Event \ {"quit"} /\ Accepted(q.op)
  /\ evt' = q.op
  /\ dbid' = IF q.op = "start" THEN q.row ELSE dbid
  /\ SignalCond([cpc EXCEPT ![c] = "out"], rt)
  /\ creq' = [creq EXCEPT ![c] = NoRequest]
  /\ UNCHANGED <<life, handling, after, due, recording, timeshift, endcheck,
                 rtOf, status>>

LeaveRequest(c, q) ==
  /\ InCall(c, q) /\ evt = "none"
  /\ q.op \in Event \ {"quit"} /\ Accepted(q.op)
  /\ evt' = q.op
  /\ dbid' = IF q.op = "start" THEN q.row ELSE dbid
  /\ SignalCond([cpc EXCEPT ![c] = "out"], rt)
  /\ creq' = [creq EXCEPT ![c] = NoRequest]
  /\ UNCHANGED <<life, handling, after, due, recording, timeshift, endcheck,
                 rtOf, status>>

(* A new row, and the management thread is woken to look at the table.       *)
AddTimeRecord(c, q) ==
  /\ InCall(c, q) /\ evt = "none"
  /\ q.op = "add" /\ status[q.row] = "absent"
  /\ status' = [status EXCEPT ![q.row] = "notstart"]
  /\ SignalCond([cpc EXCEPT ![c] = "out"], rt)
  /\ creq' = [creq EXCEPT ![c] = NoRequest]
  /\ UNCHANGED <<life, mailbox, after, due, flags, rtOf>>

AddFails(c, q) ==
  /\ InCall(c, q) /\ evt = "none" /\ q.op = "add"
  /\ cpc' = [cpc EXCEPT ![c] = "out"]
  /\ creq' = [creq EXCEPT ![c] = NoRequest]
  /\ UNCHANGED <<life, mailbox, manager, flags, recorder, status>>

(* AM_REC_Destroy: the application calls it when no other call is going on.  *)
(* It signals after it has given the mutex back, then joins the thread.      *)
DestroyEnter(c) ==
  /\ life = "up" /\ \A d \in Callers : cpc[d] = "out"
  /\ life' = "closing"
  /\ cpc' = [cpc EXCEPT ![c] = "woken"]
  /\ creq' = [creq EXCEPT ![c] = [op |-> "quit", row |-> None]]
  /\ UNCHANGED <<mailbox, manager, flags, recorder, status>>

DestroyRequests(c) ==
  /\ LockFree /\ cpc[c] = "woken" /\ creq[c].op = "quit" /\ evt = "none"
  /\ evt' = "quit"
  /\ cpc' = [cpc EXCEPT ![c] = "signal"]
  /\ creq' = [creq EXCEPT ![c] = NoRequest]
  /\ UNCHANGED <<life, handling, manager, flags, recorder, status>>

DestroySignals(c) ==
  /\ cpc[c] = "signal"
  /\ SignalCond([cpc EXCEPT ![c] = "join"], rt)
  /\ UNCHANGED <<life, mailbox, after, due, flags, rtOf, status, creq>>

DestroyJoins(c) ==
  /\ cpc[c] = "join" /\ mpc = "gone"
  /\ cpc' = [cpc EXCEPT ![c] = "out"]
  /\ life' = "down"
  /\ UNCHANGED <<mailbox, manager, flags, recorder, status, creq>>

(* The user interface deletes a row of the database.                         *)
UserDeletes(r) ==
  /\ ClockActs /\ status[r] # "absent"
  /\ status' = [status EXCEPT ![r] = "absent"]
  /\ UNCHANGED <<life, mailbox, manager, flags, recorder, callers>>

--------------------------------------------------------------------------------
(* The management thread: waits.                                             *)

Begin ==
  /\ mpc = "new"
  /\ evt' = "none"
  /\ WakeCallers
  /\ mpc' = "check"
  /\ UNCHANGED <<life, handling, after, due, flags, rtOf, status, creq>>

(* pthread_cond_timedwait gives up, and then needs the mutex.                *)
Timeout ==
  /\ mpc = "asleep"
  /\ mpc' = "late"
  /\ UNCHANGED <<life, mailbox, after, due, flags, recorder, status, callers>>

(* With ETIMEDOUT the mailbox is not looked at.                              *)
WakeLate ==
  /\ mpc = "late"
  /\ mpc' = "check"
  /\ UNCHANGED <<life, mailbox, after, due, flags, recorder, status, callers>>

\* Mutant: a thread that was woken waits again before it looks at the mailbox.
Wake_Blind ==
  /\ mpc = "woken"
  /\ mpc' = "check"
  /\ UNCHANGED <<life, mailbox, after, due, flags, recorder, status, callers>>

Wake ==
  /\ mpc = "woken"
  /\ IF evt = "none"
     THEN mpc' = "check" /\ UNCHANGED handling
     ELSE mpc' = "handle" /\ handling' = evt
  /\ UNCHANGED <<life, evt, after, due, flags, recorder, status, callers>>

--------------------------------------------------------------------------------
(* am_rec_stop_record: the flag goes down and the mutex is given up for the  *)
(* join; then the thread goes on at k.                                       *)
StopRecord(k) ==
  /\ IF recording THEN mpc' = "join" /\ after' = k /\ recording' = FALSE
     ELSE mpc' = k /\ UNCHANGED <<after, recording>>
  /\ UNCHANGED <<life, due, timeshift, dbid, endcheck, recorder, status, callers>>

Join ==
  /\ mpc = "join" /\ rt = "ended"
  /\ mpc' = after
  /\ rt' = "none" /\ rtOf' = None
  /\ dbid' = None /\ endcheck' = FALSE
  /\ UNCHANGED <<life, mailbox, after, due, recording, timeshift, status, callers>>

(* am_rec_check_records, when it is due: a recording whose row is gone is    *)
(* stopped ...                                                               *)
CheckNotDue ==
  /\ mpc = "check"
  /\ mpc' = "end"
  /\ UNCHANGED <<life, mailbox, after, due, flags, recorder, status, callers>>

CheckDeleted ==
  /\ mpc = "check"
  /\ IF dbid # None /\ ~Present(dbid) THEN StopRecord("soon")
     ELSE /\ mpc' = "soon"
          /\ UNCHANGED <<life, after, due, flags, recorder, status, callers>>
  /\ UNCHANGED mailbox

(* A call made by an event callback of the management thread overwrites      *)
(* whatever is in the mailbox, and there is nobody to signal.                *)
CallbackCalls ==
  \/ UNCHANGED <<evt, dbid>>
  \/ /\ CallbackPosts /\ recording
     /\ evt' = "stop" /\ UNCHANGED dbid
  \/ /\ CallbackPosts /\ ~recording
     /\ evt' = "start" /\ dbid' \in Recs

(* ... the next one is announced (AM_REC_EVT_NEW_RECORD) ...                 *)
NotifySoon ==
  /\ mpc = "soon"
  /\ \/ UNCHANGED <<evt, dbid, status>>
     \/ \E r \in Recs : /\ ClockActs /\ status[r] = "notstart"
                        /\ status' = [status EXCEPT ![r] = "wait"]
                        /\ CallbackCalls
  /\ mpc' = "due"
  /\ UNCHANGED <<life, handling, after, due, recording, timeshift, endcheck,
                 recorder, callers>>

(* ... one whose time has come takes the place of what is going on ...       *)
NothingDue ==
  /\ mpc = "due"
  /\ mpc' = "expire"
  /\ UNCHANGED <<life, mailbox, after, due, flags, recorder, status, callers>>

RecordDue(r) ==
  /\ ClockActs /\ mpc = "due" /\ status[r] \in {"notstart", "wait"}
  /\ status' = [status EXCEPT ![r] = "recording"]
  /\ due' = r
  /\ IF recording THEN mpc' = "join" /\ after' = "replace" /\ recording' = FALSE
     ELSE mpc' = "replace" /\ UNCHANGED <<after, recording>>
  /\ UNCHANGED <<life, mailbox, timeshift, dbid, endcheck, recorder, callers>>

Replace ==
  /\ mpc = "replace"
  /\ timeshift' = FALSE
  /\ dbid' = due /\ due' = None
  /\ mpc' = "begin" /\ after' = "expire"
  /\ UNCHANGED <<life, mailbox, recording, endcheck, recorder, status, callers>>

(* ... and rows nobody started in time are deleted.                          *)
Expire ==
  /\ mpc = "expire"
  /\ \E S \in SUBSET {r \in Recs : status[r] \in {"notstart", "wait"}} :
       /\ ClockActs \/ S = {}
       /\ status' = [r \in Recs |-> IF r \in S THEN "absent" ELSE status[r]]
  /\ mpc' = "end"
  /\ UNCHANGED <<life, mailbox, after, due, flags, recorder, callers>>

(* The end of the recording's time.                                          *)
EndTime ==
  /\ mpc = "end" /\ endcheck /\ ClockActs
  /\ StopRecord("asleep")
  /\ UNCHANGED mailbox

Sleep ==
  /\ mpc = "end"
  /\ mpc' = "asleep"
  /\ UNCHANGED <<life, mailbox, after, due, flags, recorder, status, callers>>

--------------------------------------------------------------------------------
(* am_rec_start_record, which then goes on at "after".                       *)

ContinueAt(k) == IF k = "tstarted" THEN "handled" ELSE k

(* Parameters and file are there: the record thread is created.              *)
StartRecord ==
  /\ mpc = "begin" /\ ~recording
  /\ timeshift \/ Present(dbid)
  /\ recording' = TRUE
  /\ rt' = "run"
  /\ rtOf' = IF timeshift THEN None ELSE dbid
  /\ endcheck' \in IF timeshift THEN {FALSE} ELSE BOOLEAN
  /\ mpc' = ContinueAt(after)
  /\ UNCHANGED <<life, mailbox, after, due, timeshift, dbid, status, callers>>

(* AM_REC_ERR_BUSY is only signalled.                                        *)
StartBusy ==
  /\ mpc = "begin" /\ recording
  /\ timeshift' = (timeshift /\ after # "tstarted")
  /\ CallbackCalls
  /\ mpc' = ContinueAt(after)
  /\ UNCHANGED <<life, handling, after, due, recording, endcheck, recorder, status, callers>>

(* Any other error: the row that dbid names is complete, dbid cleared, and   *)
(* the callbacks told: of the error before (a call of theirs gives dbid the  *)
(* row "told"), of the end after (row "ended").  When pthread_create failed, *)
(* dbid is cleared first of all.                                             *)
StartFails ==
  /\ mpc = "begin" /\ ~recording
  /\ \E noThread \in BOOLEAN, told, ended \in Recs \cup {None} :
       LET row == IF told # None THEN told ELSE IF noThread THEN None ELSE dbid
       IN /\ CallbackPosts \/ (told = None /\ ended = None)
          /\ status' = IF ~timeshift /\ Present(row)
                       THEN [status EXCEPT ![row] = "complete"] ELSE status
          /\ endcheck' \in IF timeshift /\ ~noThread THEN {endcheck, FALSE} ELSE {FALSE}
          /\ dbid' = IF ended # None THEN ended ELSE IF timeshift THEN row ELSE None
          /\ evt' = IF told = None /\ ended = None THEN evt ELSE "start"
  /\ timeshift' = (timeshift /\ after # "tstarted")
  /\ mpc' = ContinueAt(after)
  /\ UNCHANGED <<life, handling, after, due, recording, recorder, callers>>

--------------------------------------------------------------------------------
(* Handling a request.                                                       *)

HandleStart ==
  /\ mpc = "handle" /\ handling \in {"start", "tshift"}
  /\ IF handling = "start" \/ ~timeshift
     THEN /\ mpc' = "begin"
          /\ after' = IF handling = "start" THEN "handled" ELSE "tstarted"
          /\ timeshift' = (timeshift \/ handling = "tshift")
     ELSE mpc' = "handled" /\ UNCHANGED <<after, timeshift>>
  /\ UNCHANGED <<life, mailbox, due, recording, dbid, endcheck, recorder, status, callers>>

HandleStop ==
  /\ mpc = "handle"
  /\ \/ handling = "stop" /\ StopRecord("handled")
     \/ handling = "tstop" /\ timeshift /\ StopRecord("tstopped")
  /\ UNCHANGED mailbox

HandleOther ==
  /\ mpc = "handle"
  /\ handling \in {"ctl", "quit"} \/ (handling = "tstop" /\ ~timeshift)
  /\ mpc' = "handled"
  /\ UNCHANGED <<life, mailbox, after, due, flags, recorder, status, callers>>

TimeshiftStopped ==
  /\ mpc = "tstopped"
  /\ timeshift' = FALSE
  /\ mpc' = "handled"
  /\ UNCHANGED <<life, mailbox, after, due, recording, dbid, endcheck, recorder,
                 status, callers>>

(* A callback left a request of another kind: that one next.                 *)
HandleAgain ==
  /\ mpc = "handled" /\ evt # handling
  /\ handling' = evt
  /\ mpc' = "handle"
  /\ UNCHANGED <<life, evt, after, due, flags, recorder, status, callers>>

HandleDone ==
  /\ mpc = "handled" /\ evt = handling
  /\ evt' = "none" /\ handling' = "none"
  /\ WakeCallers
  /\ mpc' = IF handling = "quit" THEN "exit" ELSE "check"
  /\ UNCHANGED <<life, after, due, flags, rtOf, status, creq>>

\* Mutant: the thread exits without stopping the recording.
Exit_KeepsRecording ==
  /\ mpc = "exit"
  /\ mpc' = "gone"
  /\ UNCHANGED <<life, mailbox, after, due, flags, recorder, status, callers>>

Exit ==
  /\ mpc = "exit"
  /\ StopRecord("gone")
  /\ UNCHANGED mailbox

--------------------------------------------------------------------------------
(* The record thread.  It reads rec->stat_flag and rec->rec_db_id without    *)
(* the mutex.                                                                *)

(* It leaves its loop when the flag is down, or with an error.               *)
RecordStops ==
  /\ rt = "run" /\ ~recording
  /\ rt' = "closing"
  /\ UNCHANGED <<life, mailbox, manager, flags, status, callers, rtOf>>

\* Mutant: the record thread takes its flag down itself when it fails.
RecordFails_ClearsFlag ==
  /\ rt = "run" /\ recording
  /\ rt' = "closing"
  /\ recording' = FALSE
  /\ UNCHANGED <<life, mailbox, manager, timeshift, dbid, endcheck, status, callers, rtOf>>

RecordFails ==
  /\ rt = "run" /\ recording
  /\ rt' = "closing"
  /\ UNCHANGED <<life, mailbox, manager, flags, status, callers, rtOf>>

RecordCloses ==
  /\ rt = "closing"
  /\ status' = IF ~timeshift /\ Present(dbid)
               THEN [status EXCEPT ![dbid] = "complete"] ELSE status
  /\ rt' = "notify"
  /\ UNCHANGED <<life, mailbox, manager, flags, callers, rtOf>>

(* AM_REC_EVT_RECORD_END, with or without a call made by its callback.       *)
RecordNotifies ==
  /\ rt = "notify"
  /\ rt' \in {"ended"} \cup (IF RecordEndCalls THEN {"call"} ELSE {})
  /\ UNCHANGED <<life, mailbox, manager, flags, status, callers, rtOf>>

CallbackWaits ==
  /\ rt = "call" /\ LockFree /\ evt # "none"
  /\ rt' = "callwait"
  /\ UNCHANGED <<life, mailbox, manager, flags, status, callers, rtOf>>

CallbackStops ==
  /\ rt = "call" /\ LockFree /\ evt = "none"
  /\ IF recording THEN evt' = "stop" /\ SignalCond(cpc, "ended")
     ELSE rt' = "ended" /\ UNCHANGED <<evt, mpc, cpc>>
  /\ UNCHANGED <<life, handling, after, due, flags, status, creq, rtOf>>

--------------------------------------------------------------------------------
CallStep(c) ==
  \/ \E q \in Request :
       \/ WaitEventsDone(c, q) \/ Refuse(c, q) \/ LeaveRequest(c, q)
       \/ AddTimeRecord(c, q) \/ AddFails(c, q)
  \/ DestroyEnter(c) \/ DestroyRequests(c) \/ DestroySignals(c) \/ DestroyJoins(c)

ManagerStep ==
  \/ Begin \/ Timeout \/ WakeLate \/ Wake
  \/ CheckNotDue \/ CheckDeleted \/ NotifySoon \/ NothingDue
  \/ (\E r \in Recs : RecordDue(r)) \/ Replace \/ Expire \/ EndTime \/ Sleep
  \/ StartRecord \/ StartBusy \/ StartFails
  \/ HandleStart \/ HandleStop \/ HandleOther \/ TimeshiftStopped
  \/ HandleAgain \/ HandleDone \/ Join \/ Exit

RecordStep ==
  RecordStops \/ RecordCloses \/ RecordNotifies \/ CallbackWaits \/ CallbackStops

Next ==
  \/ Create \/ SpuriousWake
  \/ \E c \in Callers : CallStep(c)
  \/ \E r \in Recs : UserDeletes(r)
  \/ ManagerStep
  \/ RecordStep \/ RecordFails

Spec == Init /\ [][Next]_vars

(* Both threads of the recorder run.  (The management thread never sleeps    *)
(* without a timeout: rec_check_time is set from its first statement on.)    *)
FairSpec == Spec /\ WF_vars(ManagerStep) /\ WF_vars(RecordStep)

--------------------------------------------------------------------------------
(* Properties.                                                               *)

(* pthread_cond_signal wakes only one thread of the two kinds that sleep on  *)
(* rec->cond: no caller sleeps there while the mailbox is empty, so the      *)
(* signal of a new request or row cannot go to a caller in place of the      *)
(* management thread.                                                        *)
SignalReachesManager ==
  evt = "none" => rt # "callwait" /\ \A c \in Callers : cpc[c] # "waiting"

(* A record thread is joined before the next one is created: rec_thread is   *)
(* overwritten only then, and two threads never write with one rec_fd.       *)
RecordThreadsJoined == [][rt' = "run" /\ rt # "run" => rt = "none"]_vars

(* While the record thread of a stopped recording is joined without a        *)
(* request being handled (its time is over, its row deleted, another row     *)
(* due), AM_REC_StartRecord finds the mailbox empty and overwrites dbid.     *)
DbidOverwritten == ~recording /\ handling = "none" /\ evt = "start"

(* While AM_REC_StartTimeShifting, left before a recording of a row began,   *)
(* is being refused, the flag for timeshifting is up for a moment.           *)
FlagMistaken == timeshift /\ rtOf # None

(* The record thread completes the row it was started for, and no other,     *)
(* although it reads rec_db_id without the mutex when it closes: but for the *)
(* two moments above, whatever requests, callbacks, the clock and the user   *)
(* interface do, a row is not completed for another.  In particular a stop   *)
(* that was asked for keeps the mailbox full, so that no start gets between. *)
CompletesOwnRow ==
  [][rt = "closing" /\ rt' # rt /\ ~DbidOverwritten /\ ~FlagMistaken =>
       \A r \in Recs : status'[r] = IF r = rtOf /\ Present(r) THEN "complete"
                                    ELSE status[r]]_vars

(* AM_REC_Destroy leaves no record thread behind.  (The values of the        *)
(* variables are what the code can give them.)                               *)
IdleWhenGone == mpc = "gone" => rt = "none" /\ ~recording
GoneIsIdle == TypeOK /\ IdleWhenGone

(* A request whose signal has reached the management thread is handled and   *)
(* the mailbox emptied for the callers that wait, and the thread gets        *)
(* through the join of the record thread that handling may take.             *)
HandledOnceWoken ==
  /\ mpc = "woken" /\ evt # "none" ~> evt = "none"
  /\ mpc = "join" ~> mpc # "join"
================================================================================
