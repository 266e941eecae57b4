------------------------------ MODULE Timeshift ------------------------------
(****************************************************************************)
(* The timeshift player: AM_AV_*Timeshift of am_av/am_av.c and the aml      *)
(* driver, am_av/aml/aml.c.  The recorder fills the file, a player thread   *)
(* feeds the decoder from it, the application gives commands.  Every API    *)
(* function holds dev->lock, filling and stopping for long.  The thread     *)
(* takes a command at the head of its loop and acts on it afterwards; some  *)
(* commands make it leave the next one itself, in the same variable.        *)
(****************************************************************************)
EXTENDS TimeshiftFile

CONSTANTS FirstSize, \* size of the ring until the bit rate is known
          RingSize,  \* its size then, rate * duration
          Chunk,     \* most units the recorder brings at a time
          BufSize,   \* units the player thread can buffer
          MaxFills,  \* bound: calls of AM_AV_TimeshiftFillData
          MaxCmds,   \* bound: commands of the application
          Loops,     \* values of !playback_only
          Faults,    \* "start": devices or thread cannot be had; "disk": short writes
          None

TimeshiftAssumption ==
  /\ {FirstSize, RingSize, Chunk, BufSize} \subseteq Nat \ {0}
  /\ {MaxFills, MaxCmds} \subseteq Nat
  /\ Chunk <= FirstSize /\ Chunk <= RingSize
  /\ Loops \subseteq BOOLEAN
  /\ Faults \subseteq {"start", "disk"}
  /\ None \notin File
ASSUME TimeshiftAssumption

VARIABLES
  mode,    \* dev->mode & AV_TIMESHIFT
  devLock, \* what goes on under dev->lock: "free", "fill", "stop", "join"
  file,    \* None: not opened
  rate,    \* is the bit rate known?
  filling, \* units aml_timeshift_file_write is writing
  running, cmd,
  fast,    \* speed # 0
  pc,      \* the player thread
  cur,     \* the command it took
  last,    \* last_cmd
  state,
  feeding, \* inject_size > 0
  sleep,   \* timeout: "no", "nap" (> 0), "ever" (-1)
  left,    \* units in its buffer
  lapped,  \* the recorder overtook the player since the last seek
  fills, cmds, starts

app == <<mode, devLock, rate, filling, running>>
player == <<cur, last, state, feeding, sleep, left>>
counters == <<fills, cmds, starts>>
vars == <<app, file, cmd, fast, pc, player, lapped, counters>>

Cmds == {"start", "pause", "resume", "ffb", "seek"}

TypeOK ==
  /\ mode \in BOOLEAN /\ rate \in BOOLEAN /\ running \in BOOLEAN
  /\ fast \in BOOLEAN /\ feeding \in BOOLEAN /\ lapped \in BOOLEAN
  /\ devLock \in {"free", "fill", "stop", "join"}
  /\ file # None => file \in File /\ (file.loop => file.size \in {FirstSize, RingSize})
  /\ filling \in 0..Chunk
  /\ cmd \in Cmds /\ cur \in Cmds /\ last \in Cmds \cup {None}
  /\ pc \in {"none", "take", "act", "move", "inform", "wait", "asleep", "done"}
  /\ state \in {"stop", "play", "pause", "fffb", "searchok"}
  /\ sleep \in {"no", "nap", "ever"}
  /\ left \in 0..BufSize
  /\ fills \in 0..MaxFills /\ cmds \in 0..MaxCmds /\ starts \in 0..1

Init ==
  /\ mode = FALSE /\ devLock = "free" /\ file = None /\ rate = FALSE /\ filling = 0
  /\ running = FALSE /\ cmd = "start" /\ fast = FALSE
  /\ pc = "none" /\ cur = "start" /\ last = None /\ state = "stop"
  /\ feeding = FALSE /\ sleep = "no" /\ left = 0
  /\ lapped = FALSE
  /\ fills = 0 /\ cmds = 0 /\ starts = 0

--------------------------------------------------------------------------------
(* The player thread.                                                        *)

(* An offset is a time multiplied by the rate: anything, or 0.               *)
Offsets == IF rate THEN -1..file.size + 1 ELSE {0}
Seek(offset) == file' = Sought(file, offset) /\ lapped' = FALSE

(* The loop ends when running was taken back; the command is read under      *)
(* tshift->lock.                                                             *)
Take ==
  /\ pc = "take"
  /\ pc' = IF running THEN "act" ELSE "done"
  /\ cur' = IF running THEN cmd ELSE cur
  /\ UNCHANGED <<app, file, cmd, fast, last, state, feeding, sleep, left, lapped, counters>>

(* aml_timeshift_do_play_cmd.  Only a command that differs from the last one *)
(* counts, and winding and seeking need the rate.                            *)
Acting(c) ==
  /\ pc = "act" /\ cur = c /\ last # c
  /\ pc' = "move"
  /\ last' = c
  /\ UNCHANGED <<app, fast, cur, counters>>

Ignore ==
  /\ pc = "act"
  /\ \/ cur = last
     \/ ~rate /\ cur \in {"ffb", "seek"}
     \/ cur = "ffb" /\ state = "play" /\ ~fast
  /\ pc' = "move"
  /\ UNCHANGED <<app, file, cmd, fast, player, lapped, counters>>

Unmoved == UNCHANGED <<file, cmd, feeding, sleep, state, left, lapped>>

ActStart ==
  /\ Acting("start") /\ UNCHANGED cmd
  /\ IF state = "play" THEN Unmoved
     ELSE /\ \E offset \in Offsets : Seek(offset)
          /\ state' = "play" /\ feeding' = TRUE /\ sleep' = "no" /\ left' = 0

(* Mutant: pauses only a player that plays, as ActResume does the other way. *)
ActPause_OnlyPlaying ==
  /\ Acting("pause")
  /\ IF state # "play" THEN Unmoved
     ELSE /\ state' = "pause" /\ feeding' = FALSE /\ sleep' = "ever"
          /\ UNCHANGED <<file, cmd, left, lapped>>

ActPause ==
  /\ Acting("pause")
  /\ state' = "pause" /\ feeding' = FALSE /\ sleep' = "ever"
  /\ UNCHANGED <<file, cmd, left, lapped>>

ActResume ==
  /\ Acting("resume")
  /\ IF state # "pause" THEN Unmoved
     ELSE /\ state' = "play" /\ feeding' = TRUE /\ sleep' = "no"
          /\ UNCHANGED <<file, cmd, left, lapped>>

(* am_timeshift_fffb: go on by the speed; at an end, or when the speed is 0, *)
(* play.  The player is reset, its buffer emptied.                           *)
Wind ==
  IF fast
  THEN \E offset \in Offsets :
         /\ Seek(offset) /\ left' = 0
         /\ cmd' = IF Outside(file, offset) THEN "start" ELSE cmd
  ELSE cmd' = "start" /\ UNCHANGED <<file, left, lapped>>

ActWind ==
  /\ Acting("ffb") /\ rate /\ (state = "play" => fast)
  /\ IF state = "fffb" THEN Unmoved
     ELSE Wind /\ state' = "fffb" /\ feeding' = TRUE /\ sleep' = "no"

(* The application is told, then the command is replaced by AV_PLAY_START.   *)
ActSeek ==
  /\ Acting("seek") /\ rate
  /\ \E offset \in Offsets : Seek(offset)
  /\ state' = "searchok" /\ feeding' = FALSE /\ sleep' = "no" /\ left' = 0
  /\ cmd' = IF state # "searchok" THEN "start" ELSE cmd

(* Mutant: reads as much as the whole buffer holds.                          *)
Move_WholeBuffer ==
  /\ pc = "move"
  /\ LET played == Played(file, BufSize) IN
       /\ file' = played
       /\ left' = left + (file.avail - played.avail)
  /\ pc' = "inform"
  /\ UNCHANGED <<app, cmd, fast, cur, last, state, feeding, sleep, lapped, counters>>

(* aml_timeshift_file_read and aml_timeshift_inject, which may take less.    *)
Move ==
  /\ pc = "move"
  /\ LET played == Played(file, BufSize - left)
         full   == IF file.loop THEN left + (file.avail - played.avail)
                   ELSE left + (played.rpos - file.rpos)
     IN /\ file' = played
        /\ left' \in IF feeding THEN 0..full ELSE {full}
  /\ pc' = "inform"
  /\ UNCHANGED <<app, cmd, fast, cur, last, state, feeding, sleep, lapped, counters>>

(* While winding, the next step is made when the decoder shows a picture     *)
(* ("nap") or has shown none for two seconds.                                *)
InformWinding ==
  /\ pc = "inform" /\ state = "fffb"
  /\ \/ sleep' = "nap" /\ Wind
     \/ sleep' = "no" /\ Wind
     \/ sleep' = "no" /\ UNCHANGED <<file, cmd, left, lapped>>
  /\ pc' = "wait"
  /\ UNCHANGED <<app, fast, cur, last, state, feeding, counters>>

(* Otherwise the time is announced once a second; a time before the start of *)
(* the ring starts the player there.                                         *)
Inform ==
  /\ pc = "inform" /\ state # "fffb"
  /\ \/ UNCHANGED <<file, left, lapped>>
     \/ rate /\ Seek(0) /\ left' = 0
  /\ pc' = "wait"
  /\ UNCHANGED <<app, cmd, fast, cur, last, state, feeding, sleep, counters>>

(* Playback ends when nothing is left and the decoder has stopped taking.    *)
PlaybackEnd ==
  /\ pc = "inform" /\ state # "fffb"
  /\ ~file.loop /\ file.avail = 0
  /\ pc' = "done"
  /\ UNCHANGED <<app, file, cmd, fast, player, lapped, counters>>

Wait ==
  /\ pc = "wait"
  /\ pc' = IF sleep = "ever" THEN "asleep" ELSE "take"
  /\ UNCHANGED <<app, file, cmd, fast, player, lapped, counters>>

SpuriousWake ==
  /\ pc = "asleep"
  /\ pc' = "take"
  /\ UNCHANGED <<app, file, cmd, fast, player, lapped, counters>>

ThreadStep ==
  \/ Take \/ Ignore \/ ActStart \/ ActPause \/ ActResume \/ ActWind \/ ActSeek
  \/ Move \/ InformWinding \/ Inform \/ PlaybackEnd \/ Wait

--------------------------------------------------------------------------------
(* The API.  A signal on tshift->cond wakes the thread if it sleeps.         *)

Signal == pc' = IF pc = "asleep" THEN "take" ELSE pc

(* AM_AV_StartTimeshift; the rate of a recorded file is known.  When only the *)
(* thread cannot be had the file stays open and success is returned.         *)
Start ==
  /\ devLock = "free" /\ ~mode /\ starts = 0
  /\ starts' = 1
  /\ mode' = TRUE
  /\ \/ /\ \E loop \in Loops :
             /\ file' = Opened(loop, IF loop THEN FirstSize ELSE RingSize)
             /\ rate' = ~loop
        /\ \/ running' = TRUE /\ pc' = "take"
           \/ "start" \in Faults /\ UNCHANGED <<running, pc>>
     \/ "start" \in Faults /\ UNCHANGED <<file, rate, running, pc>>
  /\ UNCHANGED <<devLock, filling, cmd, fast, player, lapped, fills, cmds>>

(* AM_AV_TimeshiftFillData: the rate is measured over the data of the first  *)
(* seconds, of which some reaches the disk, and less than the ring holds,    *)
(* before and after; then the data is written without tshift->file.lock.     *)
FillBegin ==
  /\ devLock = "free" /\ mode /\ fills < MaxFills
  /\ file # None /\ file.loop
  /\ fills' = fills + 1
  /\ devLock' = "fill"
  /\ filling' \in 1..Chunk
  /\ \/ UNCHANGED <<rate, file, pc>>
     \/ /\ ~rate /\ file.total \in 1..Least(FirstSize, RingSize) - 1
        /\ rate' = TRUE
        /\ file' = [file EXCEPT !.size = RingSize]
        /\ Signal
  /\ UNCHANGED <<mode, running, cmd, fast, player, lapped, cmds, starts>>

FillEnd ==
  /\ devLock = "fill"
  /\ devLock' = "free" /\ filling' = 0
  /\ \E m \in IF "disk" \in Faults THEN 0..filling ELSE {filling} :
       /\ file' = Written(file, filling, m)
       /\ lapped' = (lapped \/ m > file.size - file.avail)
  /\ UNCHANGED <<mode, rate, running, cmd, fast, pc, player, counters>>

(* AM_AV_PlayTimeshift, PauseTimeshift, ResumeTimeshift, FastForward-,       *)
(* FastBackward- and SeekTimeshift.                                          *)
Command ==
  /\ devLock = "free" /\ mode /\ cmds < MaxCmds
  /\ cmds' = cmds + 1
  /\ cmd' \in Cmds
  /\ IF cmd' = "ffb" THEN fast' \in BOOLEAN ELSE UNCHANGED fast
  /\ Signal
  /\ UNCHANGED <<app, file, player, lapped, fills, starts>>

(* AM_AV_StopTimeshift takes running back, broadcasts without tshift->lock   *)
(* and joins the thread; one that was never started is not joined.           *)
StopBegin ==
  /\ devLock = "free" /\ mode
  /\ devLock' = "stop"
  /\ running' = FALSE
  /\ UNCHANGED <<mode, file, rate, filling, cmd, fast, pc, player, lapped, counters>>

(* Mutant: the sleeping thread is not woken.                                 *)
Broadcast_Missing ==
  /\ devLock = "stop"
  /\ devLock' = "join"
  /\ UNCHANGED <<mode, file, rate, filling, running, cmd, fast, pc, player, lapped, counters>>

Broadcast ==
  /\ devLock = "stop"
  /\ devLock' = "join"
  /\ Signal
  /\ UNCHANGED <<mode, file, rate, filling, running, cmd, fast, player, lapped, counters>>

StopEnd ==
  /\ devLock = "join" /\ pc \in {"none", "done"}
  /\ mode' = FALSE /\ devLock' = "free"
  /\ file' = None
  /\ UNCHANGED <<rate, filling, running, cmd, fast, pc, player, lapped, counters>>

Next ==
  \/ ThreadStep \/ SpuriousWake
  \/ Start \/ FillBegin \/ FillEnd \/ Command \/ StopBegin \/ Broadcast \/ StopEnd

Spec == Init /\ [][Next]_vars

(* The threads run; nothing is assumed of spurious wake-ups or of calls.     *)
Fairness == WF_vars(ThreadStep) /\ WF_vars(FillEnd) /\ WF_vars(Broadcast) /\ WF_vars(StopEnd)
FairSpec == Spec /\ Fairness

--------------------------------------------------------------------------------
(* Properties.                                                               *)

Recording == file # None /\ file.loop

(* Whatever is written, played and sought, the positions and the two counts  *)
(* of the ring agree: what is kept, and the part of it still to be played,   *)
(* end where the next data goes.                                             *)
RingConsistent == Recording => Kept(file) /\ ToPlay(file)

(* The file offsets stay in step with the positions, but for full turns of   *)
(* the ring, unless the recorder has overtaken the player, whose position    *)
(* the code then moves without its file offset.                              *)
InStep ==
  Recording /\ rate =>
    file.wpos % file.size = file.write /\ (~lapped => file.rpos % file.size = file.read)

(* A PAUSE that no other command replaces, neither one of the application    *)
(* nor one that the player leaves for itself in the same place, is acted on. *)
PauseTaken ==
  cmd = "pause" /\ running ~> state = "pause" \/ cmd # "pause" \/ ~running \/ pc = "done"

(* AM_AV_StopTimeshift wakes a paused player and returns, unless the player  *)
(* has yet to go to sleep: then it sleeps through the broadcast.             *)
FallsAsleep == pc \in {"act", "move", "inform", "wait"} /\ (sleep = "ever" \/ cur = "pause")
StopReturns == devLock = "stop" /\ ~FallsAsleep ~> devLock = "free"
================================================================================
