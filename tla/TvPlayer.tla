-------------------------------- MODULE TvPlayer --------------------------------
(****************************************************************************)
(* The TV application layer, am_app/am_tv/am_tv.c: it keeps the channel the *)
(* user chose, tunes the frontend to its transport stream, and starts the   *)
(* decoder of the AV device as soon as the frontend reports about it.       *)
(*                                                                          *)
(* API calls hold tv->lock from beginning to end, so that there is one of   *)
(* them at a time, step; a call that tunes has a step of its own between    *)
(* AM_FEND_SetPara and the assignment of tv->fend_para, where the report    *)
(* may already be on its way.  am_tv_fend_callback runs on the frontend     *)
(* thread inside AM_EVT_Signal and takes tv->lock there.                    *)
(*                                                                          *)
(* LOCKED, db_tv and db_radio are written and never read: left out.         *)
(****************************************************************************)
EXTENDS Integers

CONSTANTS Services, \* rows that srv_table may have
          ChanNum,  \* their chan_num,
          Kind,     \*   service_type, "tv" or "radio",
          Freq,     \*   and the frequency of their row in ts_table
          Freqs,    \* frequencies
          Faults,   \* "db": a SELECT fails; "av": AM_AV_StartTS fails; "tune":
                    \*   AM_FEND_SetPara fails; "others": someone else tunes
          None

ASSUME TvAssumption ==
  /\ ChanNum \in [Services -> Nat \ {0}]
  /\ Kind \in [Services -> {"tv", "radio"}]
  /\ Freq \in [Services -> Freqs]
  /\ Faults \subseteq {"db", "av", "tune", "others"}
  /\ None \notin Services \cup Freqs

VARIABLES
  life,         \* "none", "live", "gone" (memory freed)
  step,         \* the call that holds tv->lock: "out" (none), "tuned", "destroy"
  playing,      \* tv->status & AM_TV_ST_PLAYING
  wait,         \* tv->status & AM_TV_ST_WAIT_FEND
  kind,         \* its PLAY_TV and PLAY_RADIO, or "none"
  srv,          \* tv->srv_dbid (and with it tv->chan_num), None for -1
  fendPara,     \* tv->fend_para, None: zeros
  rows,         \* what srv_table contains
  av,           \* the service the AV device decodes, or None
  hw, owed,     \* frequency the frontend is at, and whether its report is due
  fendEvt,      \* the event the frontend thread carries into AM_EVT_Signal
  owner, subs,  \* the event registry
  unsure,       \* another user tuned, or a row of ts_table could not be had
                \*   or a tuning failed, and the TV has neither tuned since nor
                \*   found the frontend where it had tuned it
  refused       \* the program waited for could not be started

tv == <<playing, wait, kind, srv, fendPara>>
frontend == <<hw, owed, fendEvt>>
registry == <<owner, subs>>
history == <<unsure, refused>>
vars == <<life, step, tv, rows, av, frontend, registry, history>>

Self == "api thread"
Fend == "frontend thread"
Callback == "am_tv_fend_callback"
Evt == INSTANCE EventRegistry WITH Threads <- {Self, Fend}

Statuses == {"lock", "nolock", "zero"}

TypeOK ==
  /\ life \in {"none", "live", "gone"}
  /\ step \in {"out", "tuned", "destroy"}
  /\ {playing, wait, owed, unsure, refused} \subseteq BOOLEAN
  /\ kind \in {"none", "tv", "radio"}
  /\ {srv, av} \subseteq Services \cup {None}
  /\ fendPara \in Freqs \cup {None}
  /\ rows \subseteq Services
  /\ hw \in Freqs
  /\ fendEvt \in [freq : Freqs, status : Statuses]
  /\ Evt!TypeOK({Callback})

Init ==
  /\ life = "none" /\ step = "out"
  /\ playing = FALSE /\ wait = FALSE /\ kind = "none" /\ srv = None
  /\ fendPara = None
  /\ rows = Services /\ av = None
  /\ hw \in Freqs /\ owed = FALSE /\ fendEvt = [freq |-> hw, status |-> "zero"]
  /\ Evt!Init
  /\ unsure = FALSE /\ refused = FALSE

LockFree == life = "live" /\ step = "out"

--------------------------------------------------------------------------------
(* am_tv_get_channel.                                                        *)

First(S) == {s \in S : \A t \in S : ChanNum[s] <= ChanNum[t]}
Last(S) == {s \in S : \A t \in S : ChanNum[s] >= ChanNum[t]}

(* The channel of kind k that op leads to from number n; the next and the    *)
(* previous one go round.                                                    *)
Found(op, n, k) ==
  LET listed == {s \in rows : Kind[s] = k}
      above == {s \in listed : ChanNum[s] > n}
      below == {s \in listed : ChanNum[s] < n}
  IN CASE op = "this" -> {s \in listed : ChanNum[s] = n}
       [] op = "up" -> First(IF above # {} THEN above ELSE below)
       [] op = "down" -> Last(IF below # {} THEN below ELSE above)

NoChannel(op, n, k) == "db" \in Faults \/ Found(op, n, k) = {}

--------------------------------------------------------------------------------
(* Playing.                                                                  *)

(* am_tv_play, of a TV that does not play: the row may be gone, and the      *)
(* SELECT or AM_AV_StartTS may fail.                                         *)
Play(s) ==
  \/ /\ s \in rows
     /\ playing' = TRUE /\ av' = s
     /\ refused' = FALSE
  \/ /\ s \notin rows \/ Faults \cap {"db", "av"} # {}
     /\ playing' = FALSE /\ av' = None
     /\ refused' = TRUE

(* am_tv_stop.                                                               *)
Stop ==
  /\ playing' = FALSE
  /\ av' = IF playing THEN None ELSE av

LockKept == step' = "tuned" /\ UNCHANGED <<wait, fendPara>>
LockGiven == UNCHANGED <<step, wait, fendPara>>

\* Mutant: am_tv_play_channel does not stop the program it leaves.
Quiet_PlaysOn == UNCHANGED <<playing, av, refused>>

Quiet == Stop /\ UNCHANGED refused

(* am_tv_play_channel with another channel than it plays: stop, and          *)
(* am_tv_try_play, which tunes if the frontend is elsewhere.                 *)
Change(s) ==
  /\ srv' = s
  /\ \/ /\ "db" \in Faults
        /\ unsure' = TRUE
        /\ Quiet /\ LockGiven /\ UNCHANGED <<hw, owed>>
     \/ /\ hw = Freq[s]
        /\ unsure' = (unsure /\ fendPara # hw)
        /\ IF wait THEN Quiet ELSE Play(s)
        /\ LockGiven /\ UNCHANGED <<hw, owed>>
     \/ /\ hw # Freq[s]
        /\ hw' = Freq[s] /\ owed' = TRUE /\ unsure' = FALSE
        /\ Quiet /\ LockKept
     \/ /\ "tune" \in Faults /\ hw # Freq[s]
        /\ unsure' = TRUE
        /\ Quiet /\ LockKept /\ UNCHANGED <<hw, owed>>

ToChannel(s) ==
  /\ IF playing /\ s = srv
     THEN LockGiven /\ UNCHANGED <<srv, playing, av, hw, owed, history>>
     ELSE Change(s)
  /\ UNCHANGED <<life, rows, fendEvt, registry>>

Nothing == UNCHANGED <<life, step, playing, wait, srv, fendPara, rows, av, frontend,
                       registry, history>>

(* The calls leave the kind alone, except AM_TV_Play.                        *)
GoTo(op, n) ==
  /\ LockFree
  /\ \/ \E s \in Found(op, n, kind) : ToChannel(s)
     \/ NoChannel(op, n, kind) /\ Nothing
  /\ UNCHANGED kind

ChannelUp == srv # None /\ GoTo("up", ChanNum[srv])
ChannelDown == srv # None /\ GoTo("down", ChanNum[srv])
PlayChannel(n) == GoTo("this", n)

(* AM_TV_Play: the channel it had, or the first TV channel, or the first     *)
(* radio channel.                                                            *)
HadGone == srv = None \/ NoChannel("this", ChanNum[srv], kind)

PlayAgain ==
  /\ LockFree
  /\ \/ /\ srv # None
        /\ \E s \in Found("this", ChanNum[srv], kind) : ToChannel(s)
        /\ UNCHANGED kind
     \/ /\ HadGone
        /\ \E s \in Found("up", 0, "tv") : ToChannel(s)
        /\ kind' = "tv"
     \/ /\ HadGone /\ NoChannel("up", 0, "tv")
        /\ \E s \in Found("up", 0, "radio") : ToChannel(s)
        /\ kind' = "radio"
     \/ /\ HadGone /\ NoChannel("up", 0, "tv") /\ NoChannel("up", 0, "radio")
        /\ kind' = "none"
        /\ Nothing

(* am_tv_set_fend after AM_FEND_SetPara, and the end of the call.            *)
Tuned ==
  /\ step = "tuned"
  /\ step' = "out"
  /\ fendPara' = Freq[srv] /\ wait' = TRUE
  /\ refused' = FALSE
  /\ UNCHANGED <<life, playing, kind, srv, rows, av, frontend, registry, unsure>>

StopPlay ==
  /\ LockFree
  /\ Stop
  /\ UNCHANGED <<life, step, wait, kind, srv, fendPara, rows, frontend, registry, history>>

--------------------------------------------------------------------------------
(* AM_TV_Create; AM_TV_Destroy, which unsubscribes with the lock held, and   *)
(* does not stop the decoder.                                                *)

Create ==
  /\ life = "none"
  /\ life' = "live"
  /\ Evt!Subscribe(Self, Callback)
  /\ UNCHANGED <<step, tv, rows, av, frontend, history>>

Destroy ==
  /\ LockFree
  /\ step' = "destroy"
  /\ UNCHANGED <<life, tv, rows, av, frontend, registry, history>>

Unsubscribe ==
  /\ step = "destroy"
  /\ Evt!Unsubscribe(Self, Callback)
  /\ life' = "gone" /\ step' = "out"
  /\ UNCHANGED <<tv, rows, av, frontend, history>>

--------------------------------------------------------------------------------
(* The frontend and its thread.  It reports every tuning, and changes of the *)
(* signal at any time.                                                       *)

Signals(status) ==
  /\ Evt!SignalBegin(Fend)
  /\ fendEvt' = [freq |-> hw, status |-> status]
  /\ UNCHANGED <<life, step, tv, rows, av, hw, history>>

FendReports == owed /\ owed' = FALSE /\ \E st \in {"lock", "nolock"} : Signals(st)
FendChanges == UNCHANGED owed /\ \E st \in Statuses : Signals(st)

(* Another user of the frontend, for example a scan.                         *)
OthersTune ==
  /\ "others" \in Faults
  /\ \E f \in Freqs \ {hw} : hw' = f
  /\ owed' = TRUE /\ unsure' = TRUE
  /\ UNCHANGED <<life, step, tv, rows, av, fendEvt, registry, refused>>

Concerns == fendEvt.status # "zero" /\ fendEvt.freq = fendPara

CallbackReturns == Evt!SignalEnd(Fend) /\ UNCHANGED <<life, step, kind, srv, fendPara, rows, frontend, unsure>>

\* Mutant: the frequency is compared before the lock is taken.
CallbackIgnores_Unlocked ==
  /\ Callback \in subs /\ ~Concerns
  /\ CallbackReturns
  /\ UNCHANGED <<playing, wait, av, refused>>

(* am_tv_fend_callback: an event without a status is dropped at once, one    *)
(* about another frequency when the lock has been taken ...                  *)
CallbackIgnores ==
  /\ Callback \in subs /\ ~Concerns
  /\ fendEvt.status = "zero" \/ LockFree
  /\ CallbackReturns
  /\ UNCHANGED <<playing, wait, av, refused>>

\* Mutant: reports about other frequencies count too.
CallbackPlays_Any ==
  /\ Callback \in subs /\ fendEvt.status # "zero" /\ LockFree
  /\ wait' = FALSE
  /\ IF playing \/ srv = None THEN UNCHANGED <<playing, av, refused>> ELSE Play(srv)
  /\ CallbackReturns

(* ... and any other one starts the program, whether it was waited for or    *)
(* not, and whether the signal is locked or not.                             *)
CallbackPlays ==
  /\ Callback \in subs /\ Concerns /\ LockFree
  /\ wait' = FALSE
  /\ IF playing THEN UNCHANGED <<playing, av, refused>> ELSE Play(srv)
  /\ CallbackReturns

CallbackNobody ==
  /\ Callback \notin subs
  /\ CallbackReturns
  /\ UNCHANGED <<playing, wait, av, refused>>

(* Services are found, renumbered and deleted by scans and other programs.   *)
Database ==
  /\ rows' \in SUBSET Services
  /\ UNCHANGED <<life, step, tv, av, frontend, registry, history>>

--------------------------------------------------------------------------------
CallStep ==
  \/ ChannelUp \/ ChannelDown \/ PlayAgain \/ StopPlay
  \/ \E n \in {ChanNum[s] : s \in Services} : PlayChannel(n)

FendStep ==
  \/ FendReports \/ FendChanges
  \/ CallbackIgnores \/ CallbackPlays \/ CallbackNobody

Next ==
  \/ CallStep \/ Tuned \/ Create \/ Destroy \/ Unsubscribe
  \/ FendStep \/ OthersTune \/ Database

Spec == Init /\ [][Next]_vars

(* A call goes on; the frontend reports every tuning, and its thread gets    *)
(* tv->lock in the end.                                                      *)
Fairness ==
  /\ WF_vars(Tuned)
  /\ SF_vars(FendReports)
  /\ SF_vars(CallbackPlays) /\ SF_vars(CallbackIgnores)

FairSpec == Spec /\ Fairness

--------------------------------------------------------------------------------
(* Properties.                                                               *)

(* The status tells what the decoder does: while the TV lives, it says       *)
(* "playing" exactly if a program is being decoded, that program is the one  *)
(* of the channel chosen last, and the frontend is at its frequency, unless  *)
(* somebody else has tuned it or the database or the tuning has failed.      *)
(* (The values of the variables are what the code can give them.)            *)
PlaysWhatIsChosen ==
  /\ TypeOK
  /\ life = "live" =>
       /\ playing = (av # None)
       /\ playing => av = srv
       /\ playing /\ ~unsure => hw = Freq[srv]

(* The frontend thread starts a program only on a report about the frequency *)
(* the program is on, however late the report comes: none of an earlier      *)
(* channel starts the next one.  This is not so while unsure: after a row of *)
(* srv_table or ts_table that could not be had (am_tv_try_play returns with  *)
(* srv_dbid new and fend_para old, and the next report about the old         *)
(* frequency starts the new program), a tuning that failed, or one by        *)
(* another user, until the TV tunes or finds the frontend where it had.      *)
StartsOnOwnReport ==
  [][playing' /\ ~playing /\ owner' # owner /\ ~unsure
       => fendEvt.freq = Freq[srv] /\ hw = Freq[srv]]_vars

(* The frontend thread waits for tv->lock inside the registry, while         *)
(* AM_TV_Destroy waits for the registry with the lock held.                  *)
LockCycle ==
  /\ owner = Fend /\ Callback \in subs /\ fendEvt.status # "zero"
  /\ step = "destroy"

(* A program that waits for the frontend is started, or is refused by the    *)
(* decoder or the database, unless the frontend is taken elsewhere, the TV   *)
(* is destroyed, or destroying it gets into that cycle of locks.             *)
ChosenPlays ==
  wait /\ fendPara = hw
    ~> playing \/ refused \/ fendPara # hw \/ life = "gone" \/ LockCycle
================================================================================
