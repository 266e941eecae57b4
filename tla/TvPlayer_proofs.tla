----------------------------- MODULE TvPlayer_proofs -----------------------------
(****************************************************************************)
(* Proofs about TvPlayer for any services, frequencies and faults: what the *)
(* status says is what the decoder does, and a program starts only on a     *)
(* report about its own frequency, as long as the TV is not unsure of it.   *)
(****************************************************************************)
EXTENDS TvPlayer, TLAPS

(* While a call tunes, nothing plays and the channel is known; and a TV that *)
(* is not unsure finds the frontend at the frequency of its channel, which   *)
(* is the one it waits for, or none if it never tuned.                       *)
Settled ==
  /\ srv = None => fendPara = None
  /\ step # "out" => life = "live"
  /\ life # "gone" =>
       /\ playing = (av # None)
       /\ playing => av = srv
       /\ step = "tuned" => srv # None /\ ~playing
       /\ ~unsure /\ srv # None => hw = Freq[srv]
       /\ ~unsure /\ step = "out" => fendPara \in {None, hw}

IInv == TypeOK /\ Settled

LEMMA InitIInv == Init => IInv
  <1> SUFFICES ASSUME Init PROVE IInv
    OBVIOUS
  <1>1. fendEvt \in [freq : Freqs, status : Statuses]
    BY DEF Init, Statuses
  <1>2. TypeOK
    BY <1>1 DEF Init, TypeOK, Evt!Init, Evt!TypeOK
  <1>3. Settled
    BY TvAssumption DEF Init, Settled
  <1> QED
    BY <1>2, <1>3 DEF IInv

(* Channels that are found are services.                                     *)
LEMMA FoundIsListed ==
  ASSUME TypeOK, NEW op \in {"this", "up", "down"}, NEW n, NEW k,
         NEW s \in Found(op, n, k)
  PROVE  s \in Services
  BY DEF Found, First, Last, TypeOK

LEMMA PlayKeeps ==
  ASSUME TypeOK, NEW s \in Services, Play(s)
  PROVE  /\ playing' \in BOOLEAN /\ av' \in Services \cup {None}
         /\ refused' \in BOOLEAN
         /\ playing' = (av' # None) /\ (playing' => av' = s)
  BY TvAssumption DEF Play

LEMMA ChangeKeeps ==
  ASSUME IInv, NEW s \in Services, LockFree, ~(playing /\ s = srv), Change(s),
         UNCHANGED <<life, rows, fendEvt, registry>>, kind' \in {"none", "tv", "radio"}
  PROVE  IInv'
  <1> USE TvAssumption DEF IInv, LockFree
  <1>0. s # None /\ Freq[s] \in Freqs /\ srv' = s
    BY DEF Change
  <1>1. CASE /\ "db" \in Faults
             /\ unsure' = TRUE
             /\ Quiet /\ LockGiven /\ UNCHANGED <<hw, owed>>
    BY <1>0, <1>1 DEF Quiet, Stop, LockGiven, TypeOK, Settled, Evt!TypeOK, registry
  <1>2. CASE /\ hw = Freq[s]
             /\ unsure' = (unsure /\ fendPara # hw)
             /\ IF wait THEN Quiet ELSE Play(s)
             /\ LockGiven /\ UNCHANGED <<hw, owed>>
    <2>1. /\ playing' \in BOOLEAN /\ av' \in Services \cup {None}
          /\ refused' \in BOOLEAN
          /\ playing' = (av' # None) /\ (playing' => av' = s)
      BY <1>0, <1>2, PlayKeeps DEF Quiet, Stop, TypeOK, Settled
    <2>2. unsure' \in BOOLEAN /\ (~unsure' => fendPara \in {None, hw})
      BY <1>2 DEF TypeOK, Settled
    <2> QED
      BY <1>0, <1>2, <2>1, <2>2 DEF LockGiven, TypeOK, Settled, Evt!TypeOK, registry
  <1>3. CASE /\ hw # Freq[s]
             /\ hw' = Freq[s] /\ owed' = TRUE /\ unsure' = FALSE
             /\ Quiet /\ LockKept
    BY <1>0, <1>3 DEF Quiet, Stop, LockKept, TypeOK, Settled, Evt!TypeOK, registry
  <1>4. CASE /\ "tune" \in Faults /\ hw # Freq[s]
             /\ unsure' = TRUE
             /\ Quiet /\ LockKept /\ UNCHANGED <<hw, owed>>
    BY <1>0, <1>4 DEF Quiet, Stop, LockKept, TypeOK, Settled, Evt!TypeOK, registry
  <1> QED
    BY <1>1, <1>2, <1>3, <1>4 DEF Change

LEMMA ToChannelKeeps ==
  ASSUME IInv, NEW s \in Services, LockFree, ToChannel(s),
         kind' \in {"none", "tv", "radio"}
  PROVE  IInv'
  <1>1. CASE playing /\ s = srv
    BY <1>1 DEF ToChannel, LockGiven, IInv, TypeOK, Settled, Evt!TypeOK, registry, history
  <1>2. CASE ~(playing /\ s = srv)
    BY <1>2, ChangeKeeps DEF ToChannel
  <1> QED
    BY <1>1, <1>2

LEMMA NothingKeeps ==
  ASSUME IInv, Nothing, kind' \in {"none", "tv", "radio"}
  PROVE  IInv'
  BY DEF Nothing, IInv, TypeOK, Settled, Evt!TypeOK, frontend, registry, history

LEMMA GoToKeeps ==
  ASSUME IInv, NEW op \in {"this", "up", "down"}, NEW n, GoTo(op, n)
  PROVE  IInv'
  <1>1. kind' \in {"none", "tv", "radio"}
    BY DEF GoTo, IInv, TypeOK
  <1>2. ASSUME NEW s \in Found(op, n, kind), ToChannel(s) PROVE IInv'
    BY <1>1, <1>2, FoundIsListed, ToChannelKeeps DEF GoTo, IInv
  <1>3. ASSUME Nothing PROVE IInv'
    BY <1>1, <1>3, NothingKeeps
  <1> QED
    BY <1>2, <1>3 DEF GoTo

LEMMA PlayAgainKeeps ==
  ASSUME IInv, PlayAgain
  PROVE  IInv'
  <1>1. kind' \in {"none", "tv", "radio"} /\ LockFree
    BY DEF PlayAgain, IInv, TypeOK
  <1>2. ASSUME NEW op \in {"this", "up"}, NEW n, NEW k,
               NEW s \in Found(op, n, k), ToChannel(s)
        PROVE  IInv'
    BY <1>1, <1>2, FoundIsListed, ToChannelKeeps DEF IInv
  <1>3. ASSUME Nothing PROVE IInv'
    BY <1>1, <1>3, NothingKeeps
  <1> QED
    BY <1>2, <1>3 DEF PlayAgain

LEMMA SignalsKeep ==
  ASSUME IInv, NEW st \in Statuses, Signals(st), owed' \in BOOLEAN
  PROVE  IInv'
  BY DEF Signals, IInv, TypeOK, Settled, Evt!TypeOK, Evt!SignalBegin, tv, history, Fend

(* One step per action.                                                      *)
LEMMA StepIInv == IInv /\ [Next]_vars => IInv'
  <1> SUFFICES ASSUME IInv, [Next]_vars PROVE IInv'
    OBVIOUS
  <1> USE TvAssumption
  <1>1. CASE ChannelUp
    BY <1>1, GoToKeeps DEF ChannelUp
  <1>2. CASE ChannelDown
    BY <1>2, GoToKeeps DEF ChannelDown
  <1>3. ASSUME NEW n, PlayChannel(n) PROVE IInv'
    BY <1>3, GoToKeeps DEF PlayChannel
  <1>4. CASE PlayAgain
    BY <1>4, PlayAgainKeeps
  <1>5. CASE StopPlay
    BY <1>5 DEF StopPlay, Stop, LockFree, IInv, TypeOK, Settled, Evt!TypeOK, frontend,
       registry, history
  <1>6. CASE Tuned
    <2>1. srv \in Services /\ life = "live"
      BY <1>6 DEF Tuned, IInv, TypeOK, Settled
    <2> QED
      BY <1>6, <2>1 DEF Tuned, IInv, TypeOK, Settled, Evt!TypeOK, frontend, registry
  <1>7. CASE Create
    BY <1>7 DEF Create, IInv, TypeOK, Settled, Evt!TypeOK, Evt!Subscribe, frontend, tv, history
  <1>8. CASE Destroy
    BY <1>8 DEF Destroy, LockFree, IInv, TypeOK, Settled, Evt!TypeOK, tv, frontend,
       registry, history
  <1>9. CASE Unsubscribe
    BY <1>9 DEF Unsubscribe, IInv, TypeOK, Settled, Evt!TypeOK, Evt!Unsubscribe, tv,
       frontend, history
  <1>10. CASE FendReports
    BY <1>10, SignalsKeep DEF FendReports, Statuses
  <1>11. CASE FendChanges
    BY <1>11, SignalsKeep DEF FendChanges, IInv, TypeOK
  <1>12. CASE CallbackIgnores
    BY <1>12 DEF CallbackIgnores, CallbackReturns, IInv, TypeOK, Settled, Evt!TypeOK,
       Evt!SignalEnd, frontend
  <1>13. CASE CallbackPlays
    <2>1. srv \in Services
      BY <1>13 DEF CallbackPlays, Concerns, IInv, TypeOK, Settled
    <2>2. /\ playing' \in BOOLEAN /\ av' \in Services \cup {None}
          /\ refused' \in BOOLEAN
          /\ playing' = (av' # None) /\ (playing' => av' = srv)
      BY <1>13, <2>1, PlayKeeps DEF CallbackPlays, LockFree, IInv, TypeOK, Settled
    <2> QED
      BY <1>13, <2>1, <2>2 DEF CallbackPlays, CallbackReturns, LockFree, IInv, TypeOK, Settled,
         Evt!TypeOK, Evt!SignalEnd, frontend
  <1>14. CASE CallbackNobody
    BY <1>14 DEF CallbackNobody, CallbackReturns, IInv, TypeOK, Settled, Evt!TypeOK,
       Evt!SignalEnd, frontend
  <1>15. CASE OthersTune
    BY <1>15 DEF OthersTune, IInv, TypeOK, Settled, Evt!TypeOK, tv, registry
  <1>16. CASE Database
    BY <1>16 DEF Database, IInv, TypeOK, Settled, Evt!TypeOK, tv, frontend, registry, history
  <1>17. CASE UNCHANGED vars
    BY <1>17 DEF vars, IInv, TypeOK, Settled, Evt!TypeOK, tv, frontend, registry, history
  <1> QED
    BY <1>1, <1>2, <1>3, <1>4, <1>5, <1>6, <1>7, <1>8, <1>9, <1>10, <1>11, <1>12, <1>13,
       <1>14, <1>15, <1>16, <1>17 DEF Next, CallStep, FendStep

LEMMA AlwaysIInv == Spec => []IInv
  BY InitIInv, StepIInv, PTL DEF Spec

(* The status says what the decoder does, whatever the channels, frequencies *)
(* and faults.                                                               *)
THEOREM StatusTrue == Spec => []PlaysWhatIsChosen
  <1>1. IInv => PlaysWhatIsChosen
    BY TvAssumption DEF IInv, TypeOK, Settled, PlaysWhatIsChosen
  <1> QED
    BY <1>1, AlwaysIInv, PTL

(* A late report about an earlier channel does not start the program of the  *)
(* next one, whatever the channels and frequencies, unless a row of the      *)
(* database could not be had, a tuning failed or another user tuned, and the *)
(* TV has neither tuned since nor found the frontend where it had.           *)
THEOREM OwnReports == Spec => StartsOnOwnReport
  <1>1. ASSUME IInv, CallbackPlays, playing', ~playing, ~unsure
        PROVE  fendEvt.freq = Freq[srv] /\ hw = Freq[srv]
    BY <1>1, TvAssumption DEF CallbackPlays, Concerns, LockFree, IInv, TypeOK, Settled
  <1>2. ASSUME IInv, [Next]_vars, playing', ~playing, owner' # owner
        PROVE  CallbackPlays
    <2>1. CASE CallStep
      BY <1>2, <2>1 DEF CallStep, ChannelUp, ChannelDown, PlayAgain, PlayChannel, StopPlay,
         GoTo, ToChannel, Nothing, registry
    <2>2. CASE Tuned \/ Create \/ Destroy \/ Unsubscribe \/ OthersTune \/ Database
      BY <1>2, <2>2 DEF Tuned, Create, Destroy, Unsubscribe, OthersTune, Database, tv
    <2>3. CASE FendReports \/ FendChanges \/ CallbackIgnores \/ CallbackNobody
      BY <1>2, <2>3 DEF FendReports, FendChanges, Signals, CallbackIgnores, CallbackNobody, tv
    <2>4. CASE UNCHANGED vars
      BY <1>2, <2>4 DEF vars, registry
    <2> QED
      BY <1>2, <2>1, <2>2, <2>3, <2>4 DEF Next, FendStep
  <1>3. IInv /\ [Next]_vars =>
          [playing' /\ ~playing /\ owner' # owner /\ ~unsure
             => fendEvt.freq = Freq[srv] /\ hw = Freq[srv]]_vars
    BY <1>1, <1>2
  <1> QED
    BY <1>3, AlwaysIInv, PTL DEF Spec, StartsOnOwnReport
================================================================================
