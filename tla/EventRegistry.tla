----------------------------- MODULE EventRegistry -----------------------------
(****************************************************************************)
(* The event registry am_adp/am_evt/am_evt.c: callbacks subscribed to       *)
(* events, one global recursive mutex, and AM_EVT_Signal, which calls the   *)
(* subscribers WITH that mutex held.  The modules of its users (Scanner,    *)
(* EpgMonitor) instantiate it and conjoin its operations with their steps.  *)
(*                                                                          *)
(* A thread in AM_EVT_Signal is the owner between SignalBegin and           *)
(* SignalEnd.  Subscribing and unsubscribing hold the mutex for one step;   *)
(* being recursive, it lets the owner's callbacks do either.                *)
(****************************************************************************)
CONSTANTS Threads, None

VARIABLES owner,   \* the thread inside AM_EVT_Signal, or None
          subs     \* the subscribed callbacks

TypeOK(Callbacks) ==
  /\ owner \in Threads \cup {None}
  /\ subs \in SUBSET Callbacks

Init == owner = None /\ subs = {}

Enters(t) == owner \in {None, t}

Subscribe(t, cb) ==
  /\ Enters(t)
  /\ subs' = subs \cup {cb}
  /\ UNCHANGED owner

Unsubscribe(t, cb) ==
  /\ Enters(t)
  /\ subs' = subs \ {cb}
  /\ UNCHANGED owner

SignalBegin(t) ==
  /\ owner = None
  /\ owner' = t
  /\ UNCHANGED subs

SignalEnd(t) ==
  /\ owner = t
  /\ owner' = None
  /\ UNCHANGED subs

(* AM_EVT_Signal whose callbacks are over within the step.                   *)
Signal(t) == Enters(t) /\ UNCHANGED <<owner, subs>>
================================================================================
