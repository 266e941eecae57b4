------------------------------ MODULE DmxContract ------------------------------
(****************************************************************************)
(* What the demux device layer promises to the code that registers section  *)
(* handlers with it (am_scan, am_epg, subtitle, teletext, the tests):       *)
(*                                                                          *)
(*   - a handler that was registered for a filter is only ever started for  *)
(*     it while its client holds the filter;                                *)
(*   - once a client has given a filter back (AM_DMX_FreeFilter) and a      *)
(*     later AM_DMX_Sync has returned, no call of its handler for that      *)
(*     filter is running or will run ("no invalid data after this").        *)
(*                                                                          *)
(* The module says nothing of threads, locks, flags or the driver;          *)
(* DmxDevice is shown to implement it.                                      *)
(****************************************************************************)

CONSTANTS Clients,  \* users of the device: scanner, EPG monitor, ...
          Filters,  \* filter handles
          None

VARIABLES st,    \* st[c][f]: what client c knows of its use of filter f
          call   \* <<f, c>> while c's handler runs for f, else None

vars == <<st, call>>

Status == {"held", "freed", "syncing", "quiet"}

TypeOK ==
  /\ st \in [Clients -> [Filters -> Status]]
  /\ call \in (Filters \X Clients) \cup {None}

Init ==
  /\ st = [c \in Clients |-> [f \in Filters |-> "quiet"]]
  /\ call = None

(* A client obtains a filter, and gives it back. *)
Take(c, f) ==
  /\ st' = [st EXCEPT ![c][f] = "held"]
  /\ UNCHANGED call

Release(c, f) ==
  /\ st[c][f] = "held"
  /\ st' = [st EXCEPT ![c][f] = "freed"]
  /\ UNCHANGED call

(* A client asks for the handlers of what it gave back to be over ...       *)
SyncBegin(c) ==
  /\ st' = [st EXCEPT ![c] = [f \in Filters |->
              IF st[c][f] = "freed" THEN "syncing" ELSE st[c][f]]]
  /\ UNCHANGED call

(* ... and is told so, now or at once, which must then be true.             *)
SyncEnd(c, from) ==
  /\ \A f \in Filters : st[c][f] = from => call # <<f, c>>
  /\ st' = [st EXCEPT ![c] = [f \in Filters |->
              IF st[c][f] = from THEN "quiet" ELSE st[c][f]]]
  /\ UNCHANGED call

(* One handler call at a time, for a filter its client holds.               *)
Deliver(c, f) ==
  /\ call = None
  /\ st[c][f] = "held"
  /\ call' = <<f, c>>
  /\ UNCHANGED st

Return ==
  /\ call # None
  /\ call' = None
  /\ UNCHANGED st

Next ==
  \/ \E c \in Clients, f \in Filters :
       Take(c, f) \/ Release(c, f) \/ Deliver(c, f)
  \/ \E c \in Clients :
       SyncBegin(c) \/ SyncEnd(c, "freed") \/ SyncEnd(c, "syncing")
  \/ Return

Spec == Init /\ [][Next]_vars

(* After FreeFilter and Sync the handler is not running for that filter:     *)
(* what am_scan_free_filter and am_epg_free_filter rely on before they       *)
(* reuse or free the memory the handler works on.                            *)
Quiescence ==
  \A c \in Clients, f \in Filters : st[c][f] = "quiet" => call # <<f, c>>
================================================================================
