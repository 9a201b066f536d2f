----------------------------- MODULE EventTimer -----------------------------
(***************************************************************************)
(* The event timer of one core: an event is given to it with a time and a  *)
(* queue, and is sent to the queue when the core runs its timers after     *)
(* that time.  Time, and the timers of rte_timer, are external: each run   *)
(* may find any of the pending timeouts expired, or come too soon after    *)
(* the last one to look (timer_manage_cycles).                             *)
(*                                                                         *)
(* evt_cancel_timeout is left out: it gives rte_timer_stop_sync the        *)
(* address of the application's variable in place of the timer stored      *)
(* there (event_timer.c:190), so no timeout is ever cancelled.             *)
(***************************************************************************)
EXTENDS Integers

CONSTANT Timeouts  \* the timeouts that can be pending at once

VARIABLE pending   \* SUBSET Timeouts: requested, their events not sent yet

\* evt_timer_init_local
TimerInit == pending = {}

\* evt_request_timeout_func: the core that asks is the one that will send the event.
RequestTimeouts(ts) == ts \cap pending = {} /\ pending' = pending \cup ts

\* evt_timer_manage: event_timer_callback sends the event of each expired timeout; one
\* that its queue refuses is lost.
ManageTimers(expired) == expired \subseteq pending /\ pending' = pending \ expired
=============================================================================
