----------------------------- MODULE AutoSettle -----------------------------
(***************************************************************************)
(* auto_settle_dispatch, the push that closes the batches of card          *)
(* terminals, beside the pull: the heartbeat of a terminal, which claims   *)
(* the same turn.  A claim keeps everybody else off for ten minutes.  The  *)
(* claim functions, the heartbeat and the terminal are not of this         *)
(* repository: a claim stamps a terminal that is due and was not claimed   *)
(* lately, and a terminal that is settling ignores a second command.       *)
(***************************************************************************)
EXTENDS Naturals, FiniteSets

CONSTANTS
  Devices,
  OverdueAfter,  \* turns without a settlement before the panel says so (OVERDUE_AFTER_ATTEMPTS)
  Faults,        \* bound: how many of Kinds happen in one behaviour
  None

\* What may go wrong, each kind once.
Kinds == {"dies", "unwritten", "blind", "refused", "unheard"}

VARIABLES
  open,      \* whether the batch is due and not settled
  on, seen,  \* the terminal is on; it was seen within onlineWindowMin
  settling,  \* the terminal is settling
  stamp,     \* who claimed it in the last ten minutes (last_try_at): None, "push", "pull"
  tries,     \* attempt_count, up to OverdueAfter
  said,      \* last_error, what the panel shows: None, "offline", "overdue", "failed"
  sweep,     \* the push under way
  excused,   \* history: terminals whose turn a fault kept
  used       \* the kinds that happened

vars == <<open, on, seen, settling, stamp, tries, said, sweep, excused, used>>

Resting == [pc |-> "idle", due |-> {}, stale |-> {}, fresh |-> {}, said |-> None, tries |-> None,
            at |-> None, watch |-> {}]

TypeOK ==
  /\ {open, on, seen, settling} \subseteq [Devices -> BOOLEAN]
  /\ stamp \in [Devices -> {None, "push", "pull"}] /\ tries \in [Devices -> 0 .. OverdueAfter]
  /\ said \in [Devices -> {None, "offline", "overdue", "failed"}]
  /\ sweep.pc \in {"idle", "due", "seen", "turns", "claim", "dispatch", "release", "swept"}
  /\ sweep.stale \cup sweep.fresh \cup excused \subseteq Devices /\ used \subseteq Kinds

Init ==
  /\ open = [d \in Devices |-> TRUE] /\ on = [d \in Devices |-> TRUE] /\ seen = [d \in Devices |-> TRUE]
  /\ settling = [d \in Devices |-> FALSE] /\ stamp = [d \in Devices |-> None]
  /\ tries = [d \in Devices |-> 0] /\ said = [d \in Devices |-> None]
  /\ sweep = Resting /\ excused = {} /\ used = {}

Happens(k) == k \in Kinds \ used /\ Cardinality(used) < Faults /\ used' = used \cup {k}

---------------------------------------------------------------------------
(* The terminals.                                                          *)

Claimable(d) == open[d] /\ stamp[d] = None
Claim(d, by) ==
  /\ stamp' = [stamp EXCEPT ![d] = by]
  /\ tries' = [tries EXCEPT ![d] = IF @ < OverdueAfter THEN @ + 1 ELSE @]

\* record-settlement: the schedule moves on and the count starts anew.
Settle(d) ==
  /\ open' = [open EXCEPT ![d] = FALSE] /\ tries' = [tries EXCEPT ![d] = 0]
  /\ said' = [said EXCEPT ![d] = None] /\ excused' = excused \ {d}

Power(d) ==
  /\ on' = [on EXCEPT ![d] = ~@] /\ settling' = [settling EXCEPT ![d] = FALSE]
  /\ UNCHANGED <<open, seen, stamp, tries, said, sweep, excused, used>>

Heartbeat(d) ==
  /\ on[d] /\ seen' = [seen EXCEPT ![d] = TRUE]
  /\ IF Claimable(d) THEN Claim(d, "pull") /\ settling' = [settling EXCEPT ![d] = TRUE]
     ELSE UNCHANGED <<stamp, tries, settling>>
  /\ UNCHANGED <<open, on, said, sweep, excused, used>>

\* It settles, or fails and tells nobody.
SettleEnds(d) ==
  /\ settling[d] /\ settling' = [settling EXCEPT ![d] = FALSE]
  /\ \/ UNCHANGED <<open, tries, said, excused, sweep>>
     \/ Settle(d) /\ sweep' = [sweep EXCEPT !.watch = @ \ {d}]
  /\ UNCHANGED <<on, seen, stamp, used>>

\* The window of the last heartbeat, or of the last claim, passes; the next batch is due, long after.
TimePasses(d) ==
  /\ \/ ~on[d] /\ seen[d] /\ seen' = [seen EXCEPT ![d] = FALSE] /\ UNCHANGED <<stamp, open, excused>>
     \/ /\ stamp[d] # None /\ sweep.at # d /\ stamp' = [stamp EXCEPT ![d] = None]
        /\ excused' = excused \ {d} /\ UNCHANGED <<seen, open>>
     \/ ~open[d] /\ stamp[d] = None /\ open' = [open EXCEPT ![d] = TRUE] /\ UNCHANGED <<stamp, seen, excused>>
  /\ UNCHANGED <<on, settling, tries, said, sweep, used>>

---------------------------------------------------------------------------
(* The push.                                                               *)

ReadDue ==
  /\ sweep.pc = "idle" /\ \E d \in Devices : open[d]
  /\ sweep' = [Resting EXCEPT !.pc = "due", !.due = {d \in Devices : open[d]}]
  /\ UNCHANGED <<open, on, seen, settling, stamp, tries, said, excused, used>>

\* partitionByFreshness.
Partition ==
  /\ sweep.pc = "due"
  /\ sweep' = [sweep EXCEPT !.pc = "seen", !.stale = {d \in sweep.due : ~seen[d]},
                            !.fresh = {d \in sweep.due : seen[d]}]
  /\ UNCHANGED <<open, on, seen, settling, stamp, tries, said, excused, used>>

\* A read that fails leaves the sweep without what was said and counted.
ReadConfig ==
  /\ sweep.pc = "seen"
  /\ \/ sweep' = [sweep EXCEPT !.pc = "turns", !.said = said, !.tries = tries, !.watch = sweep.fresh] /\ UNCHANGED used
     \/ Happens("blind") /\ sweep' = [sweep EXCEPT !.pc = "turns", !.said = [d \in Devices |-> None],
                                                   !.tries = [d \in Devices |-> 0]]
  /\ UNCHANGED <<open, on, seen, settling, stamp, tries, said, excused>>

\* setState writes what differs from what was read; an error is only logged.
Say(d, what) ==
  \/ said' = (IF sweep.said[d] = what THEN said ELSE [said EXCEPT ![d] = what]) /\ UNCHANGED used
  \/ Happens("unwritten") /\ UNCHANGED said

\* A terminal that is off is not claimed: the pull may have it when it comes on.
MarkOffline ==
  /\ sweep.pc = "turns"
  /\ \E d \in sweep.stale : Say(d, "offline") /\ sweep' = [sweep EXCEPT !.stale = @ \ {d}]
  /\ UNCHANGED <<open, on, seen, settling, stamp, tries, excused>>

TakeTurn ==
  /\ sweep.pc = "turns" /\ sweep.stale = {}
  /\ \E d \in sweep.fresh :
       /\ IF sweep.tries[d] >= OverdueAfter THEN Say(d, "overdue") ELSE UNCHANGED <<said, used>>
       /\ sweep' = [sweep EXCEPT !.pc = "claim", !.at = d, !.fresh = @ \ {d}]
  /\ UNCHANGED <<open, on, seen, settling, stamp, tries, excused>>

\* The next terminal, when this one is claimed already or the claim fails; a claim whose
\* answer is lost looks like one that failed, and keeps the turn.
ClaimDue ==
  /\ sweep.pc = "claim"
  /\ \/ /\ Claimable(sweep.at) /\ Claim(sweep.at, "push") /\ sweep' = [sweep EXCEPT !.pc = "dispatch"]
        /\ UNCHANGED <<excused, used>>
     \/ /\ IF Claimable(sweep.at) THEN Happens("refused") ELSE UNCHANGED used
        /\ sweep' = [sweep EXCEPT !.pc = "turns", !.at = None] /\ UNCHANGED <<stamp, tries, excused>>
     \/ /\ Claimable(sweep.at) /\ Happens("unheard") /\ Claim(sweep.at, "push")
        /\ sweep' = [sweep EXCEPT !.pc = "turns", !.at = None] /\ excused' = excused \cup {sweep.at}
  /\ UNCHANGED <<open, on, seen, settling, said>>

\* The terminal settles and answers; or no answer comes, whether or not the
\* command reached it.
Dispatch ==
  /\ sweep.pc = "dispatch"
  /\ \/ /\ on[sweep.at] /\ ~settling[sweep.at] /\ Settle(sweep.at) /\ UNCHANGED settling
        /\ sweep' = [sweep EXCEPT !.pc = "turns", !.at = None, !.watch = @ \ {sweep.at}]
     \/ /\ UNCHANGED settling \/ (on[sweep.at] /\ settling' = [settling EXCEPT ![sweep.at] = TRUE])
        /\ sweep' = [sweep EXCEPT !.pc = "release"] /\ UNCHANGED <<open, tries, said, excused>>
  /\ UNCHANGED <<on, seen, stamp, used>>

\* A push that failed gives the turn back and says why.
Release ==
  /\ sweep.pc = "release"
  /\ \/ /\ said' = [said EXCEPT ![sweep.at] = "failed"] /\ stamp' = [stamp EXCEPT ![sweep.at] = None]
        /\ UNCHANGED <<excused, used>>
     \/ Happens("unwritten") /\ excused' = excused \cup {sweep.at} /\ UNCHANGED <<said, stamp>>
  /\ sweep' = [sweep EXCEPT !.pc = "turns", !.at = None]
  /\ UNCHANGED <<open, on, seen, settling, tries>>

EndSweep ==
  /\ sweep.pc = "turns" /\ sweep.stale = {} /\ sweep.fresh = {}
  /\ sweep' = [sweep EXCEPT !.pc = "swept"]
  /\ UNCHANGED <<open, on, seen, settling, stamp, tries, said, excused, used>>

\* complete_sync_schedule; or the process dies, or a read throws.
Leave ==
  /\ \/ sweep.pc = "swept" /\ UNCHANGED used
     \/ sweep.pc \notin {"idle", "swept"} /\ Happens("dies")
  /\ excused' = excused \cup (IF sweep.pc \in {"dispatch", "release"} THEN {sweep.at} ELSE {})
  /\ sweep' = Resting
  /\ UNCHANGED <<open, on, seen, settling, stamp, tries, said>>

Next ==
  \/ \E d \in Devices : Power(d) \/ Heartbeat(d) \/ SettleEnds(d) \/ TimePasses(d)
  \/ ReadDue \/ Partition \/ ReadConfig \/ MarkOffline \/ TakeTurn \/ ClaimDue \/ Dispatch \/ Release
  \/ EndSweep \/ Leave

Spec == Init /\ [][Next]_vars

---------------------------------------------------------------------------

\* dispatch.ts: a push that failed does not take the turn of the pull.  While a
\* batch is due its terminal is claimed by the push only while the push waits for
\* its answer, unless the process died there, did not hear of its claim or could not
\* write the release.
PushYields ==
  \A d \in Devices : open[d] /\ stamp[d] = "push" /\ d \notin excused => sweep.at = d

\* A sweep leaves no terminal that is on, overdue and not settled looking fine,
\* though its failures are silent, whoever held its turn.
StuckIsVisible ==
  sweep.pc = "swept" /\ "unwritten" \notin used =>
    \A d \in sweep.watch : sweep.tries[d] >= OverdueAfter => said[d] # None
=============================================================================
