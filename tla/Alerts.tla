------------------------------- MODULE Alerts -------------------------------
(***************************************************************************)
(* The alert outbox: enqueue_alert coalesces events of one dedupe key into *)
(* a row that waits, or into the row last sent while its cool-down lasts;  *)
(* dispatchers fetch what is pending, ask the rate limiter for each row    *)
(* and mail, suppress or fail it.  A dispatcher is meant to run in one     *)
(* replica only, but nothing but its configuration sees to it.             *)
(***************************************************************************)
EXTENDS Naturals, Sequences, FiniteSets

CONSTANTS
  Keys,         \* dedupe keys
  Critical,     \* those of severity critical
  Noisy,        \* those of the one noisy site; the others come from different sites
  Dispatchers,
  Quota,        \* mails per hour: of the critical lane, the other lane, one site
  MaxRows,      \* bound: rows of the outbox
  MaxCount,     \* bound: events one row counts
  Faults        \* bound: how many of Kinds happen in one behaviour

\* What may happen besides the code's own steps, each kind once.
Kinds == {"race", "blind", "bounce", "dies", "deaf", "hour"}

VARIABLES
  outbox,  \* alerts_outbox, oldest first
  log,     \* alert_send_log of the last hour: the n-th mail of a key
  desk,    \* the loop of each dispatcher: the rows of its batch still to do
  events,  \* history: events enqueued
  used     \* the kinds that happened

vars == <<outbox, log, desk, events, used>>

Rows    == DOMAIN outbox
Lane(k) == IF k \in Critical THEN "critical" ELSE "other"
Waiting == [pc |-> "fetch", batch |-> {}]

TypeOK ==
  /\ \A r \in Rows :
       /\ outbox[r].key \in Keys /\ outbox[r].count \in 1 .. MaxCount /\ outbox[r].recent \in BOOLEAN
       /\ outbox[r].status \in {"pending", "sent", "suppressed", "failed"}
  /\ log \subseteq Keys \X Nat
  /\ desk \in [Dispatchers -> [pc : {"fetch", "judge", "mail", "record", "mark"}, batch : SUBSET Rows]]
  /\ events \in Nat /\ used \subseteq Kinds

Init ==
  /\ outbox = <<>> /\ log = {}
  /\ desk = [d \in Dispatchers |-> Waiting] /\ events = 0 /\ used = {}

Happens(k) == k \in Kinds \ used /\ Cardinality(used) < Faults /\ used' = used \cup {k}

---------------------------------------------------------------------------
(* enqueue_alert.  recent: created within five minutes for a pending row,  *)
(* sent within the cool-down for a sent one.                               *)

Coalesces(k, status) == {r \in Rows : /\ outbox[r].key = k /\ outbox[r].status = status
                                      /\ outbox[r].recent}
Into(k) == IF Coalesces(k, "pending") # {} THEN Coalesces(k, "pending") ELSE Coalesces(k, "sent")
NewRow(k) == [key |-> k, status |-> "pending", count |-> 1, recent |-> TRUE, rivals |-> 0, own |-> 0, mails |-> 0]

\* Two callers that look at the same time insert a row each.
Enqueue(k) ==
  /\ events < MaxCount /\ events' = events + 1
  /\ \/ /\ Into(k) # {} /\ UNCHANGED used
        /\ LET r == CHOOSE x \in Into(k) : \A y \in Into(k) : y <= x
           IN outbox' = [outbox EXCEPT ![r].count = @ + 1]
     \/ /\ IF Into(k) = {} THEN UNCHANGED used ELSE Happens("race")
        /\ Len(outbox) < MaxRows
        /\ outbox' = Append(outbox, NewRow(k))
  /\ UNCHANGED <<log, desk>>

\* An hour without alerts: the log falls out of the window and no row coalesces.
HourPasses ==
  /\ Happens("hour")
  /\ log' = {}
  /\ outbox' = [r \in Rows |-> [outbox[r] EXCEPT !.recent = FALSE]]
  /\ UNCHANGED <<desk, events>>

---------------------------------------------------------------------------
(* The dispatcher.                                                         *)

At(d, pc) == desk[d].pc = pc
Go(d, pc) == desk' = [desk EXCEPT ![d].pc = pc]
InHand(d) == CHOOSE r \in desk[d].batch : \A s \in desk[d].batch : r <= s
NextRow(d) == LET left == desk[d].batch \ {InHand(d)}
  IN desk' = [desk EXCEPT ![d] = IF left = {} THEN Waiting ELSE [pc |-> "judge", batch |-> left]]

Fetch(d) ==
  /\ At(d, "fetch")
  /\ LET due == {r \in Rows : outbox[r].status = "pending"}
     IN due # {} /\ desk' = [desk EXCEPT ![d] = [pc |-> "judge", batch |-> due]]
  /\ UNCHANGED <<outbox, log, events, used>>

\* Wrong variant, for the tests of the properties: one quota for all, as before migration 034.
OneQuota(lane) == Keys

\* canSend: the lane of the severity, and for what is not critical the ceiling
\* of the site.
Mails(keys)  == Cardinality({m \in log : m[1] \in keys})
InLane(lane) == {k \in Keys : Lane(k) = lane}
SameSite(k)  == IF k \in Noisy THEN Noisy \ Critical ELSE {k}
CanSend(k) ==
  /\ Mails(InLane(Lane(k))) < Quota[Lane(k)]
  /\ k \in Critical \/ Mails(SameSite(k)) < Quota["site"]

\* History: the mails of others that may silence an alert, its lane's but the noisy site's.
Rivals(k) == IF k \in Critical THEN Critical ELSE Keys \ (Critical \cup Noisy)

\* A failed count lets the mail through; a row no recipient may get is suppressed.
Judge(d) ==
  /\ At(d, "judge")
  /\ LET r == InHand(d) IN
       \/ CanSend(outbox[r].key) /\ Go(d, "mail") /\ UNCHANGED <<outbox, used>>
       \/ ~CanSend(outbox[r].key) /\ Happens("blind") /\ Go(d, "mail") /\ UNCHANGED outbox
       \/ /\ ~CanSend(outbox[r].key) /\ NextRow(d) /\ UNCHANGED used
          /\ outbox' = [outbox EXCEPT ![r].status = "suppressed",
                                      ![r].rivals = Mails(Rivals(outbox[r].key)),
                                      ![r].own = Mails(SameSite(outbox[r].key))]
  /\ UNCHANGED <<log, events>>

Mail(d) ==
  /\ At(d, "mail")
  /\ LET r == InHand(d) IN
       \/ Go(d, "record") /\ outbox' = [outbox EXCEPT ![r].mails = @ + 1] /\ UNCHANGED used
       \/ /\ Happens("bounce") /\ NextRow(d)
          /\ outbox' = [outbox EXCEPT ![r].status = "failed"]
  /\ UNCHANGED <<log, events>>

\* recordSent and mark_alert_sent: neither error is looked at.
Record(d) ==
  /\ At(d, "record") /\ Go(d, "mark")
  /\ \/ /\ LET k == outbox[InHand(d)].key IN log' = log \cup {<<k, Mails({k}) + 1>>}
        /\ UNCHANGED used
     \/ Happens("deaf") /\ UNCHANGED log
  /\ UNCHANGED <<outbox, events>>

MarkSent(d) ==
  /\ At(d, "mark") /\ NextRow(d)
  /\ \/ /\ outbox' = [outbox EXCEPT ![InHand(d)].status = "sent", ![InHand(d)].recent = TRUE]
        /\ UNCHANGED used
     \/ Happens("deaf") /\ UNCHANGED outbox
  /\ UNCHANGED <<log, events>>

Dies(d) ==
  /\ ~At(d, "fetch") /\ Happens("dies")
  /\ desk' = [desk EXCEPT ![d] = Waiting]
  /\ UNCHANGED <<outbox, log, events>>

Next ==
  \/ \E k \in Keys : Enqueue(k)
  \/ HourPasses
  \/ \E d \in Dispatchers : Fetch(d) \/ Judge(d) \/ Mail(d) \/ Record(d) \/ MarkSent(d) \/ Dies(d)

Spec == Init /\ [][Next]_vars

---------------------------------------------------------------------------
(* Properties.                                                             *)

\* One incident does not silence another (migration 034, rate-limiter.ts): a
\* critical alert is suppressed by critical mails only, and an alert of a quiet
\* site by the mails of its own site, or by a lane of which the noisy site took at
\* most its ceiling, plus the mail a failed count let through and those that other
\* dispatchers had under way.
FairlySuppressed(k, rivals, own) ==
  \/ k \in Critical /\ rivals >= Quota["critical"]
  \/ k \notin Critical /\ (k \in Noisy \/ own >= Quota["site"])
  \/ /\ k \notin Critical
     /\ rivals + Quota["site"] + Cardinality(used \cap {"blind"}) + Cardinality(Dispatchers)
          > Quota["other"]
LanesHold == \A r \in Rows : outbox[r].status = "suppressed" =>
  FairlySuppressed(outbox[r].key, outbox[r].rivals, outbox[r].own)

\* Does not hold: an alert is mailed twice by a dispatcher that dies before it
\* marks the row, or by two dispatchers.
MailedOnce == \A r \in Rows : outbox[r].mails <= 1
=============================================================================
