-------------------------- MODULE OmnivoreTender ---------------------------
(***************************************************************************)
(* The omnivore payment_injection job: a payment MCM has taken becomes a   *)
(* tender on a ticket that is open in the POS.  Several payments of one    *)
(* order have a job each, and their executions interleave on the ticket,   *)
(* on the order's warning (orders.issues, a single slot) and on their      *)
(* siblings' status.  The POS may refuse a tender because a waiter has the *)
(* ticket open, apply it and fail to close the ticket, or lose the answer. *)
(***************************************************************************)
EXTENDS Naturals, FiniteSets

CONSTANTS
  Pays,         \* payments of the order
  Asked,        \* what MCM charged for each
  Total,        \* the ticket's balance before any tender
  Unfired,      \* lines of the order that are not in the POS yet
  MaxAttempts,  \* max_attempts the producers enqueue
  MaxWaiting,   \* TICKET_LOCKED_MAX_ATTEMPTS, ITEMS_NOT_IN_POS_MAX_ATTEMPTS
  Faults,       \* bound: how many of Kinds happen in one behaviour
  None

\* What may happen besides the code's own steps, each kind once.
Kinds == {"crash", "lost", "late", "unmarked", "unnoted", "blind", "retry", "lock", "fire", "closing"}

VARIABLES
  ticket,   \* the POS: balance, open at a terminal, tenders of each payment
  sky,      \* tenders whose client gave up and that may still be applied
  fired,    \* lines in the POS, and whether a fire is in flight
  row,      \* payments: the applied marker and the recorded difference
  noted,    \* order_notes: the difference noted for each payment
  issue,    \* orders.issues: the payment it is about
  job,      \* integration_jobs and job_steps of each payment
  ex,       \* the execution of each payment's job
  used      \* the kinds that happened

vars == <<ticket, sky, fired, row, noted, issue, job, ex, used>>

Resting == [pc |-> "idle", due |-> 0, adjust |-> 0]
Pc == {"idle", "applied", "items", "recon", "totals", "paid", "post", "mark", "closed",
       "note", "siblings", "clear", "end"}

TypeOK ==
  /\ ticket \in [due : Nat, locked : BOOLEAN, tenders : [Pays -> Nat], applied : [Pays -> Nat]]
  /\ sky \subseteq (Pays \X Nat)
  /\ fired \in [lines : Nat, flying : BOOLEAN]
  /\ row \in [Pays -> [marker : {"none", "id", "closed"}, adjusted : Nat]]
  /\ noted \in [Pays -> Nat] /\ issue \in Pays \cup {None}
  /\ job \in [Pays -> [status : {"queued", "running", "dead", "completed"},
                       attempts : Nat, max : {MaxAttempts, MaxWaiting}]]
  /\ ex \in [Pays -> [pc : Pc, due : Nat, adjust : Nat]]
  /\ used \subseteq Kinds

Init ==
  /\ ticket = [due |-> Total, locked |-> FALSE, tenders |-> [p \in Pays |-> 0],
               applied |-> [p \in Pays |-> 0]]
  /\ sky = {}
  /\ fired = [lines |-> 0, flying |-> FALSE]
  /\ row = [p \in Pays |-> [marker |-> "none", adjusted |-> 0]]
  /\ noted = [p \in Pays |-> 0] /\ issue = None
  /\ job = [p \in Pays |-> [status |-> "queued", attempts |-> 0, max |-> MaxAttempts]]
  /\ ex = [p \in Pays |-> Resting] /\ used = {}

Happens(k) == k \in Kinds \ used /\ Cardinality(used) < Faults /\ used' = used \cup {k}
At(p, pc)  == ex[p].pc = pc
Go(p, pc)  == ex' = [ex EXCEPT ![p].pc = pc]
pos == <<ticket, sky>>
tables == <<row, noted, issue>>

---------------------------------------------------------------------------
(* What the engine makes of a handler's result.                            *)

Start(p) ==
  /\ job[p].status = "queued" /\ At(p, "idle")
  /\ job' = [job EXCEPT ![p].status = "running"]
  /\ Go(p, "applied")
  /\ UNCHANGED <<pos, fired, tables, used>>

\* willTerminate, with the limit the handler may have raised.
Retries(p, retryable, max) == retryable /\ job[p].attempts + 1 < max
Dropped(p, retryable, max) ==
  /\ job' = [job EXCEPT ![p] =
       [status   |-> IF Retries(p, retryable, max) THEN "queued" ELSE "dead",
        attempts |-> @.attempts + 1, max |-> max]]
  /\ ex' = [ex EXCEPT ![p] = Resting]

\* persistPaymentIssue: when the step dies, or from the first refusal of a locked ticket.
Warned(p, retryable, max, always) ==
  issue' = IF always \/ ~Retries(p, retryable, max) THEN p ELSE issue

Crash(p) ==
  /\ ~At(p, "idle") /\ Happens("crash")
  /\ ex' = [ex EXCEPT ![p] = Resting] /\ job' = [job EXCEPT ![p].status = "queued"]
  /\ UNCHANGED <<pos, fired, tables>>

\* A read before the POST fails: never post blind.  No warning is written on the order here.
ReadFails(p) ==
  /\ ex[p].pc \in {"applied", "recon", "totals"}
  /\ \/ Dropped(p, TRUE, job[p].max)
     \/ ~At(p, "applied") /\ Dropped(p, FALSE, job[p].max)
  /\ UNCHANGED <<pos, fired, tables, used>>

---------------------------------------------------------------------------
(* payment_injection                                                       *)

\* Wrong variant, for the tests of the properties: only a tender with an id counts as applied.
IgnoreClosed(p) ==
  /\ At(p, "applied")
  /\ Go(p, IF row[p].marker = "id" THEN "siblings" ELSE "items")
  /\ UNCHANGED <<pos, fired, tables, job, used>>

\* readOmnivoreApplied: the resume guard.
ReadApplied(p) ==
  /\ At(p, "applied")
  /\ Go(p, IF row[p].marker # "none" THEN "siblings" ELSE "items")
  /\ UNCHANGED <<pos, fired, tables, job, used>>

\* assertItemsInPos: lines that are not in the POS, or a fire in flight, raise the limit of the
\* step and wait.  An order that cannot be read does not block; nor does a raise that fails.
Waiting == fired.lines < Unfired \/ fired.flying
AssertItems(p) ==
  /\ At(p, "items")
  /\ LET next == IF job[p].attempts > 0 THEN "recon" ELSE "totals"
     IN \/ ~Waiting /\ Go(p, next) /\ UNCHANGED <<issue, job, used>>
        \/ Happens("blind") /\ Go(p, next) /\ UNCHANGED <<issue, job>>
        \/ /\ Waiting /\ Dropped(p, TRUE, MaxWaiting) /\ Warned(p, TRUE, MaxWaiting, FALSE)
           /\ UNCHANGED used
  /\ UNCHANGED <<pos, fired, row, noted>>

\* Reconcile-before-repost: what it reads is only logged.
Reconcile(p) ==
  /\ At(p, "recon") /\ Go(p, "totals")
  /\ UNCHANGED <<pos, fired, tables, job, used>>

\* getTicketTotals: a paid ticket gets nothing more, a short one gets what it lacks.
Least(a, b) == IF a <= b THEN a ELSE b
ReadTotals(p) ==
  /\ At(p, "totals")
  /\ ex' = [ex EXCEPT ![p] = [pc     |-> IF ticket.due = 0 THEN "paid" ELSE "post",
                              due    |-> ticket.due,
                              adjust |-> Asked[p] - Least(Asked[p], ticket.due)]]
  /\ UNCHANGED <<pos, fired, tables, job, used>>

\* Wrong variant, for the tests of the properties: a payment that is not applied is not noted.
CompleteSilently(p) ==
  /\ At(p, "paid") /\ Go(p, "siblings")
  /\ UNCHANGED <<pos, fired, tables, job, used>>

\* appendSystemOrderNote: an insert that fails is logged.
Noted(p, n) ==
  \/ noted' = [noted EXCEPT ![p] = n] /\ UNCHANGED used
  \/ Happens("unnoted") /\ UNCHANGED noted

\* The whole payment is noted on the order and on its row as not applied.
AlreadyPaid(p) ==
  /\ At(p, "paid")
  /\ Noted(p, Asked[p])
  /\ row' = [row EXCEPT ![p].adjusted = Asked[p]]
  /\ Go(p, "siblings")
  /\ UNCHANGED <<pos, fired, issue, job>>

\* The POS: a tender above the balance, or on a ticket open at a terminal, is refused.
Amount(p) == Least(Asked[p], ex[p].due)
Takes(n) == ~ticket.locked /\ n <= ticket.due
Tendered(p, n) == [ticket EXCEPT !.due = @ - n, !.tenders[p] = @ + 1, !.applied[p] = @ + n]

\* esCierreFallidoTrasAplicar, "Error closing ticket": the tender is in although the answer is
\* an error.
ClosingFailed(p) == Happens("closing") /\ Go(p, "closed")
Post(p) ==
  /\ At(p, "post") /\ Takes(Amount(p))
  /\ ticket' = Tendered(p, Amount(p))
  /\ \/ Go(p, "mark") /\ UNCHANGED used
     \/ ClosingFailed(p)
  /\ UNCHANGED <<sky, fired, tables, job>>

\* writeOmnivoreApplied, with the difference; an error of the write is logged, and the payment
\* stays unmarked.
Marked(p, marker, adjust) ==
  \/ row' = [row EXCEPT ![p] = [marker |-> marker, adjusted |-> adjust]] /\ UNCHANGED used
  \/ Happens("unmarked") /\ UNCHANGED row
MarkApplied(p) ==
  /\ At(p, "mark") /\ Marked(p, "id", ex[p].adjust)
  /\ Go(p, IF ex[p].adjust > 0 THEN "note" ELSE "siblings")
  /\ UNCHANGED <<pos, fired, noted, issue, job>>

\* A tender that went in without closing the ticket is marked, shown, and never retried.
MarkClosingFailed(p) ==
  /\ At(p, "closed") /\ Marked(p, "closed", 0)
  /\ Warned(p, FALSE, job[p].max, TRUE) /\ Dropped(p, FALSE, job[p].max)
  /\ UNCHANGED <<pos, fired, noted>>

\* ticket_locked: the limit is raised, the order warned from the first refusal.
PostLocked(p) ==
  /\ At(p, "post") /\ ticket.locked
  /\ Dropped(p, TRUE, MaxWaiting) /\ Warned(p, TRUE, MaxWaiting, TRUE)
  /\ UNCHANGED <<pos, fired, row, noted, used>>

\* Refused for another reason; applied, with the answer lost; or on its way when the client
\* gave up.
PostFails(p) ==
  /\ At(p, "post")
  /\ \/ ~ticket.locked /\ UNCHANGED <<pos, used>>
     \/ /\ Takes(Amount(p)) /\ Happens("lost")
        /\ ticket' = Tendered(p, Amount(p)) /\ UNCHANGED sky
     \/ Happens("late") /\ sky' = sky \cup {<<p, Amount(p)>>} /\ UNCHANGED ticket
  /\ \E retryable \in (IF used' = used THEN BOOLEAN ELSE {TRUE}) :
       Dropped(p, retryable, job[p].max) /\ Warned(p, retryable, job[p].max, FALSE)
  /\ UNCHANGED <<fired, row, noted>>

\* The difference of a capped tender is noted on the order.
NoteDifference(p) ==
  /\ At(p, "note")
  /\ Noted(p, ex[p].adjust)
  /\ Go(p, "siblings")
  /\ UNCHANGED <<pos, fired, row, issue, job>>

\* reconcileOrderIssues: count the other jobs that are not completed, then clear the slot.
CountSiblings(p) ==
  /\ At(p, "siblings")
  /\ IF \A q \in Pays \ {p} : job[q].status = "completed"
       THEN Go(p, "clear") ELSE Go(p, "end")
  /\ UNCHANGED <<pos, fired, tables, job, used>>
ClearIssue(p) ==
  /\ At(p, "clear")
  /\ issue' = None /\ Go(p, "end")
  /\ UNCHANGED <<pos, fired, row, noted, job, used>>
End(p) ==
  /\ At(p, "end")
  /\ job' = [job EXCEPT ![p].status = "completed"]
  /\ ex' = [ex EXCEPT ![p] = Resting]
  /\ UNCHANGED <<pos, fired, tables, used>>

---------------------------------------------------------------------------
(* The world                                                               *)

Land(p) ==
  /\ \E r \in sky : /\ r[1] = p /\ sky' = sky \ {r}
                    /\ IF Takes(r[2]) THEN ticket' = Tendered(p, r[2]) ELSE UNCHANGED ticket
  /\ UNCHANGED <<fired, tables, job, ex, used>>

RetryDeadLetter(p) ==
  /\ job[p].status = "dead" /\ Happens("retry")
  /\ job' = [job EXCEPT ![p].status = "queued", ![p].attempts = 0]
  /\ UNCHANGED <<pos, fired, tables, ex>>

\* A waiter opens the ticket at a terminal, or leaves it.
Lock ==
  /\ IF ticket.locked THEN UNCHANGED used ELSE Happens("lock")
  /\ ticket' = [ticket EXCEPT !.locked = ~@]
  /\ UNCHANGED <<sky, fired, tables, job, ex>>

\* send-to-kitchen: announces the fire, posts the lines, closes the announcement.
Fire ==
  /\ IF fired.flying THEN UNCHANGED used ELSE Happens("fire")
  /\ fired' = IF fired.flying THEN [lines |-> Unfired, flying |-> FALSE]
                              ELSE [fired EXCEPT !.flying = TRUE]
  /\ UNCHANGED <<pos, tables, job, ex>>

Next ==
  \/ \E p \in Pays :
       \/ Start(p) \/ Crash(p) \/ ReadFails(p) \/ ReadApplied(p) \/ AssertItems(p)
       \/ Reconcile(p) \/ ReadTotals(p) \/ AlreadyPaid(p) \/ Post(p) \/ MarkApplied(p)
       \/ MarkClosingFailed(p) \/ PostLocked(p) \/ PostFails(p) \/ NoteDifference(p) \/ CountSiblings(p)
       \/ ClearIssue(p) \/ End(p) \/ Land(p) \/ RetryDeadLetter(p)
  \/ Lock \/ Fire

Spec == Init /\ [][Next]_vars

---------------------------------------------------------------------------
(* Properties                                                              *)

NoDoubt == used \cap {"lost", "late", "unmarked", "unnoted", "crash"} = {}
Completed == {p \in Pays : job[p].status = "completed"}

\* Unless an answer, a write or the job's process was lost, a payment is tendered once at most, whatever is
\* refused, fails to close, waits for a waiter or is put back (payment.ts:66-95).
TenderedOnce == NoDoubt => \A p \in Pays : ticket.tenders[p] <= 1

\* What MCM charged is on the ticket, or noted on the order as a difference (payment.ts:376-380).
EveryCentNoted(S) == NoDoubt => \A p \in S : Asked[p] = ticket.applied[p] + noted[p]

\* It is, for every job that completed by posting its tender or finding the ticket paid ...
DifferenceIsNoted == EveryCentNoted({p \in Completed : row[p].marker # "closed"})

\* Does not hold: not for a tender that was cut to the balance and then failed to close the ticket.
EveryDifferenceIsNoted == EveryCentNoted(Completed)
=============================================================================
