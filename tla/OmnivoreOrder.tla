--------------------------- MODULE OmnivoreOrder ---------------------------
(***************************************************************************)
(* The order_injection job: one MCM order becomes a ticket of the POS that *)
(* Omnivore fronts, in three steps (create_order, add_items,               *)
(* create_payment).  Omnivore honours no idempotency header, so each step  *)
(* looks before it posts.  A request may fail without effect, take effect  *)
(* and lose its answer, or take effect after its client gave up; the       *)
(* process may die between two awaits; an operator may put a dead job back *)
(* (which resets its attempts), and the staff may cancel the order,        *)
(* resolve it by hand, or act at the POS.  Claims and locks are            *)
(* JobEngine's matter: here a queued job is executed by one process.       *)
(***************************************************************************)
EXTENDS Naturals, Sequences, FiniteSets

CONSTANTS
  Tickets,      \* bound: tickets the POS may open for the order
  NumItems,     \* items of the payload; each one counts 1 in the balance
  Asked,        \* amounts of the payments of the payload
  MaxAttempts,  \* max_attempts of each step
  ReportsDue,   \* the POS reports totals.due
  Faults,       \* bound: how many of Kinds happen in one behaviour
  None

\* What may happen besides the code's own steps, each kind once.
Kinds == {"crash", "blind", "lost", "late", "status", "partial", "retry", "cancel",
          "resolve", "staff", "close"}

VARIABLES
  pos,     \* the POS: tickets, by id
  sky,     \* requests whose client gave up and that may still take effect
  order,   \* orders: status, pos_id, pos_injection_error.state
  job,     \* integration_jobs and job_steps: status, step, attempts, context
  ex,      \* the execution: where it is, and its locals
  used     \* the kinds that happened

vars == <<pos, sky, order, job, ex, used>>

Pays    == DOMAIN Asked
Least(a, b) == IF a <= b THEN a ELSE b
NoTicket == [open |-> FALSE, items |-> 0, paid |-> 0, count |-> 0, own |-> [i \in Pays |-> 0]]
Made    == {t \in Tickets : pos[t] # NoTicket}
Due(t)  == pos[t].items - pos[t].paid
Fresh   == CHOOSE t \in Tickets : t \notin Made
NoContext == [marker |-> FALSE, ticket |-> None, items |-> None]
Skips   == {"resolved", "cancelled"}
\* Whether the payload lets create_order look for the order's ticket: never when the name of
\* the ticket does not identify the order, otherwise on a retry, or always (scan_existing).
Searches == {"never", "retry", "always"}
Idle    == [pc |-> "idle", ctx |-> NoContext, t |-> None, left |-> 0, i |-> 1]
First   == <<"guard1", "guard2", "guard3">>
Notes   == {"none", "retrying", "failed", "needs_action", "resolved"}

TypeOK ==
  /\ pos \in [Tickets -> [open : BOOLEAN, items : Nat, paid : Nat, count : Nat,
                          own : [Pays -> Nat]]]
  /\ sky \subseteq {<<"ticket">>} \cup ({"items"} \X Tickets) \cup ({"tender"} \X Tickets \X Pays \X Nat)
  /\ order \in [cancelled : BOOLEAN, posId : Tickets \cup {None}, note : Notes]
  /\ job \in [status : {"absent", "queued", "running", "dead", "completed"}, step : 1 .. 3,
              attempts : 0 .. MaxAttempts, marker : BOOLEAN,
              ticket : Tickets \cup Skips \cup {None}, items : Skips \cup {"done", None},
              search : Searches]
  /\ ex.pc \in {"idle", "next", "find", "scan", "mark", "open", "link", "count", "items",
                "totals", "tender"} \cup {First[s] : s \in 1 .. 3}
  /\ used \subseteq Kinds

Init ==
  /\ pos = [t \in Tickets |-> NoTicket] /\ sky = {}
  /\ order = [cancelled |-> FALSE, posId |-> None, note |-> "none"]
  /\ job = [status |-> "absent", step |-> 1, attempts |-> 0, marker |-> FALSE,
            ticket |-> None, items |-> None, search |-> "retry"]
  /\ ex = Idle /\ used = {}

Happens(k) == k \in Kinds \ used /\ Cardinality(used) < Faults /\ used' = used \cup {k}
At(pc) == ex.pc = pc
Go(pc) == ex' = [ex EXCEPT !.pc = pc]

---------------------------------------------------------------------------
(* The job: its producer, and what the engine makes of a handler's result. *)

\* enqueueOrderInjection: the idempotency key is the order's, a second call does nothing.
\* The payload is frozen in the job.
Enqueue ==
  /\ job.status = "absent"
  /\ \E s \in Searches : job' = [job EXCEPT !.status = "queued", !.search = s]
  /\ UNCHANGED <<pos, sky, order, ex, used>>

\* The executor reads the context before each step and hands {} on if it cannot.
ReadContext ==
  /\ At("next") \/ (At("idle") /\ job.status = "queued")
  /\ \/ /\ ex' = [Idle EXCEPT !.pc = First[job.step],
                  !.ctx = [marker |-> job.marker, ticket |-> job.ticket, items |-> job.items]]
        /\ UNCHANGED used
     \/ Happens("blind") /\ ex' = [Idle EXCEPT !.pc = First[job.step]]
  /\ job' = [job EXCEPT !.status = "running"]
  /\ UNCHANGED <<pos, sky, order>>

\* complete_step: the output of the step joins the context.
Completed(field, out) ==
  IF job.step = 3
    THEN job' = [job EXCEPT !.status = "completed"] /\ ex' = Idle
    ELSE /\ job' = [job EXCEPT !.step = @ + 1, !.attempts = 0,
                               !.ticket = IF field = "ticket" THEN out ELSE @,
                               !.items  = IF field = "items" THEN out ELSE @]
         /\ Go("next")

\* persistInjectionStatus: never over "resolved", and an error of the write is only logged.
Noted(note) == [order EXCEPT !.note = IF @ = "resolved" THEN @ ELSE note]
Persist(note) ==
  \/ order' = Noted(note) /\ UNCHANGED used
  \/ Happens("status") /\ UNCHANGED order

\* statusForFailure, and the executor's retry rule, which it mirrors.
\* Wrong variant, for the tests of the properties: one retry too many.
RetriesOnceMore(retryable) == retryable /\ job.attempts < MaxAttempts
WillRetry(retryable) == retryable /\ job.attempts + 1 < MaxAttempts
FailureNote(retryable) ==
  IF WillRetry(retryable) THEN "retrying"
  ELSE IF job.step = 3 /\ ex.ctx.ticket \in Tickets THEN "needs_action" ELSE "failed"
Dropped(retryable) ==
  /\ job' = [job EXCEPT !.status = IF WillRetry(retryable) THEN "queued" ELSE "dead",
                        !.attempts = @ + 1]
  /\ ex' = Idle
Failed(retryable) == order' = Noted(FailureNote(retryable)) /\ Dropped(retryable)

Crash ==
  /\ ex.pc # "idle" /\ Happens("crash")
  /\ ex' = Idle /\ job' = [job EXCEPT !.status = "queued"]
  /\ UNCHANGED <<pos, sky, order>>

\* A database call or a GET of the handler fails: the step fails and may be retried.
CallFails ==
  /\ ex.pc \in {"guard1", "find", "scan", "mark", "link", "guard2", "count", "guard3", "totals"}
  /\ \/ Failed(TRUE)
     \/ ex.pc \in {"find", "scan", "count", "totals"} /\ Failed(FALSE)
  /\ UNCHANGED <<pos, sky, used>>

---------------------------------------------------------------------------
(* create_order                                                            *)

\* readOrderGuard: what stops the injection of an order.
Stop == IF order.note = "resolved" THEN "resolved"
        ELSE IF order.cancelled THEN "cancelled" ELSE "go"

\* isOrderUniqueTicketName: a name that may be another order's is not looked for.
Look == IF job.search = "never" THEN "mark" ELSE "find"
GuardCreate ==
  /\ At("guard1")
  /\ IF Stop = "go" THEN Go(Look) /\ UNCHANGED job ELSE Completed("ticket", Stop)
  /\ UNCHANGED <<pos, sky, order, used>>

\* findOpenTicketIdByName: the POS may reject the filter, which counts as not found; the
\* scan of all open tickets follows only when an earlier attempt may have opened one, or the
\* payload of a forced resend asks for it.
OpenTickets == {t \in Made : pos[t].open}
\* Wrong variant, for the tests of the properties: a crash is not an attempt.
MayExistByAttempts == job.attempts > 0 \/ job.search = "always"
MayExist == ex.ctx.marker \/ job.attempts > 0 \/ job.search = "always"
FindByName ==
  /\ At("find")
  /\ \/ \E t \in OpenTickets : ex' = [ex EXCEPT !.pc = "link", !.t = t]
     \/ Go(IF MayExist THEN "scan" ELSE "mark")
  /\ UNCHANGED <<pos, sky, order, job, used>>

ScanAll ==
  /\ At("scan")
  /\ IF OpenTickets = {} THEN Go("mark")
     ELSE \E t \in OpenTickets : ex' = [ex EXCEPT !.pc = "link", !.t = t]
  /\ UNCHANGED <<pos, sky, order, job, used>>

\* markStepPostAttempted writes back the whole context the handler was given.
MarkAttempt ==
  /\ At("mark")
  /\ job' = [job EXCEPT !.marker = TRUE, !.ticket = ex.ctx.ticket, !.items = ex.ctx.items]
  /\ Go("open")
  /\ UNCHANGED <<pos, sky, order, used>>

\* A POST may be refused (for good or not), take effect and lose its answer, or go on its way
\* after its client gave up.
Refused == (\E retryable \in BOOLEAN : Failed(retryable)) /\ UNCHANGED <<pos, sky, used>>
Lost    == Happens("lost") /\ (\E retryable \in BOOLEAN : Failed(retryable)) /\ UNCHANGED sky
Late(request) == Happens("late") /\ sky' = sky \cup {request} /\ Failed(TRUE) /\ UNCHANGED pos

Opened(t) == [pos EXCEPT ![t].open = TRUE]
PostTicket ==
  /\ At("open") /\ Made # Tickets
  /\ \/ /\ pos' = Opened(Fresh) /\ ex' = [ex EXCEPT !.pc = "link", !.t = Fresh]
        /\ UNCHANGED <<sky, order, job, used>>
     \/ Refused
     \/ pos' = Opened(Fresh) /\ Lost
     \/ Late(<<"ticket">>)

\* persistOmnivoreTicketId: links the order, and clears pos_injection_error whatever it holds.
LinkTicket ==
  /\ At("link")
  /\ order' = [order EXCEPT !.posId = ex.t, !.note = "none"]
  /\ Completed("ticket", ex.t)
  /\ UNCHANGED <<pos, sky, used>>

---------------------------------------------------------------------------
(* add_items                                                               *)

\* The guard of a later step: nothing to do after a skip, and a cancelled order leaves its
\* ticket to the staff.
GuardTicket(label, then, field) ==
  /\ At(label)
  /\ \/ /\ ex.ctx.ticket \in Skips /\ Completed(field, ex.ctx.ticket) /\ UNCHANGED used
        /\ order' = IF field = "paid" /\ ex.ctx.ticket = "cancelled" /\ order.note # "resolved"
                      THEN [order EXCEPT !.note = "none"] ELSE order
     \/ ex.ctx.ticket = None /\ Failed(FALSE) /\ UNCHANGED used
     \/ /\ ex.ctx.ticket \in Tickets /\ field = "paid" /\ ex.ctx.items \in Skips
        /\ Completed(field, "done") /\ UNCHANGED <<order, used>>
     \/ /\ ex.ctx.ticket \in Tickets /\ ~(field = "paid" /\ ex.ctx.items \in Skips)
        /\ \/ Stop = "resolved" /\ Completed(field, Stop) /\ UNCHANGED <<order, used>>
           \/ Stop = "cancelled" /\ Persist("needs_action") /\ Completed(field, Stop)
           \/ Stop = "go" /\ Go(then) /\ UNCHANGED <<job, order, used>>
  /\ UNCHANGED <<pos, sky>>
GuardItems == GuardTicket("guard2", "count", "items")

\* The items on the ticket are counted: all there is done, none is to do, some is for the staff.
CountItems ==
  /\ At("count")
  /\ LET n == pos[ex.ctx.ticket].items
     IN CASE n >= NumItems -> Completed("items", "done") /\ UNCHANGED <<order, used>>
          [] n = 0 -> Go("items") /\ UNCHANGED <<order, job, used>>
          [] OTHER         -> Persist("needs_action") /\ Dropped(FALSE)
  /\ UNCHANGED <<pos, sky>>

Loaded(t, n) == [pos EXCEPT ![t].items = @ + n]
PostItems ==
  /\ At("items")
  /\ \/ /\ pos' = Loaded(ex.ctx.ticket, NumItems) /\ Completed("items", "done")
        /\ UNCHANGED <<sky, order, used>>
     \/ Refused
     \/ pos' = Loaded(ex.ctx.ticket, NumItems) /\ Lost
     \/ Late(<<"items", ex.ctx.ticket>>)
     \/ /\ NumItems > 1 /\ Happens("partial")
        /\ pos' = Loaded(ex.ctx.ticket, 1) /\ Failed(TRUE) /\ UNCHANGED sky

---------------------------------------------------------------------------
(* create_payment                                                          *)

GuardPayment == GuardTicket("guard3", "totals", "paid")

\* clearInjectionStatus: not over "resolved".
Cleared == Noted("none")

\* getTicketTotals: a paid ticket is left alone; so is one with as many tenders as payments.
NothingToPay(t) == Pays = {} \/ (ReportsDue /\ Due(t) = 0)
ReadTotals ==
  /\ At("totals")
  /\ LET t == ex.ctx.ticket
     IN \/ NothingToPay(t) /\ order' = Cleared /\ Completed("paid", "done") /\ UNCHANGED used
        \/ /\ ~NothingToPay(t) /\ pos[t].count >= Len(Asked)
           /\ Persist("needs_action") /\ Completed("paid", "done")
        \/ /\ ~NothingToPay(t) /\ pos[t].count < Len(Asked)
           /\ ex' = [ex EXCEPT !.pc = "tender", !.left = Due(t)]
           /\ UNCHANGED <<order, job, used>>
  /\ UNCHANGED <<pos, sky>>

\* capPaymentsToDue: no payment exceeds what is left of the balance that was read.
Capped(i) == IF ReportsDue THEN Least(Asked[i], ex.left) ELSE Asked[i]

\* The POS refuses a tender above the balance (pos_failure).
Tendered(t, i, n) == [pos EXCEPT ![t].paid = @ + n, ![t].count = @ + 1, ![t].own[i] = @ + 1]
NextTender == [ex EXCEPT !.i = @ + 1, !.left = IF ReportsDue THEN @ - Capped(ex.i) ELSE @]
PostTender ==
  /\ At("tender") /\ ex.i \in Pays /\ Capped(ex.i) > 0
  /\ LET t == ex.ctx.ticket
         n == Capped(ex.i)
     IN \/ /\ n <= Due(t) /\ pos' = Tendered(t, ex.i, n) /\ ex' = NextTender
           /\ UNCHANGED <<sky, order, job, used>>
        \/ Refused
        \/ n <= Due(t) /\ pos' = Tendered(t, ex.i, n) /\ Lost
        \/ Late(<<"tender", t, ex.i, n>>)

\* A payment that no longer fits is not posted.
SkipTender ==
  /\ At("tender") /\ ex.i \in Pays /\ Capped(ex.i) = 0
  /\ ex' = [ex EXCEPT !.i = @ + 1]
  /\ UNCHANGED <<pos, sky, order, job, used>>

\* Wrong variant, for the tests of the properties: the balance is not looked at.
ClearAlways ==
  /\ At("tender") /\ ex.i \notin Pays
  /\ order' = Cleared /\ Completed("paid", "done")
  /\ UNCHANGED <<pos, sky, used>>

\* The balance after the posts; a read that fails counts as no balance.
ReadBalance ==
  /\ At("tender") /\ ex.i \notin Pays
  /\ \/ /\ ReportsDue /\ Due(ex.ctx.ticket) > 0 /\ Persist("needs_action")
     \/ ~ReportsDue /\ order' = Cleared /\ UNCHANGED used
     \/ Due(ex.ctx.ticket) = 0 /\ order' = Cleared /\ UNCHANGED used
     \/ Happens("status") /\ order' = Cleared
  /\ Completed("paid", "done")
  /\ UNCHANGED <<pos, sky>>

---------------------------------------------------------------------------
(* The world                                                               *)

\* A late request takes effect, if the POS still takes it.
Land ==
  /\ \E r \in sky :
       /\ sky' = sky \ {r}
       /\ \/ r = <<"ticket">> /\ Made # Tickets /\ pos' = Opened(Fresh)
          \/ \E t \in Tickets : r = <<"items", t>> /\ pos' = Loaded(t, NumItems)
          \/ \E t \in Tickets : \E i \in Pays, n \in 1 .. Due(t) :
               r = <<"tender", t, i, n>> /\ pos' = Tendered(t, i, n)
  /\ UNCHANGED <<order, job, ex, used>>

\* retry_dead_letter_job: the step starts over with no attempts counted.
RetryDeadLetter ==
  /\ job.status = "dead" /\ Happens("retry")
  /\ job' = [job EXCEPT !.status = "queued", !.attempts = 0]
  /\ UNCHANGED <<pos, sky, order, ex>>

\* MCM cancels the order; the staff resolves an order that shows an error.
Cancel ==
  /\ ~order.cancelled /\ Happens("cancel")
  /\ order' = [order EXCEPT !.cancelled = TRUE]
  /\ UNCHANGED <<pos, sky, job, ex>>
Resolve ==
  /\ order.note \notin {"none", "resolved"} /\ Happens("resolve")
  /\ order' = [order EXCEPT !.note = "resolved"]
  /\ UNCHANGED <<pos, sky, job, ex>>

\* At the POS the staff loads what is missing, takes a payment, or closes a ticket.
StaffActs ==
  /\ Happens("staff")
  /\ \E t \in OpenTickets :
       \/ pos[t].items \in 1 .. NumItems - 1 /\ pos' = [pos EXCEPT ![t].items = NumItems]
       \/ Due(t) > 0 /\ pos' = [pos EXCEPT ![t].paid = @ + 1, ![t].count = @ + 1]
  /\ UNCHANGED <<sky, order, job, ex>>
StaffCloses ==
  /\ Happens("close")
  /\ \E t \in OpenTickets : pos' = [pos EXCEPT ![t].open = FALSE]
  /\ UNCHANGED <<sky, order, job, ex>>

Next ==
  \/ Enqueue \/ ReadContext \/ Crash \/ CallFails
  \/ GuardCreate \/ FindByName \/ ScanAll \/ MarkAttempt \/ PostTicket \/ LinkTicket
  \/ GuardItems \/ CountItems \/ PostItems
  \/ GuardPayment \/ ReadTotals \/ PostTender \/ SkipTender \/ ReadBalance
  \/ Land \/ RetryDeadLetter \/ Cancel \/ Resolve \/ StaffActs \/ StaffCloses

Spec == Init /\ [][Next]_vars

---------------------------------------------------------------------------
(* Properties                                                              *)

\* What was lost, retried, crashed or half done is never done again: one ticket, the items
\* on it once, and a single payment tendered once (create-order.ts:28-32, add-items.ts:19-22,
\* create-payment.ts:57).  Left out of the first: an order whose ticket has a name of its own
\* and is not looked for (create-order.ts:52), a request that takes effect after its client
\* gave up, a context that could not be read, and a ticket the staff closed, which no search
\* finds.
NothingTwice ==
  /\ job.search # "never" /\ {"late", "blind", "close"} \cap used = {} => Cardinality(Made) <= 1
  /\ "late" \notin used => \A t \in Made : pos[t].items <= NumItems
  /\ "late" \notin used /\ Len(Asked) = 1 => \A t \in Made : pos[t].own[1] <= 1

\* A job that completed and shows the staff nothing has its items on the linked ticket and no
\* balance left (create-payment.ts:59-62), unless the balance could not be read or a status
\* not be written.
SilentMeansSettled ==
  job.status = "completed" /\ order.note = "none" /\ job.ticket \in Tickets
    /\ "status" \notin used /\ "late" \notin used /\ ReportsDue
  => /\ order.posId = job.ticket /\ pos[job.ticket].items = NumItems
     /\ Pays # {} => Due(job.ticket) = 0

\* Does not hold.  Any lost answer may be retried without a second ticket being opened
\* (create-order.ts:28-32): with a name that does not identify the order nothing is looked
\* for, and the retry opens another (omnivore-create-order.test.ts:231-240).
OneTicketWhateverItsName ==
  {"late", "blind", "close"} \cap used = {} => Cardinality(Made) <= 1

\* Does not hold.  What the staff resolved by hand the engine does not touch again
\* (injection-status.ts:16); LinkTicket clears the state whatever it is.
ResolvedIsLeftAlone == [][order.note = "resolved" => order'.note = "resolved"]_vars
=============================================================================
