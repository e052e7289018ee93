-------------------------- MODULE Injections_proofs --------------------------
(***************************************************************************)
(* Proofs about the injection of an order: into Omnivore (OmnivoreOrder,   *)
(* which this module extends), nothing is posted twice and a job that      *)
(* completes in silence has settled its ticket; into Clover (CloverOrder,  *)
(* an instance here, which shares with the other its constants and         *)
(* variables of one name), a push opens one order and leaves its lines in  *)
(* it.                                                                     *)
(***************************************************************************)
EXTENDS OmnivoreOrder, FiniteSetTheorems, TLAPS

CONSTANTS Ids, Versions, Fee, BulkMax, PushFaults  \* CloverOrder
VARIABLES clover, row                              \* CloverOrder

Clover == INSTANCE CloverOrder WITH Faults <- PushFaults

---------------------------------------------------------------------------
(* OmnivoreOrder.                                                          *)

\* What the constants are: a payload, at least one attempt, and tickets that are
\* told from the labels a step leaves instead of one.
Payload ==
  /\ NumItems \in Nat /\ Asked \in Seq(Nat) /\ MaxAttempts \in Nat \ {0} /\ ReportsDue \in BOOLEAN
  /\ Tickets \cap (Skips \cup {None}) = {} /\ None \notin Skips \cup {"done"}

TicketType == [open : BOOLEAN, items : Nat, paid : Nat, count : Nat, own : [Pays -> Nat]]
SkyType    == {<<"ticket">>} \cup ({"items"} \X Tickets) \cup ({"tender"} \X Tickets \X Pays \X Nat)
OrderType  == [cancelled : BOOLEAN, posId : Tickets \cup {None}, note : Notes]
Statuses   == {"absent", "queued", "running", "dead", "completed"}
JobType    == [status : Statuses, step : 1 .. 3, attempts : 0 .. MaxAttempts, marker : BOOLEAN,
               ticket : Tickets \cup Skips \cup {None}, items : Skips \cup {"done", None},
               search : Searches]
CtxType    == [marker : BOOLEAN, ticket : Tickets \cup Skips \cup {None},
               items : Skips \cup {"done", None}]
Pcs        == {"idle", "next", "find", "scan", "mark", "open", "link", "count", "items",
               "totals", "tender", "guard1", "guard2", "guard3"}
ExType     == [pc : Pcs, ctx : CtxType, t : Tickets \cup {None}, left : Int, i : Nat]

Typed ==
  /\ pos \in [Tickets -> TicketType] /\ sky \subseteq SkyType /\ order \in OrderType
  /\ job \in JobType /\ ex \in ExType /\ used \subseteq Kinds

\* The places of each step.
Creates == {"guard1", "find", "scan", "mark", "open", "link"}
Loads   == {"guard2", "count", "items"}
Tenders == {"guard3", "totals", "tender"}

\* What the places say of the job: it runs while there is an execution; each step
\* has its places; the outputs of the steps that are done are there; and what the
\* execution was handed is the job's context, or nothing.
Control ==
  /\ (job.status = "running") <=> (ex.pc # "idle")
  /\ job.status \in {"absent", "queued", "running"} => job.attempts < MaxAttempts
  /\ job.status = "completed" => job.step = 3
  /\ ex.pc \in Creates => job.step = 1
  /\ ex.pc \in Loads => job.step = 2
  /\ ex.pc \in Tenders => job.step = 3
  /\ job.step = 1 => job.ticket = None /\ job.items = None
  /\ job.step \in {2, 3} => job.ticket \in Tickets \cup Skips
  /\ job.step = 2 => job.items = None
  /\ job.step = 3 => job.items \in Skips \cup {"done"}
  /\ ex.pc \notin {"idle", "next"} =>
       \/ ex.ctx.ticket = job.ticket /\ ex.ctx.items = job.items
       \/ ex.ctx.ticket = None /\ ex.ctx.items = None
  /\ ex.pc = "link" => ex.t \in Tickets
  /\ ex.pc \in {"count", "items", "totals", "tender"} => ex.ctx.ticket \in Tickets
  /\ ex.pc \in {"totals", "tender"} => job.items = "done"
  /\ job.step \in {2, 3} /\ job.ticket \in Tickets => order.posId = job.ticket

LEMMA IdleType == Idle \in ExType /\ Idle.pc = "idle" /\ Idle.ctx = NoContext /\ Idle.i = 1 /\ Idle.t = None
  BY DEF Idle, ExType, Pcs, CtxType, NoContext

LEMMA NotedType ==
  ASSUME Typed, NEW note \in Notes
  PROVE  /\ Noted(note) \in OrderType /\ Noted(note).posId = order.posId
         /\ Noted(note).cancelled = order.cancelled
         /\ Noted(note).note = IF order.note = "resolved" THEN "resolved" ELSE note
  BY DEF Typed, OrderType, Notes, Noted

\* The fields of the job that outlive an attempt.
Kept == /\ job'.step = job.step /\ job'.marker = job.marker
        /\ job'.ticket = job.ticket /\ job'.items = job.items

LEMMA DroppedEffect ==
  ASSUME Payload, Typed, Control, ex.pc # "idle", NEW r \in BOOLEAN, Dropped(r)
  PROVE  /\ job' \in JobType /\ Kept /\ ex' = Idle /\ job'.status \in {"queued", "dead"}
         /\ job'.status = "queued" => job'.attempts < MaxAttempts
  <1>1. job \in JobType /\ job.status = "running" /\ job.attempts < MaxAttempts
        /\ job.attempts \in Nat /\ MaxAttempts \in Nat
    BY DEF Typed, Control, Payload, JobType
  <1> DEFINE s == IF WillRetry(r) THEN "queued" ELSE "dead"
  <1>2. job' = [job EXCEPT !.status = s, !.attempts = job.attempts + 1] /\ ex' = Idle BY DEF Dropped
  <1>3. s \in {"queued", "dead"} /\ (s = "queued" => job.attempts + 1 < MaxAttempts)
    BY DEF WillRetry
  <1>4. job.attempts + 1 \in 0 .. MaxAttempts BY <1>1
  <1> HIDE DEF s
  <1> QED BY <1>1, <1>2, <1>3, <1>4 DEF JobType, Statuses, Kept

LEMMA FailedEffect ==
  ASSUME Payload, Typed, Control, ex.pc # "idle", NEW r \in BOOLEAN, Failed(r)
  PROVE  /\ job' \in JobType /\ Kept /\ ex' = Idle /\ job'.status \in {"queued", "dead"}
         /\ job'.status = "queued" => job'.attempts < MaxAttempts
         /\ order' \in OrderType /\ order'.note # "none" /\ order'.posId = order.posId
  <1>1. FailureNote(r) \in Notes /\ FailureNote(r) # "none" BY DEF FailureNote, Notes
  <1> QED BY <1>1, DroppedEffect, NotedType DEF Failed

LEMMA CompletedEffect ==
  ASSUME Payload, Typed, Control, NEW field \in {"ticket", "items", "paid"}, NEW out,
         field = "ticket" => out \in Tickets \cup Skips \cup {None},
         field = "items" => out \in Skips \cup {"done", None}, Completed(field, out)
  PROVE  /\ job' \in JobType
         /\ job.step = 3 =>
              /\ Kept /\ job'.status = "completed" /\ ex' = Idle
         /\ job.step # 3 =>
              /\ job'.step = job.step + 1 /\ job'.status = job.status /\ job'.attempts = 0
              /\ job'.marker = job.marker
              /\ job'.ticket = IF field = "ticket" THEN out ELSE job.ticket
              /\ job'.items = IF field = "items" THEN out ELSE job.items
              /\ ex' = [ex EXCEPT !.pc = "next"]
  <1>1. job \in JobType BY DEF Typed
  <1>2. CASE job.step = 3 BY <1>1, <1>2 DEF Completed, JobType, Statuses, Kept
  <1>3. CASE job.step # 3
    <2> DEFINE t == IF field = "ticket" THEN out ELSE job.ticket
               i == IF field = "items" THEN out ELSE job.items
    <2>1. job' = [job EXCEPT !.step = job.step + 1, !.attempts = 0, !.ticket = t, !.items = i]
          /\ ex' = [ex EXCEPT !.pc = "next"]
      BY <1>3 DEF Completed, Go
    <2>2. t \in Tickets \cup Skips \cup {None} /\ i \in Skips \cup {"done", None}
      BY <1>1 DEF JobType
    <2>3. job.step + 1 \in 1 .. 3 /\ 0 \in 0 .. MaxAttempts BY <1>1, <1>3 DEF JobType, Payload
    <2> HIDE DEF t, i
    <2>4. job' \in JobType /\ job'.ticket = t /\ job'.items = i /\ job'.step = job.step + 1
          /\ job'.attempts = 0 /\ job'.marker = job.marker /\ job'.status = job.status
      BY <1>1, <2>1, <2>2, <2>3 DEF JobType
    <2> QED BY <1>3, <2>1, <2>4 DEF t, i
  <1> QED BY <1>2, <1>3

LEMMA GoEffect ==
  ASSUME Typed, NEW pc \in Pcs, Go(pc)
  PROVE  /\ ex' \in ExType /\ ex'.pc = pc /\ ex'.ctx = ex.ctx /\ ex'.t = ex.t /\ ex'.i = ex.i
  BY DEF Typed, ExType, Go

LEMMA PersistEffect ==
  ASSUME Typed, NEW note \in Notes, Persist(note)
  PROVE  /\ order' \in OrderType /\ order'.posId = order.posId /\ used' \subseteq Kinds
         /\ "status" \in used' \/ order'.note = IF order.note = "resolved" THEN "resolved" ELSE note
  BY NotedType DEF Typed, Persist, Happens

\* The POS.
LEMMA FreshType == ASSUME Made # Tickets PROVE Fresh \in Tickets /\ Fresh \notin Made
  BY DEF Fresh, Made

LEMMA OpenedType ==
  ASSUME Typed, NEW t \in Tickets, pos' = Opened(t)
  PROVE  /\ pos' \in [Tickets -> TicketType] /\ pos'[t] = [pos[t] EXCEPT !.open = TRUE]
         /\ \A u \in Tickets \ {t} : pos'[u] = pos[u]
  BY DEF Typed, Opened, TicketType

LEMMA LoadedType ==
  ASSUME Typed, NEW t \in Tickets, NEW n \in Nat, pos' = Loaded(t, n)
  PROVE  /\ pos' \in [Tickets -> TicketType] /\ pos'[t] = [pos[t] EXCEPT !.items = pos[t].items + n]
         /\ \A u \in Tickets \ {t} : pos'[u] = pos[u]
  <1>1. pos[t] \in TicketType /\ pos[t].items + n \in Nat BY DEF Typed, TicketType
  <1>2. [pos[t] EXCEPT !.items = pos[t].items + n] \in TicketType BY <1>1 DEF TicketType
  <1> QED BY <1>2 DEF Typed, Loaded

LEMMA TenderedType ==
  ASSUME Typed, NEW t \in Tickets, NEW i \in Pays, NEW n \in Nat, pos' = Tendered(t, i, n)
  PROVE  /\ pos' \in [Tickets -> TicketType]
         /\ pos'[t].open = pos[t].open /\ pos'[t].items = pos[t].items
         /\ pos'[t].paid = pos[t].paid + n /\ pos'[t].count = pos[t].count + 1
         /\ pos'[t].own = [pos[t].own EXCEPT ![i] = pos[t].own[i] + 1]
         /\ \A u \in Tickets \ {t} : pos'[u] = pos[u]
  <1> DEFINE o == [pos[t].own EXCEPT ![i] = pos[t].own[i] + 1]
             p == [pos[t] EXCEPT !.paid = pos[t].paid + n, !.count = pos[t].count + 1, !.own = o]
  <1>1. pos[t] \in TicketType BY DEF Typed
  <1>2. o \in [Pays -> Nat] /\ pos[t].paid + n \in Nat /\ pos[t].count + 1 \in Nat
    BY <1>1 DEF TicketType
  <1>3. pos' = [pos EXCEPT ![t] = p] BY DEF Tendered, Typed, TicketType
  <1> HIDE DEF o
  <1>4. p \in TicketType /\ p.open = pos[t].open /\ p.items = pos[t].items
        /\ p.paid = pos[t].paid + n /\ p.count = pos[t].count + 1 /\ p.own = o
    BY <1>1, <1>2 DEF TicketType
  <1> HIDE DEF p
  <1>5. pos' \in [Tickets -> TicketType] /\ pos'[t] = p /\ \A u \in Tickets \ {t} : pos'[u] = pos[u]
    BY <1>3, <1>4 DEF Typed
  <1> QED BY <1>4, <1>5 DEF o

\* A ticket that a search would not find, or that is not searched for.
Uncertain == \/ used \cap {"late", "blind", "close"} # {}
             \/ job.status # "absent" /\ job.search = "never"

\* One ticket: none is opened while there may be one, for the mark written before
\* the first attempt to open outlives every failure.
OneTicket == ~Uncertain =>
  /\ sky = {}
  /\ \A t \in Tickets : pos[t].open \/ pos[t] = NoTicket
  /\ \A t, u \in Tickets : pos[t].open /\ pos[u].open => t = u
  /\ \A t \in Tickets : pos[t].open => job.marker
  /\ ex.pc \in {"guard1", "find"} => ex.ctx.marker = job.marker
  /\ ex.pc \in {"mark", "open"} => \A t \in Tickets : ~pos[t].open
  /\ ex.pc = "open" => job.marker
  /\ ex.pc = "link" => pos[ex.t].open
  /\ job.ticket \in Tickets => pos[job.ticket].open

\* The items and the only payment of a ticket: nothing is posted before it is seen
\* to be missing, and nobody but the job posts it.
Once == "late" \notin used =>
  /\ sky = {}
  /\ \A t \in Tickets : pos[t].items <= NumItems
  /\ ex.pc = "items" => pos[ex.ctx.ticket].items = 0
  /\ Len(Asked) = 1 => \A t \in Tickets : pos[t].own[1] <= 1 /\ pos[t].own[1] <= pos[t].count
  /\ Len(Asked) = 1 /\ ex.pc = "tender" /\ ex.i \in Pays => pos[ex.ctx.ticket].own[1] = 0

\* What silence says: items that are done are all on the ticket, a skip after the
\* ticket was opened is shown, and a job completes in silence on a ticket that is
\* paid.
Settled == used \cap {"late", "status"} = {} =>
  /\ job.ticket \in Tickets /\ job.items = "done" => pos[job.ticket].items = NumItems
  /\ job.step = 3 /\ job.ticket \in Tickets /\ job.items \in Skips => order.note # "none"
  /\ job.status = "completed" /\ order.note = "none" /\ job.ticket \in Tickets /\ ReportsDue
     /\ Pays # {} => Due(job.ticket) = 0

LEMMA OneTicketSays ==
  ASSUME Typed, OneTicket PROVE ~Uncertain => Cardinality(Made) <= 1
  <1> SUFFICES ASSUME ~Uncertain PROVE Cardinality(Made) <= 1 OBVIOUS
  <1>1. \A t, u \in Made : t = u BY DEF OneTicket, Made
  <1>2. CASE Made = {} BY <1>2, FS_EmptySet
  <1>3. CASE Made # {}
    <2>1. PICK t \in Made : TRUE BY <1>3
    <2>2. Made = {t} BY <1>1, <2>1
    <2>3. Cardinality(Made) = 1 BY <2>2, FS_Singleton
    <2> QED BY <2>3
  <1> QED BY <1>2, <1>3

---------------------------------------------------------------------------
(* Types and control.                                                      *)

\* What a step that drops the execution, moves it, or ends a step of the job does
\* to the control; each may write the note of the order and what happened.
Noting == order' \in OrderType /\ order'.posId = order.posId /\ used' \subseteq Kinds
PosKept == pos' \in [Tickets -> TicketType] /\ sky' \subseteq SkyType

LEMMA UnchangedNotes == ASSUME Typed, UNCHANGED <<order, used>> PROVE Noting
  BY DEF Typed, Noting

LEMMA DropSteady ==
  ASSUME Payload, Typed, Control, ex.pc # "idle", PosKept, Noting,
         job' \in JobType /\ Kept /\ ex' = Idle /\ job'.status \in {"queued", "dead"},
         job'.status = "queued" => job'.attempts < MaxAttempts
  PROVE  Typed' /\ Control'
  <1>1. Typed' BY IdleType DEF Typed, PosKept, Noting
  <1>2. Control'
    BY IdleType DEF Control, Kept, Noting, Creates, Loads, Tenders
  <1> QED BY <1>1, <1>2

LEMMA FailSteady ==
  ASSUME Payload, Typed, Control, ex.pc # "idle", PosKept, used' \subseteq Kinds,
         NEW r \in BOOLEAN, Failed(r)
  PROVE  Typed' /\ Control'
  <1>1. Noting BY FailedEffect DEF Noting
  <1> QED BY <1>1, FailedEffect, DropSteady

LEMMA GoSteady ==
  ASSUME Payload, Typed, Control, ex.pc \notin {"idle", "next"}, PosKept, Noting, job' = job,
         ex' \in ExType, ex'.ctx = ex.ctx, ex'.pc \notin {"idle", "next"},
         \/ ex.pc \in Creates /\ ex'.pc \in Creates
         \/ ex.pc \in Loads /\ ex'.pc \in Loads
         \/ ex.pc \in Tenders /\ ex'.pc \in Tenders,
         ex'.pc = "link" => ex'.t \in Tickets,
         ex'.pc \in {"count", "items", "totals", "tender"} => ex.ctx.ticket \in Tickets,
         ex'.pc \in {"totals", "tender"} => job.items = "done"
  PROVE  Typed' /\ Control'
  <1>1. Typed' BY DEF Typed, PosKept, Noting
  <1>2. Control' BY DEF Control, Noting, Creates, Loads, Tenders
  <1> QED BY <1>1, <1>2

LEMMA DoneSteady ==
  ASSUME Payload, Typed, Control, ex.pc \notin {"idle", "next"}, PosKept,
         order' \in OrderType, used' \subseteq Kinds,
         NEW field \in {"ticket", "items", "paid"}, NEW out, Completed(field, out),
         job.step = 1 => field = "ticket" /\ out \in Tickets \cup Skips,
         job.step = 2 => field = "items" /\ out \in Skips \cup {"done"},
         job.step = 3 => field = "paid",
         out \in Tickets /\ field = "ticket" => order'.posId = out,
         field = "ticket" \/ order'.posId = order.posId
  PROVE  Typed' /\ Control'
  <1>1. job.step \in 1 .. 3 /\ ex \in ExType BY DEF Typed, JobType
  <1>2. CASE job.step = 3
    <2>1. job' \in JobType /\ Kept /\ job'.status = "completed" /\ ex' = Idle
      BY <1>2, CompletedEffect
    <2>2. Typed' BY <2>1, IdleType DEF Typed, PosKept
    <2>3. Control' BY <1>2, <2>1, IdleType DEF Control, Kept, Creates, Loads, Tenders
    <2> QED BY <2>2, <2>3
  <1>3. CASE job.step # 3
    <2>1. /\ job' \in JobType
          /\ job'.step = job.step + 1 /\ job'.status = job.status /\ job'.attempts = 0
          /\ job'.ticket = IF field = "ticket" THEN out ELSE job.ticket
          /\ job'.items = IF field = "items" THEN out ELSE job.items
          /\ ex' = [ex EXCEPT !.pc = "next"]
      BY <1>1, <1>3, CompletedEffect
    <2>2. ex' \in ExType /\ ex'.pc = "next" BY <1>1, <2>1 DEF ExType, Pcs
    <2>3. Typed' BY <2>1, <2>2 DEF Typed, PosKept
    <2>4. MaxAttempts > 0 BY DEF Payload
    <2>5. job.status = "running" BY DEF Control
    <2>6. CASE job.step = 1
      <3>1. job'.step = 2 /\ job'.ticket = out /\ job'.items = None /\ out \in Tickets \cup Skips
            /\ (out \in Tickets => order'.posId = out)
        BY <2>1, <2>6 DEF Control
      <3> QED BY <2>1, <2>2, <2>3, <2>4, <2>5, <3>1 DEF Control, Creates, Loads, Tenders
    <2>7. CASE job.step = 2
      <3>1. job'.step = 3 /\ job'.ticket = job.ticket /\ job'.items = out
            /\ out \in Skips \cup {"done"} /\ order'.posId = order.posId
        BY <2>1, <2>7
      <3>2. job.ticket \in Tickets \cup Skips /\ (job.ticket \in Tickets => order.posId = job.ticket)
        BY <2>7 DEF Control
      <3> QED BY <2>1, <2>2, <2>3, <2>4, <2>5, <3>1, <3>2 DEF Control, Creates, Loads, Tenders
    <2> QED BY <1>1, <1>3, <2>6, <2>7
  <1> QED BY <1>2, <1>3

LEMMA StopType == Stop \in Skips \cup {"go"}
  BY DEF Stop, Skips

\* The guard of add_items and of create_payment.
LEMMA GuardSteady ==
  ASSUME Payload, Typed, Control,
         NEW label \in {"guard2", "guard3"}, NEW then \in {"count", "totals"},
         NEW field \in {"items", "paid"}, GuardTicket(label, then, field),
         label = "guard2" => then = "count" /\ field = "items",
         label = "guard3" => then = "totals" /\ field = "paid"
  PROVE  Typed' /\ Control'
  <1>0. /\ ex.pc = label /\ pos' = pos /\ sky' = sky /\ PosKept
        /\ job.step = IF label = "guard2" THEN 2 ELSE 3
        /\ order \in OrderType /\ used \subseteq Kinds
    BY DEF GuardTicket, At, PosKept, Typed, Control, Loads, Tenders
  <1>1. CASE /\ ex.ctx.ticket \in Skips /\ Completed(field, ex.ctx.ticket) /\ used' = used
             /\ order' = order \/ order' = [order EXCEPT !.note = "none"]
    <2>1. Noting BY <1>0, <1>1 DEF Noting, OrderType, Notes
    <2> QED BY <1>0, <1>1, <2>1, DoneSteady DEF Noting
  <1>2. CASE Failed(FALSE) /\ UNCHANGED used
    BY <1>0, <1>2, FailSteady
  <1>3. CASE field = "paid" /\ Completed(field, "done") /\ UNCHANGED <<order, used>>
    BY <1>0, <1>3, DoneSteady
  <1>4. CASE Stop = "resolved" /\ Completed(field, Stop) /\ UNCHANGED <<order, used>>
    BY <1>0, <1>4, DoneSteady DEF Skips
  <1>5. CASE Stop = "cancelled" /\ Persist("needs_action") /\ Completed(field, Stop)
    <2>1. order' \in OrderType /\ order'.posId = order.posId /\ used' \subseteq Kinds
      BY <1>5, PersistEffect DEF Notes
    <2> QED BY <1>0, <1>5, <2>1, DoneSteady DEF Skips
  <1>6. CASE /\ ex.ctx.ticket \in Tickets /\ ~(field = "paid" /\ ex.ctx.items \in Skips)
             /\ Go(then) /\ UNCHANGED <<job, order, used>>
    <2>1. ex' \in ExType /\ ex'.pc = then /\ ex'.ctx = ex.ctx BY <1>6, GoEffect DEF Pcs
    <2>2. Noting BY <1>6, UnchangedNotes
    <2>3. then = "totals" => job.items = "done"
      <3> SUFFICES ASSUME then = "totals" PROVE job.items = "done" OBVIOUS
      <3>1. label = "guard3" /\ field = "paid" /\ job.step = 3 BY <1>0
      <3>2. ex.ctx.ticket # None BY <1>6 DEF Payload
      <3>3. ex.ctx.items = job.items BY <1>0, <3>1, <3>2 DEF Control
      <3> QED BY <1>6, <3>1, <3>3 DEF Control
    <2> QED BY <1>0, <1>6, <2>1, <2>2, <2>3, GoSteady DEF Loads, Tenders
  <1> QED BY <1>1, <1>2, <1>3, <1>4, <1>5, <1>6 DEF GuardTicket

LEMMA DueType == ASSUME Typed, NEW t \in Tickets PROVE Due(t) \in Int
  BY DEF Typed, TicketType, Due

LEMMA CappedType ==
  ASSUME Payload, Typed, NEW i \in Pays PROVE Capped(i) \in Int
  <1>1. Asked[i] \in Nat /\ ex.left \in Int BY DEF Payload, Pays, Typed, ExType
  <1> QED BY <1>1 DEF Capped, Least

LEMMA SteadyNext ==
  ASSUME Payload, Typed, Control, [Next]_vars PROVE Typed' /\ Control'
  <1>0. /\ pos \in [Tickets -> TicketType] /\ sky \subseteq SkyType /\ order \in OrderType
        /\ job \in JobType /\ ex \in ExType /\ used \subseteq Kinds
    BY DEF Typed
  <1>1. CASE UNCHANGED vars
    BY <1>1 DEF vars, Typed, Control
  <1>2. CASE Enqueue
    <2>1. job' \in JobType /\ Kept /\ job'.status = "queued" /\ job'.attempts = job.attempts
      <3>1. PICK s \in Searches : job' = [job EXCEPT !.status = "queued", !.search = s]
        BY <1>2 DEF Enqueue
      <3> QED BY <1>0, <3>1 DEF JobType, Statuses, Kept
    <2> QED BY <1>2, <2>1 DEF Enqueue, Typed, Control, Kept
  <1>3. CASE ReadContext
    <2> DEFINE c == [marker |-> job.marker, ticket |-> job.ticket, items |-> job.items]
    <2>1. c \in CtxType /\ c.ticket = job.ticket /\ c.items = job.items
      BY <1>0 DEF CtxType, JobType
    <2>2. /\ job' \in JobType /\ Kept /\ job'.status = "running" /\ job'.attempts = job.attempts
      BY <1>0, <1>3 DEF ReadContext, JobType, Statuses, Kept
    <2>3. job.status \in {"running", "queued"} BY <1>3 DEF ReadContext, At, Control
    <2> DEFINE pc == First[job.step]
    <2>4. /\ pc \in {"guard1", "guard2", "guard3"}
          /\ pc = "guard1" => job.step = 1
          /\ pc = "guard2" => job.step = 2
          /\ pc = "guard3" => job.step = 3
      <3>1. job.step \in {1, 2, 3} BY <1>0 DEF JobType
      <3> QED BY <3>1 DEF First
    <2>5. \/ ex' = [Idle EXCEPT !.pc = pc, !.ctx = c]
          \/ ex' = [Idle EXCEPT !.pc = pc]
      BY <1>3 DEF ReadContext
    <2> HIDE DEF pc, c
    <2>6. /\ ex' \in ExType /\ ex'.pc = pc /\ ex'.ctx \in {c, NoContext}
      BY <2>1, <2>4, <2>5, IdleType DEF ExType, Pcs
    <2>7. NoContext.ticket = None /\ NoContext.items = None BY DEF NoContext
    <2>8. used' \subseteq Kinds /\ UNCHANGED <<pos, sky, order>>
      BY <1>0, <1>3 DEF ReadContext, Happens
    <2>9. Typed' BY <1>0, <2>2, <2>6, <2>8 DEF Typed
    <2>10. Control'
      BY <2>1, <2>2, <2>3, <2>4, <2>6, <2>7, <2>8 DEF Control, Kept, Creates, Loads, Tenders
    <2> QED BY <2>9, <2>10
  <1>4. CASE Crash
    <2>1. Noting /\ PosKept BY <1>0, <1>4 DEF Crash, Happens, Noting, PosKept
    <2>2. job' \in JobType /\ Kept /\ job'.status = "queued" /\ job'.attempts = job.attempts
      BY <1>0, <1>4 DEF Crash, JobType, Statuses, Kept
    <2>3. job.attempts < MaxAttempts BY <1>4 DEF Crash, Control
    <2> QED BY <1>4, <2>1, <2>2, <2>3, DropSteady DEF Crash
  <1>5. CASE CallFails
    BY <1>0, <1>5, FailSteady DEF CallFails, PosKept
  <1>6. CASE GuardCreate
    <2>1. CASE Stop = "go"
      <3>1. ex' \in ExType /\ ex'.pc \in {"find", "mark"} /\ ex'.ctx = ex.ctx
        BY <1>6, <2>1, GoEffect DEF GuardCreate, Look, Pcs
      <3> QED BY <1>0, <1>6, <2>1, <3>1, UnchangedNotes, GoSteady DEF GuardCreate, At, PosKept, Creates
    <2>2. CASE Stop # "go"
      <3>1. Stop \in Skips BY <2>2, StopType
      <3>2. job.step = 1 BY <1>6 DEF GuardCreate, At, Control, Creates
      <3>3. Stop \notin Tickets BY <3>1 DEF Payload
      <3> QED BY <1>0, <1>6, <2>2, <3>1, <3>2, <3>3, DoneSteady DEF GuardCreate, At, PosKept
    <2> QED BY <2>1, <2>2
  <1>7. CASE FindByName
    <2>1. CASE \E t \in OpenTickets : ex' = [ex EXCEPT !.pc = "link", !.t = t]
      <3>1. PICK t \in Tickets : ex' = [ex EXCEPT !.pc = "link", !.t = t]
        BY <2>1 DEF OpenTickets, Made
      <3>2. ex' \in ExType /\ ex'.pc = "link" /\ ex'.t = t /\ ex'.ctx = ex.ctx
        BY <1>0, <3>1 DEF ExType, Pcs
      <3> QED BY <1>0, <1>7, <3>2, UnchangedNotes, GoSteady DEF FindByName, At, PosKept, Creates
    <2>2. CASE \E pc \in {"scan", "mark"} : Go(pc)
      <3>1. ex' \in ExType /\ ex'.pc \in {"scan", "mark"} /\ ex'.ctx = ex.ctx
        BY <2>2, GoEffect DEF Pcs
      <3> QED BY <1>0, <1>7, <3>1, UnchangedNotes, GoSteady DEF FindByName, At, PosKept, Creates
    <2> QED BY <1>7, <2>1, <2>2 DEF FindByName
  <1>8. CASE ScanAll
    <2>1. CASE Go("mark")
      <3>1. ex' \in ExType /\ ex'.pc = "mark" /\ ex'.ctx = ex.ctx BY <2>1, GoEffect DEF Pcs
      <3> QED BY <1>0, <1>8, <3>1, UnchangedNotes, GoSteady DEF ScanAll, At, PosKept, Creates
    <2>2. CASE \E t \in OpenTickets : ex' = [ex EXCEPT !.pc = "link", !.t = t]
      <3>1. PICK t \in Tickets : ex' = [ex EXCEPT !.pc = "link", !.t = t]
        BY <2>2 DEF OpenTickets, Made
      <3>2. ex' \in ExType /\ ex'.pc = "link" /\ ex'.t = t /\ ex'.ctx = ex.ctx
        BY <1>0, <3>1 DEF ExType, Pcs
      <3> QED BY <1>0, <1>8, <3>2, UnchangedNotes, GoSteady DEF ScanAll, At, PosKept, Creates
    <2> QED BY <1>8, <2>1, <2>2 DEF ScanAll
  <1>9. CASE MarkAttempt
    <2>1. ex.pc = "mark" /\ job.step = 1 BY <1>9 DEF MarkAttempt, At, Control, Creates
    <2>2. ex.ctx.ticket = None /\ ex.ctx.items = None BY <2>1 DEF Control
    <2>3. /\ job' = [job EXCEPT !.marker = TRUE, !.ticket = None, !.items = None]
      BY <1>9, <2>2 DEF MarkAttempt
    <2>4. /\ job' \in JobType /\ job'.step = 1 /\ job'.ticket = None /\ job'.items = None
          /\ job'.status = job.status /\ job'.attempts = job.attempts
      BY <1>0, <2>1, <2>3 DEF JobType
    <2>5. ex' \in ExType /\ ex'.pc = "open" /\ ex'.ctx = ex.ctx
      BY <1>9, GoEffect DEF MarkAttempt, Pcs
    <2>6. Typed' BY <1>0, <1>9, <2>4, <2>5 DEF MarkAttempt, Typed
    <2>7. Control' BY <1>9, <2>1, <2>2, <2>4, <2>5 DEF MarkAttempt, Control, Creates, Loads, Tenders
    <2> QED BY <2>6, <2>7
  <1>10. CASE PostTicket
    <2>1. Fresh \in Tickets BY <1>10, FreshType DEF PostTicket
    <2>2. CASE /\ pos' = Opened(Fresh) /\ ex' = [ex EXCEPT !.pc = "link", !.t = Fresh]
               /\ UNCHANGED <<sky, order, job, used>>
      <3>1. ex' \in ExType /\ ex'.pc = "link" /\ ex'.t = Fresh /\ ex'.ctx = ex.ctx
        BY <1>0, <2>1, <2>2 DEF ExType, Pcs
      <3>2. PosKept BY <1>0, <2>1, <2>2, OpenedType DEF PosKept
      <3> QED BY <1>10, <2>1, <2>2, <3>1, <3>2, UnchangedNotes, GoSteady DEF PostTicket, At, Creates
    <2>3. CASE \E r \in BOOLEAN : Failed(r)
      <3>1. PosKept /\ used' \subseteq Kinds
        BY <1>0, <1>10, <2>1, OpenedType
        DEF PostTicket, Refused, Lost, Late, Happens, PosKept, SkyType
      <3> QED BY <1>10, <2>3, <3>1, FailSteady DEF PostTicket, At
    <2> QED BY <1>10, <2>2, <2>3 DEF PostTicket, Refused, Lost, Late
  <1>11. CASE LinkTicket
    <2>1. ex.t \in Tickets /\ job.step = 1 /\ ex.pc = "link"
      BY <1>11 DEF LinkTicket, At, Control, Creates
    <2>2. order' \in OrderType /\ order'.posId = ex.t
      BY <1>0, <1>11, <2>1 DEF LinkTicket, OrderType, Notes
    <2> QED BY <1>0, <1>11, <2>1, <2>2, DoneSteady DEF LinkTicket, PosKept
  <1>12. CASE GuardItems BY <1>12, GuardSteady DEF GuardItems
  <1>13. CASE CountItems
    <2>0. ex.pc = "count" /\ job.step = 2 /\ PosKept
      BY <1>0, <1>13 DEF CountItems, At, Control, Loads, PosKept
    <2>1. CASE Completed("items", "done") /\ UNCHANGED <<order, used>>
      BY <1>0, <2>0, <2>1, DoneSteady
    <2>2. CASE Go("items") /\ UNCHANGED <<order, job, used>>
      <3>1. ex' \in ExType /\ ex'.pc = "items" /\ ex'.ctx = ex.ctx BY <2>2, GoEffect DEF Pcs
      <3>2. ex.ctx.ticket \in Tickets BY <2>0 DEF Control
      <3> QED BY <2>0, <2>2, <3>1, <3>2, UnchangedNotes, GoSteady DEF Loads
    <2>3. CASE Persist("needs_action") /\ Dropped(FALSE)
      <3>1. Noting BY <2>3, PersistEffect DEF Noting, Notes
      <3> QED BY <2>0, <2>3, <3>1, DroppedEffect, DropSteady
    <2> QED BY <1>13, <2>1, <2>2, <2>3 DEF CountItems
  <1>14. CASE PostItems
    <2>0. ex.pc = "items" /\ job.step = 2 /\ ex.ctx.ticket \in Tickets
      BY <1>14 DEF PostItems, At, Control, Loads
    <2>1. ASSUME NEW n \in Nat, pos' = Loaded(ex.ctx.ticket, n) PROVE pos' \in [Tickets -> TicketType]
      BY <2>0, <2>1, LoadedType
    <2>2. NumItems \in Nat /\ 1 \in Nat BY DEF Payload
    <2>3. CASE /\ pos' = Loaded(ex.ctx.ticket, NumItems) /\ Completed("items", "done")
               /\ UNCHANGED <<sky, order, used>>
      <3>1. PosKept BY <1>0, <2>1, <2>2, <2>3 DEF PosKept
      <3> QED BY <1>0, <2>0, <2>3, <3>1, DoneSteady
    <2>4. CASE \E r \in BOOLEAN : Failed(r)
      <3>1. <<"items", ex.ctx.ticket>> \in SkyType BY <2>0 DEF SkyType
      <3>2. PosKept /\ used' \subseteq Kinds
        BY <1>0, <1>14, <2>1, <2>2, <3>1 DEF PostItems, Refused, Lost, Late, Happens, PosKept
      <3> QED BY <2>0, <2>4, <3>2, FailSteady
    <2> QED BY <1>14, <2>3, <2>4 DEF PostItems, Refused, Lost, Late
  <1>15. CASE GuardPayment BY <1>15, GuardSteady DEF GuardPayment
  <1>16. CASE ReadTotals
    <2>0. ex.pc = "totals" /\ job.step = 3 /\ PosKept /\ ex.ctx.ticket \in Tickets
          /\ job.items = "done"
      BY <1>0, <1>16 DEF ReadTotals, At, Control, Tenders, PosKept
    <2>1. CASE order' = Cleared /\ Completed("paid", "done") /\ UNCHANGED used
      <3>1. order' \in OrderType /\ order'.posId = order.posId
        BY <2>1, NotedType DEF Cleared, Notes
      <3> QED BY <1>0, <2>0, <2>1, <3>1, DoneSteady
    <2>2. CASE Persist("needs_action") /\ Completed("paid", "done")
      <3>1. Noting BY <2>2, PersistEffect DEF Noting, Notes
      <3> QED BY <2>0, <2>2, <3>1, DoneSteady DEF Noting
    <2>3. CASE /\ ex' = [ex EXCEPT !.pc = "tender", !.left = Due(ex.ctx.ticket)]
               /\ UNCHANGED <<order, job, used>>
      <3>1. Due(ex.ctx.ticket) \in Int BY <2>0, DueType
      <3>2. ex' \in ExType /\ ex'.pc = "tender" /\ ex'.ctx = ex.ctx
        BY <1>0, <2>3, <3>1 DEF ExType, Pcs
      <3> QED BY <2>0, <2>3, <3>2, UnchangedNotes, GoSteady DEF Tenders
    <2> QED BY <1>16, <2>1, <2>2, <2>3 DEF ReadTotals
  <1>17. CASE PostTender
    <2> DEFINE t == ex.ctx.ticket
               n == Capped(ex.i)
    <2>0. /\ ex.pc = "tender" /\ t \in Tickets /\ ex.i \in Pays /\ n \in Nat
          /\ job.items = "done" /\ job.step = 3
      BY <1>17, CappedType DEF PostTender, At, Control, Tenders
    <2>1. pos' = Tendered(t, ex.i, n) => pos' \in [Tickets -> TicketType]
      BY <2>0, TenderedType
    <2>2. CASE /\ pos' = Tendered(t, ex.i, n) /\ ex' = NextTender
               /\ UNCHANGED <<sky, order, job, used>>
      <3>1. PosKept BY <1>0, <2>1, <2>2 DEF PosKept
      <3>2. ex.i \in Nat /\ ex.i + 1 \in Nat /\ ex.left \in Int /\ ex.left - n \in Int
        BY <1>0, <2>0 DEF ExType
      <3> DEFINE l == IF ReportsDue THEN ex.left - n ELSE ex.left
      <3>3. ex' = [ex EXCEPT !.i = ex.i + 1, !.left = l] BY <2>2 DEF NextTender
      <3>4. l \in Int BY <3>2
      <3> HIDE DEF l, n
      <3>5. ex' \in ExType /\ ex'.pc = "tender" /\ ex'.ctx = ex.ctx
        BY <1>0, <2>0, <3>2, <3>3, <3>4 DEF ExType
      <3> QED BY <2>0, <2>2, <3>1, <3>5, UnchangedNotes, GoSteady DEF Tenders
    <2>3. CASE \E r \in BOOLEAN : Failed(r)
      <3>1. <<"tender", t, ex.i, n>> \in SkyType BY <2>0 DEF SkyType
      <3>2. PosKept /\ used' \subseteq Kinds
        BY <1>0, <1>17, <2>1, <3>1 DEF PostTender, Refused, Lost, Late, Happens, PosKept
      <3> QED BY <2>0, <2>3, <3>2, FailSteady
    <2> QED BY <1>17, <2>2, <2>3 DEF PostTender, Refused, Lost, Late
  <1>18. CASE SkipTender
    <2>1. /\ ex.pc = "tender" /\ ex.ctx.ticket \in Tickets /\ job.items = "done" /\ PosKept
      BY <1>0, <1>18 DEF SkipTender, At, Control, PosKept
    <2>2. ex' \in ExType /\ ex'.pc = "tender" /\ ex'.ctx = ex.ctx
      BY <1>0, <1>18, <2>1 DEF SkipTender, ExType
    <2> QED BY <1>18, <2>1, <2>2, UnchangedNotes, GoSteady DEF SkipTender, Tenders
  <1>19. CASE ReadBalance
    <2>0. ex.pc = "tender" /\ job.step = 3 /\ PosKept
      BY <1>0, <1>19 DEF ReadBalance, At, Control, Tenders, PosKept
    <2>1. Noting
      <3>1. CASE Persist("needs_action") BY <3>1, PersistEffect DEF Noting, Notes
      <3>2. CASE order' = Cleared /\ (used' = used \/ Happens("status"))
        BY <1>0, <3>2, NotedType DEF Cleared, Noting, Notes, Happens
      <3> QED BY <1>19, <3>1, <3>2 DEF ReadBalance
    <2> QED BY <1>19, <2>0, <2>1, DoneSteady DEF ReadBalance, Noting
  <1>20. CASE Land
    <2>1. PICK r \in sky :
            /\ sky' = sky \ {r}
            /\ \/ r = <<"ticket">> /\ Made # Tickets /\ pos' = Opened(Fresh)
               \/ \E t \in Tickets : r = <<"items", t>> /\ pos' = Loaded(t, NumItems)
               \/ \E t \in Tickets : \E i \in Pays, n \in 1 .. Due(t) :
                    r = <<"tender", t, i, n>> /\ pos' = Tendered(t, i, n)
      BY <1>20 DEF Land
    <2>2. pos' \in [Tickets -> TicketType]
      <3>1. CASE Made # Tickets /\ pos' = Opened(Fresh) BY <3>1, FreshType, OpenedType
      <3>2. CASE \E t \in Tickets : pos' = Loaded(t, NumItems) BY <3>2, LoadedType DEF Payload
      <3>3. CASE \E t \in Tickets : \E i \in Pays, n \in 1 .. Due(t) : pos' = Tendered(t, i, n)
        <4>1. PICK t \in Tickets : \E i \in Pays, n \in 1 .. Due(t) : pos' = Tendered(t, i, n) BY <3>3
        <4>2. PICK i \in Pays, n \in 1 .. Due(t) : pos' = Tendered(t, i, n) BY <4>1
        <4>3. n \in Nat BY DueType
        <4> QED BY <4>2, <4>3, TenderedType
      <3> QED BY <2>1, <3>1, <3>2, <3>3
    <2> QED BY <1>0, <1>20, <2>1, <2>2 DEF Land, Typed, Control
  <1>21. CASE RetryDeadLetter
    <2>1. job' \in JobType /\ Kept /\ job'.status = "queued" /\ job'.attempts = 0
      <3>1. 0 \in 0 .. MaxAttempts BY DEF Payload
      <3> QED BY <1>0, <1>21, <3>1 DEF RetryDeadLetter, JobType, Statuses, Kept
    <2>2. MaxAttempts > 0 BY DEF Payload
    <2>3. Typed' BY <1>0, <1>21, <2>1 DEF RetryDeadLetter, Happens, Typed
    <2>4. Control' BY <1>21, <2>1, <2>2 DEF RetryDeadLetter, Control, Kept
    <2> QED BY <2>3, <2>4
  <1>22. CASE Cancel \/ Resolve
    <2>1. order' \in OrderType /\ order'.posId = order.posId
      BY <1>0, <1>22 DEF Cancel, Resolve, OrderType, Notes
    <2>2. used' \subseteq Kinds /\ UNCHANGED <<pos, sky, job, ex>>
      BY <1>0, <1>22 DEF Cancel, Resolve, Happens
    <2> QED BY <1>0, <2>1, <2>2 DEF Typed, Control
  <1>23. CASE StaffActs
    <2>1. PICK t \in Tickets :
            \/ pos' = [pos EXCEPT ![t].items = NumItems]
            \/ pos' = [pos EXCEPT ![t].paid = @ + 1, ![t].count = @ + 1]
      BY <1>23 DEF StaffActs, OpenTickets, Made
    <2>2. pos[t] \in TicketType /\ pos[t].paid + 1 \in Nat /\ pos[t].count + 1 \in Nat /\ NumItems \in Nat
      BY <1>0 DEF TicketType, Payload
    <2> DEFINE p == [pos[t] EXCEPT !.items = NumItems]
               q == [pos[t] EXCEPT !.paid = pos[t].paid + 1, !.count = pos[t].count + 1]
    <2>3. p \in TicketType /\ q \in TicketType BY <2>2 DEF TicketType
    <2>4. pos' = [pos EXCEPT ![t] = p] \/ pos' = [pos EXCEPT ![t] = q] BY <1>0, <2>1, <2>2
    <2> HIDE DEF p, q
    <2>5. pos' \in [Tickets -> TicketType] BY <1>0, <2>3, <2>4
    <2> QED BY <1>0, <1>23, <2>5 DEF StaffActs, Happens, Typed, Control
  <1>24. CASE StaffCloses
    <2>1. pos' \in [Tickets -> TicketType]
      BY <1>0, <1>24 DEF StaffCloses, OpenTickets, Made, TicketType
    <2> QED BY <1>0, <1>24, <2>1 DEF StaffCloses, Happens, Typed, Control
  <1> QED
    BY <1>1, <1>2, <1>3, <1>4, <1>5, <1>6, <1>7, <1>8, <1>9, <1>10, <1>11, <1>12, <1>13, <1>14,
       <1>15, <1>16, <1>17, <1>18, <1>19, <1>20, <1>21, <1>22, <1>23, <1>24 DEF Next

LEMMA SteadyInit == ASSUME Payload PROVE Init => Typed /\ Control
  <1> SUFFICES ASSUME Init PROVE Typed /\ Control OBVIOUS
  <1>1. ex \in ExType /\ ex.pc = "idle" BY IdleType DEF Init
  <1>2. 0 \in 0 .. MaxAttempts /\ 0 < MaxAttempts BY DEF Payload
  <1>3. job \in JobType BY <1>2 DEF Init, JobType, Statuses, Searches
  <1>4. NoTicket \in TicketType BY DEF NoTicket, TicketType
  <1>5. Typed BY <1>1, <1>3, <1>4 DEF Init, Typed, OrderType, Notes
  <1>6. Control BY <1>1, <1>2 DEF Init, Control, Creates, Loads, Tenders
  <1> QED BY <1>5, <1>6

\* The types of OmnivoreOrder.
THEOREM OrdersTyped == ASSUME Payload PROVE Spec => []TypeOK
  <1>1. Init => Typed /\ Control BY SteadyInit
  <1>2. (Typed /\ Control) /\ [Next]_vars => (Typed /\ Control)' BY SteadyNext
  <1>3. Typed => TypeOK
    <2> SUFFICES ASSUME Typed PROVE TypeOK OBVIOUS
    <2>1. ex.pc \in {"idle", "next", "find", "scan", "mark", "open", "link", "count", "items",
                     "totals", "tender"} \cup {First[s] : s \in 1 .. 3}
      <3>1. {"guard1", "guard2", "guard3"} \subseteq {First[s] : s \in 1 .. 3}
        <4>1. First[1] = "guard1" /\ First[2] = "guard2" /\ First[3] = "guard3" BY DEF First
        <4> QED BY <4>1
      <3> QED BY <3>1 DEF Typed, ExType, Pcs
    <2> QED BY <2>1 DEF Typed, TypeOK, TicketType, SkyType, OrderType, JobType, Statuses
  <1> QED BY <1>1, <1>2, <1>3, PTL DEF Spec

---------------------------------------------------------------------------
(* One ticket.                                                             *)

LEMMA UsedGrows == ASSUME [Next]_vars PROVE used \subseteq used'
  BY DEF vars, Next, Enqueue, ReadContext, Crash, CallFails, GuardCreate, FindByName, ScanAll,
         MarkAttempt, PostTicket, LinkTicket, GuardItems, GuardPayment, GuardTicket, CountItems,
         PostItems, ReadTotals, PostTender, SkipTender, ReadBalance, Land, RetryDeadLetter, Cancel,
         Resolve, StaffActs, StaffCloses, Persist, Refused, Lost, Late, Happens

\* Whether the ticket is looked for is settled when the job is enqueued.
LEMMA SearchStays ==
  ASSUME Typed, [Next]_vars, job.status # "absent"
  PROVE  job'.search = job.search /\ job'.status # "absent"
  <1>0. job \in JobType BY DEF Typed
  <1>1. ASSUME NEW r \in BOOLEAN, Dropped(r) \/ Failed(r)
        PROVE  job'.search = job.search /\ job'.status # "absent"
    BY <1>0, <1>1 DEF Dropped, Failed, JobType
  <1>2. ASSUME NEW field, NEW out, Completed(field, out)
        PROVE  job'.search = job.search /\ job'.status # "absent"
    BY <1>0, <1>2 DEF Completed, JobType
  <1>3. CASE UNCHANGED job BY <1>3
  <1>4. CASE ReadContext \/ Crash \/ RetryDeadLetter \/ MarkAttempt
    BY <1>0, <1>4 DEF ReadContext, Crash, RetryDeadLetter, MarkAttempt, JobType
  <1>5. CASE CallFails \/ PostTicket \/ PostItems \/ PostTender
    BY <1>1, <1>2, <1>5 DEF CallFails, PostTicket, PostItems, PostTender, Refused, Lost, Late
  <1>6. CASE GuardItems \/ GuardPayment
    BY <1>1, <1>2, <1>6 DEF GuardItems, GuardPayment, GuardTicket
  <1>7. CASE CountItems BY <1>1, <1>2, <1>7 DEF CountItems
  <1>8. CASE GuardCreate \/ LinkTicket \/ ReadTotals \/ ReadBalance
    BY <1>2, <1>8 DEF GuardCreate, LinkTicket, ReadTotals, ReadBalance
  <1>9. ~Enqueue BY DEF Enqueue
  <1> QED
    BY <1>3, <1>4, <1>5, <1>6, <1>7, <1>8, <1>9
    DEF Next, vars, FindByName, ScanAll, SkipTender, Land, Cancel, Resolve, StaffActs, StaffCloses

LEMMA UncertainGrows == ASSUME Typed, [Next]_vars PROVE Uncertain => Uncertain'
  BY UsedGrows, SearchStays DEF Uncertain

\* The tickets that are open stay so and no other is opened.
SameOpen == \A t \in Tickets : /\ pos'[t].open = pos[t].open
                               /\ pos'[t] = pos[t] \/ pos[t].open
CreatePlaces == {"guard1", "find", "mark", "open", "link"}

LEMMA TicketQuiet ==
  ASSUME Typed, Control, OneTicket, SameOpen, ~Uncertain, sky' = {},
         job'.marker = job.marker, job'.ticket \in Tickets => job'.ticket = job.ticket,
         ex'.pc \notin CreatePlaces \/ ex' = ex
  PROVE  OneTicket'
  <1>1. CASE ex'.pc \notin CreatePlaces BY <1>1 DEF OneTicket, SameOpen, CreatePlaces
  <1>2. CASE ex' = ex BY <1>2 DEF OneTicket, SameOpen, Control
  <1> QED BY <1>1, <1>2

LEMMA SkySame == ASSUME OneTicket, ~Uncertain PROVE sky = {}
  BY DEF OneTicket

LEMMA OpenAre ==
  ASSUME OneTicket, ~Uncertain
  PROVE  OpenTickets = {t \in Tickets : pos[t].open} /\ Made = {t \in Tickets : pos[t].open}
  <1>1. ~NoTicket.open BY DEF NoTicket
  <1> QED BY <1>1 DEF OneTicket, OpenTickets, Made

LEMMA TicketNext ==
  ASSUME Payload, Typed, Control, Typed', Control', OneTicket, [Next]_vars PROVE OneTicket'
  <1> SUFFICES ASSUME ~Uncertain' PROVE OneTicket' BY DEF OneTicket
  <1>0. ~Uncertain /\ \A k \in {"late", "blind", "close"} : ~Happens(k)
    BY UncertainGrows DEF Uncertain, Happens
  <1>a. sky = {} BY <1>0, SkySame
  <1>b. \A t \in Tickets : pos[t] \in TicketType BY DEF Typed
  <1>c. ex.ctx.ticket \in Tickets /\ ex.pc \notin {"idle", "next"} =>
          ex.ctx.ticket = job.ticket /\ pos[ex.ctx.ticket].open
    BY <1>0 DEF Control, Payload, OneTicket
  \* Whatever ends an execution leaves what it found.
  <1>1. ASSUME \E r \in BOOLEAN : Dropped(r), ex.pc # "idle", SameOpen, sky' = {} PROVE OneTicket'
    BY <1>0, <1>1, DroppedEffect, IdleType, TicketQuiet DEF Kept, CreatePlaces
  <1>2. ASSUME \E r \in BOOLEAN : Failed(r), ex.pc # "idle", SameOpen, sky' = {} PROVE OneTicket'
    BY <1>1, <1>2 DEF Failed
  <1>3. ASSUME NEW field \in {"items", "paid"}, NEW out, Completed(field, out), SameOpen, sky' = {},
               field = "items" => out \in Skips \cup {"done"}
        PROVE OneTicket'
    <2>1. job'.marker = job.marker /\ job'.ticket = job.ticket /\ ex'.pc \in {"idle", "next"}
      BY <1>3, CompletedEffect, IdleType DEF Kept, Typed, ExType
    <2> QED BY <1>0, <1>3, <2>1, TicketQuiet DEF CreatePlaces
  <1>4. ASSUME NEW pc \in Pcs \ CreatePlaces, Go(pc), UNCHANGED <<pos, sky, job>> PROVE OneTicket'
    BY <1>0, <1>a, <1>4, GoEffect, TicketQuiet DEF SameOpen
  <1>5. ASSUME SameOpen, UNCHANGED <<sky, job, ex>> PROVE OneTicket'
    BY <1>0, <1>a, <1>5, TicketQuiet
  <1>6. CASE UNCHANGED vars BY <1>5, <1>6 DEF vars, SameOpen
  <1>7. CASE Enqueue
    <2>1. job'.marker = job.marker /\ job'.ticket = job.ticket
      BY <1>7 DEF Enqueue, Typed, JobType
    <2> QED BY <1>0, <1>a, <1>7, <2>1, TicketQuiet DEF Enqueue, SameOpen
  <1>8. CASE ReadContext
    <2> DEFINE c == [marker |-> job.marker, ticket |-> job.ticket, items |-> job.items]
    <2>1. ex' = [Idle EXCEPT !.pc = First[job.step], !.ctx = c] BY <1>0, <1>8 DEF ReadContext
    <2>2. ex'.pc = First[job.step] /\ ex'.ctx.marker = job.marker
      BY <2>1, IdleType DEF ExType
    <2>3. First[job.step] \in {"guard1", "guard2", "guard3"}
      <3>1. job.step \in {1, 2, 3} BY DEF Typed, JobType
      <3> QED BY <3>1 DEF First
    <2>4. job'.marker = job.marker /\ job'.ticket = job.ticket /\ UNCHANGED <<pos, sky>>
      BY <1>8 DEF ReadContext, Typed, JobType
    <2> QED BY <1>0, <1>a, <2>2, <2>3, <2>4 DEF OneTicket
  <1>9. CASE Crash
    <2>1. job'.marker = job.marker /\ job'.ticket = job.ticket /\ UNCHANGED <<pos, sky>> /\ ex' = Idle
      BY <1>9 DEF Crash, Typed, JobType
    <2> QED BY <1>0, <1>a, <2>1, IdleType, TicketQuiet DEF SameOpen, CreatePlaces
  <1>10. CASE CallFails
    BY <1>2, <1>a, <1>10 DEF CallFails, SameOpen
  <1>11. CASE GuardCreate
    <2>1. CASE Go(Look) /\ UNCHANGED job
      <3>0. Look = "find"
        BY <1>0, <1>11 DEF GuardCreate, At, Control, Uncertain, Look
      <3>1. ex'.pc = "find" /\ ex'.ctx = ex.ctx BY <2>1, <3>0, GoEffect DEF Pcs
      <3>2. ex.ctx.marker = job.marker BY <1>0, <1>11 DEF GuardCreate, At, OneTicket
      <3> QED BY <1>0, <1>11, <2>1, <3>1, <3>2 DEF GuardCreate, OneTicket
    <2>2. CASE Stop # "go" /\ Completed("ticket", Stop)
      <3>1. Stop \in Skips BY <2>2, StopType
      <3>2. job.step = 1 BY <1>11 DEF GuardCreate, At, Control, Creates
      <3>3. job'.marker = job.marker /\ job'.ticket \in Skips /\ ex'.pc = "next"
        BY <2>2, <3>1, <3>2, CompletedEffect DEF Typed, ExType
      <3>4. job'.ticket \notin Tickets BY <3>3 DEF Payload
      <3> QED BY <1>0, <1>a, <1>11, <3>3, <3>4, TicketQuiet DEF GuardCreate, SameOpen, CreatePlaces
    <2> QED BY <1>11, <2>1, <2>2 DEF GuardCreate
  <1>12. CASE FindByName
    <2>0. UNCHANGED <<pos, sky, job>> /\ ex.pc = "find" BY <1>12 DEF FindByName, At
    <2>1. CASE \E t \in OpenTickets : ex' = [ex EXCEPT !.pc = "link", !.t = t]
      <3>1. PICK t \in OpenTickets : ex' = [ex EXCEPT !.pc = "link", !.t = t] BY <2>1
      <3>2. ex'.pc = "link" /\ ex'.t = t /\ pos[t].open
        BY <3>1 DEF OpenTickets, Typed, ExType
      <3> QED BY <1>0, <2>0, <3>2 DEF OneTicket
    <2>2. CASE MayExist /\ Go("scan")
      BY <1>4, <2>0, <2>2 DEF Pcs, CreatePlaces
    <2>3. CASE ~MayExist /\ Go("mark")
      <3>1. ~job.marker BY <1>0, <2>0, <2>3 DEF OneTicket, MayExist
      <3>2. ex'.pc = "mark" BY <2>3, GoEffect DEF Pcs
      <3> QED BY <1>0, <2>0, <3>1, <3>2 DEF OneTicket
    <2> QED BY <1>12, <2>1, <2>2, <2>3 DEF FindByName
  <1>13. CASE ScanAll
    <2>0. UNCHANGED <<pos, sky, job>> BY <1>13 DEF ScanAll
    <2>1. CASE OpenTickets = {} /\ Go("mark")
      <3>1. \A t \in Tickets : ~pos[t].open BY <1>0, <2>1, OpenAre
      <3>2. ex'.pc = "mark" BY <2>1, GoEffect DEF Pcs
      <3> QED BY <1>0, <2>0, <3>1, <3>2 DEF OneTicket
    <2>2. CASE \E t \in OpenTickets : ex' = [ex EXCEPT !.pc = "link", !.t = t]
      <3>1. PICK t \in OpenTickets : ex' = [ex EXCEPT !.pc = "link", !.t = t] BY <2>2
      <3>2. ex'.pc = "link" /\ ex'.t = t /\ pos[t].open
        BY <3>1 DEF OpenTickets, Typed, ExType
      <3> QED BY <1>0, <2>0, <3>2 DEF OneTicket
    <2> QED BY <1>13, <2>1, <2>2 DEF ScanAll
  <1>14. CASE MarkAttempt
    <2>1. \A t \in Tickets : ~pos[t].open BY <1>0, <1>14 DEF MarkAttempt, At, OneTicket
    <2>2. job'.marker /\ UNCHANGED <<pos, sky>> BY <1>14 DEF MarkAttempt, Typed, JobType
    <2>3. ex'.pc = "open" BY <1>14, GoEffect DEF MarkAttempt, Pcs
    <2>4. job'.step = 1 /\ job'.ticket \notin Tickets
      BY <2>3 DEF Control, Creates, Payload
    <2> QED BY <1>0, <2>1, <2>2, <2>3, <2>4 DEF OneTicket
  <1>15. CASE PostTicket
    <2>0. /\ ex.pc = "open" /\ job.marker /\ job.ticket \notin Tickets
          /\ \A t \in Tickets : ~pos[t].open
      BY <1>0, <1>15 DEF PostTicket, At, OneTicket, Control, Creates, Payload
    <2>1. Fresh \in Tickets BY <1>15, FreshType DEF PostTicket
    <2>2. pos' = Opened(Fresh) =>
            pos'[Fresh].open /\ \A t \in Tickets \ {Fresh} : pos'[t] = pos[t]
      BY <1>b, <2>1, OpenedType DEF TicketType
    <2>3. CASE /\ pos' = Opened(Fresh) /\ ex' = [ex EXCEPT !.pc = "link", !.t = Fresh]
               /\ UNCHANGED <<sky, order, job, used>>
      <3>1. ex'.pc = "link" /\ ex'.t = Fresh BY <2>3 DEF Typed, ExType
      <3> QED BY <1>0, <2>0, <2>1, <2>2, <2>3, <3>1 DEF OneTicket
    <2>4. CASE (\E r \in BOOLEAN : Failed(r)) /\ (pos' = pos \/ pos' = Opened(Fresh)) /\ sky' = {}
      <3>1. ex'.pc = "idle" /\ job'.marker = job.marker /\ job'.ticket = job.ticket
        BY <2>0, <2>4, FailedEffect, IdleType DEF Kept
      <3> QED BY <1>0, <2>0, <2>1, <2>2, <2>4, <3>1 DEF OneTicket
    <2> QED BY <1>0, <1>a, <1>15, <2>3, <2>4 DEF PostTicket, Refused, Lost, Late
  <1>16. CASE LinkTicket
    <2>1. ex.t \in Tickets /\ pos[ex.t].open /\ job.step = 1
      BY <1>0, <1>16 DEF LinkTicket, At, Control, OneTicket, Creates
    <2>2. job'.marker = job.marker /\ job'.ticket = ex.t /\ ex'.pc = "next"
      BY <1>16, <2>1, CompletedEffect DEF LinkTicket, Typed, ExType
    <2> QED BY <1>0, <1>16, <2>1, <2>2 DEF LinkTicket, OneTicket
  <1>17. ASSUME NEW label \in {"guard2", "guard3"}, NEW then \in {"count", "totals"},
                NEW field \in {"items", "paid"}, GuardTicket(label, then, field)
         PROVE  OneTicket'
    <2>1. SameOpen /\ UNCHANGED <<pos, sky>> /\ ex.pc # "idle"
      BY <1>17 DEF GuardTicket, At, SameOpen
    <2>2. CASE Failed(FALSE) BY <1>2, <1>a, <2>1, <2>2
    <2>3. CASE \E out \in Skips \cup {"done"} : Completed(field, out)
      BY <1>3, <1>a, <2>1, <2>3
    <2>4. CASE Go(then) /\ UNCHANGED job
      BY <1>4, <2>1, <2>4 DEF Pcs, CreatePlaces
    <2> QED BY <1>17, <2>2, <2>3, <2>4 DEF GuardTicket, Skips
  <1>18. CASE GuardItems BY <1>17, <1>18 DEF GuardItems
  <1>19. CASE CountItems
    <2>1. UNCHANGED <<pos, sky>> /\ SameOpen /\ ex.pc # "idle" BY <1>19 DEF CountItems, At, SameOpen
    <2>2. CASE Completed("items", "done") BY <1>3, <1>a, <2>1, <2>2
    <2>3. CASE Go("items") /\ UNCHANGED job BY <1>4, <2>1, <2>3 DEF Pcs, CreatePlaces
    <2>4. CASE Dropped(FALSE) BY <1>1, <1>a, <2>1, <2>4
    <2> QED BY <1>19, <2>2, <2>3, <2>4 DEF CountItems
  <1>20. CASE PostItems
    <2>0. ex.pc = "items" /\ ex.ctx.ticket \in Tickets BY <1>20 DEF PostItems, At, Control
    <2>1. ASSUME NEW n \in Nat, pos' = Loaded(ex.ctx.ticket, n) PROVE SameOpen
      <3>1. pos'[ex.ctx.ticket].open = pos[ex.ctx.ticket].open
        BY <1>b, <2>0, <2>1, LoadedType DEF TicketType
      <3> QED BY <1>c, <2>0, <2>1, <3>1, LoadedType DEF SameOpen
    <2>2. NumItems \in Nat /\ 1 \in Nat BY DEF Payload
    <2>3. SameOpen /\ sky' = {}
      BY <1>0, <1>a, <1>20, <2>1, <2>2 DEF PostItems, Refused, Lost, Late, SameOpen
    <2>4. CASE \E r \in BOOLEAN : Failed(r) BY <1>2, <2>0, <2>3, <2>4
    <2>5. CASE Completed("items", "done") BY <1>3, <2>3, <2>5
    <2>6. (\E r \in BOOLEAN : Failed(r)) \/ Completed("items", "done")
      BY <1>20 DEF PostItems, Refused, Lost, Late
    <2> QED BY <2>4, <2>5, <2>6
  <1>21. CASE GuardPayment BY <1>17, <1>21 DEF GuardPayment
  <1>22. CASE ReadTotals
    <2>1. UNCHANGED <<pos, sky>> /\ SameOpen BY <1>22 DEF ReadTotals, SameOpen
    <2>2. CASE Completed("paid", "done") BY <1>3, <1>a, <2>1, <2>2
    <2>3. CASE ex' = [ex EXCEPT !.pc = "tender", !.left = Due(ex.ctx.ticket)] /\ UNCHANGED job
      <3>1. ex'.pc = "tender" BY <2>3 DEF Typed, ExType
      <3> QED BY <1>0, <1>a, <2>1, <2>3, <3>1, TicketQuiet DEF CreatePlaces
    <2> QED BY <1>22, <2>2, <2>3 DEF ReadTotals
  <1>23. CASE PostTender
    <2> DEFINE t == ex.ctx.ticket
               n == Capped(ex.i)
    <2>0. ex.pc = "tender" /\ t \in Tickets /\ ex.i \in Pays /\ n \in Nat
      BY <1>23, CappedType DEF PostTender, At, Control
    <2>1. ASSUME pos' = Tendered(t, ex.i, n) PROVE SameOpen
      <3>1. pos'[t].open = pos[t].open /\ \A u \in Tickets \ {t} : pos'[u] = pos[u]
        BY <2>0, <2>1, TenderedType
      <3>2. pos[t].open BY <1>c, <2>0
      <3> QED BY <3>1, <3>2 DEF SameOpen
    <2>2. CASE pos' = Tendered(t, ex.i, n) /\ ex' = NextTender /\ UNCHANGED <<sky, job>>
      <3>1. ex'.pc = "tender" BY <2>0, <2>2 DEF NextTender, Typed, ExType
      <3> QED BY <1>0, <1>a, <2>1, <2>2, <3>1, TicketQuiet DEF CreatePlaces
    <2>3. CASE (\E r \in BOOLEAN : Failed(r)) /\ (pos' = pos \/ pos' = Tendered(t, ex.i, n)) /\ sky' = {}
      <3>1. SameOpen BY <2>1, <2>3 DEF SameOpen
      <3> QED BY <1>2, <2>0, <2>3, <3>1
    <2> QED BY <1>0, <1>a, <1>23, <2>2, <2>3 DEF PostTender, Refused, Lost, Late
  <1>24. CASE SkipTender
    <2>1. ex'.pc = "tender" BY <1>24 DEF SkipTender, At, Typed, ExType
    <2> QED BY <1>0, <1>a, <1>24, <2>1, TicketQuiet DEF SkipTender, SameOpen, CreatePlaces
  <1>25. CASE ReadBalance
    BY <1>3, <1>a, <1>25 DEF ReadBalance, SameOpen
  <1>26. CASE Land BY <1>a, <1>26 DEF Land
  <1>27. CASE RetryDeadLetter
    <2>1. job'.marker = job.marker /\ job'.ticket = job.ticket
      BY <1>27 DEF RetryDeadLetter, Typed, JobType
    <2> QED BY <1>0, <1>a, <1>27, <2>1, TicketQuiet DEF RetryDeadLetter, SameOpen
  <1>28. CASE Cancel \/ Resolve
    BY <1>5, <1>28 DEF Cancel, Resolve, SameOpen
  <1>29. CASE StaffActs
    <2>1. PICK t \in OpenTickets :
            \/ pos' = [pos EXCEPT ![t].items = NumItems]
            \/ pos' = [pos EXCEPT ![t].paid = @ + 1, ![t].count = @ + 1]
      BY <1>29 DEF StaffActs
    <2>2. t \in Tickets /\ pos[t].open BY DEF OpenTickets, Made
    <2>3. pos'[t].open = pos[t].open /\ \A u \in Tickets \ {t} : pos'[u] = pos[u]
      BY <1>b, <2>1, <2>2 DEF Typed, TicketType
    <2>4. SameOpen BY <2>2, <2>3 DEF SameOpen
    <2> QED BY <1>5, <1>29, <2>4 DEF StaffActs
  <1>30. CASE StaffCloses BY <1>0, <1>30 DEF StaffCloses
  <1> QED
    BY <1>6, <1>7, <1>8, <1>9, <1>10, <1>11, <1>12, <1>13, <1>14, <1>15, <1>16, <1>18, <1>19, <1>20,
       <1>21, <1>22, <1>23, <1>24, <1>25, <1>26, <1>27, <1>28, <1>29, <1>30 DEF Next

---------------------------------------------------------------------------
(* Nothing is posted twice on a ticket.                                    *)

\* What a step that posts nothing leaves of the tickets.
BooksKept == \A t \in Tickets :
  pos'[t].items <= NumItems /\ pos'[t].own = pos[t].own /\ pos'[t].count >= pos[t].count
OnPlace == {"items", "tender"}

LEMMA OnlyPayment ==
  ASSUME Payload, Len(Asked) = 1 PROVE Pays = {1}
  <1>1. Pays = 1 .. Len(Asked) BY DEF Payload, Pays
  <1> QED BY <1>1

LEMMA OwnType ==
  ASSUME Payload, Typed, Len(Asked) = 1, NEW t \in Tickets
  PROVE  pos[t].own \in [{1} -> Nat] /\ pos[t].own[1] \in Nat /\ pos[t].count \in Nat
  BY OnlyPayment DEF Typed, TicketType

LEMMA OnceQuiet ==
  ASSUME Payload, Typed, Typed', Once, "late" \notin used, BooksKept, sky' = {},
         ex'.pc \notin OnPlace
  PROVE  Once'
  <1>1. ASSUME Len(Asked) = 1, NEW t \in Tickets PROVE pos'[t].own[1] <= 1 /\ pos'[t].own[1] <= pos'[t].count
    <2>1. pos[t].own[1] <= 1 /\ pos[t].own[1] <= pos[t].count BY <1>1 DEF Once
    <2>2. pos'[t].count \in Nat BY DEF Typed, TicketType
    <2> QED BY <1>1, <2>1, <2>2, OwnType DEF BooksKept
  <1> QED BY <1>1 DEF Once, BooksKept, OnPlace

LEMMA OnceStill ==
  ASSUME Payload, Typed, Typed', Control, Once, "late" \notin used, BooksKept, sky' = {}, ex' = ex,
         \A t \in Tickets : pos[t].items = 0 => pos'[t].items = 0
  PROVE  Once'
  <1>1. ASSUME Len(Asked) = 1, NEW t \in Tickets PROVE pos'[t].own[1] <= 1 /\ pos'[t].own[1] <= pos'[t].count
    <2>1. pos[t].own[1] <= 1 /\ pos[t].own[1] <= pos[t].count BY <1>1 DEF Once
    <2>2. pos'[t].count \in Nat BY DEF Typed, TicketType
    <2> QED BY <1>1, <2>1, <2>2, OwnType DEF BooksKept
  <1>2. ex.pc \in OnPlace => ex.ctx.ticket \in Tickets BY DEF Control, OnPlace
  <1> QED BY <1>1, <1>2 DEF Once, BooksKept, OnPlace

LEMMA SameBooks ==
  ASSUME Payload, Typed, Once, "late" \notin used,
         \A t \in Tickets : /\ pos'[t].items = pos[t].items /\ pos'[t].own = pos[t].own
                            /\ pos'[t].count = pos[t].count
  PROVE  BooksKept /\ \A t \in Tickets : pos[t].items = 0 => pos'[t].items = 0
  BY DEF Once, BooksKept, Typed, TicketType

LEMMA OnceNext ==
  ASSUME Payload, Typed, Control, Typed', Control', Once, [Next]_vars PROVE Once'
  <1> SUFFICES ASSUME "late" \notin used' PROVE Once' BY DEF Once
  <1>0. "late" \notin used /\ ~Happens("late") BY UsedGrows DEF Happens
  <1>a. sky = {} BY <1>0 DEF Once
  <1>b. \A t \in Tickets : pos[t] \in TicketType BY DEF Typed
  <1>c. ex.pc \in {"count", "items", "totals", "tender"} => ex.ctx.ticket \in Tickets BY DEF Control
  <1>d. Idle.pc \notin OnPlace BY IdleType DEF OnPlace
  <1>1. ASSUME ~(ex'.pc \in OnPlace), pos' = pos, sky' = sky PROVE Once'
    BY <1>0, <1>a, <1>1, SameBooks, OnceQuiet
  <1>2. ASSUME ex' = ex, pos' = pos, sky' = sky PROVE Once'
    BY <1>0, <1>a, <1>2, SameBooks, OnceStill
  <1>3. ASSUME (\E r \in BOOLEAN : Dropped(r) \/ Failed(r)) PROVE ex'.pc \notin OnPlace
    BY <1>3, <1>d DEF Dropped, Failed
  <1>4. ASSUME NEW field, NEW out, Completed(field, out) PROVE ex'.pc \notin OnPlace
    BY <1>4, <1>d DEF Completed, Go, Typed, ExType, OnPlace
  <1>5. ASSUME NEW pc \in Pcs \ OnPlace, Go(pc) PROVE ex'.pc \notin OnPlace
    BY <1>5, GoEffect
  <1>6. CASE UNCHANGED vars BY <1>2, <1>6 DEF vars
  <1>7. CASE Enqueue \/ RetryDeadLetter \/ Cancel \/ Resolve
    BY <1>2, <1>7 DEF Enqueue, RetryDeadLetter, Cancel, Resolve
  <1>8. CASE ReadContext
    <2>1. First[job.step] \notin OnPlace
      <3>1. job.step \in {1, 2, 3} BY DEF Typed, JobType
      <3> QED BY <3>1 DEF First, OnPlace
    <2>2. ex'.pc = First[job.step] BY <1>8, IdleType DEF ReadContext, ExType
    <2> QED BY <1>1, <1>8, <2>1, <2>2 DEF ReadContext
  <1>9. CASE Crash BY <1>1, <1>9, <1>d DEF Crash
  <1>10. CASE CallFails
    <2>1. \E r \in BOOLEAN : Failed(r) BY <1>10 DEF CallFails
    <2> QED BY <1>1, <1>3, <1>10, <2>1 DEF CallFails
  <1>11. CASE GuardCreate
    <2>1. Go("find") \/ Go("mark") \/ Completed("ticket", Stop) BY <1>11 DEF GuardCreate, Look
    <2> QED BY <1>1, <1>4, <1>5, <1>11, <2>1 DEF GuardCreate, Pcs, OnPlace
  <1>12. CASE FindByName \/ ScanAll
    <2>1. (\E t \in OpenTickets : ex' = [ex EXCEPT !.pc = "link", !.t = t]) \/ Go("scan") \/ Go("mark")
      BY <1>12 DEF FindByName, ScanAll
    <2>2. ex'.pc \notin OnPlace BY <1>5, <2>1 DEF Typed, ExType, Pcs, OnPlace
    <2> QED BY <1>1, <1>12, <2>2 DEF FindByName, ScanAll
  <1>13. CASE MarkAttempt BY <1>1, <1>5, <1>13 DEF MarkAttempt, Pcs, OnPlace
  <1>14. CASE PostTicket
    <2>1. Fresh \in Tickets BY <1>14, FreshType DEF PostTicket
    <2>2. BooksKept
      <3>1. pos' = pos \/ pos' = Opened(Fresh) BY <1>14 DEF PostTicket, Refused, Late, Lost
      <3>2. CASE pos' = pos BY <1>0, <3>2, SameBooks
      <3>3. CASE pos' = Opened(Fresh)
        <4>1. \A t \in Tickets : /\ pos'[t].items = pos[t].items /\ pos'[t].own = pos[t].own
                                 /\ pos'[t].count = pos[t].count
          BY <1>b, <2>1, <3>3, OpenedType DEF TicketType
        <4> QED BY <1>0, <4>1, SameBooks
      <3> QED BY <3>1, <3>2, <3>3
    <2>3. (ex' = [ex EXCEPT !.pc = "link", !.t = Fresh]) \/ \E r \in BOOLEAN : Failed(r)
      BY <1>14 DEF PostTicket, Refused, Late, Lost
    <2>4. ex'.pc \notin OnPlace BY <1>3, <2>3 DEF Typed, ExType, OnPlace
    <2>5. sky' = sky BY <1>0, <1>14 DEF PostTicket, Refused, Late, Lost
    <2> QED BY <1>0, <1>a, <2>2, <2>4, <2>5, OnceQuiet
  <1>15. CASE LinkTicket BY <1>1, <1>4, <1>15 DEF LinkTicket
  <1>16. ASSUME NEW label, NEW then \in {"count", "totals"}, NEW field, GuardTicket(label, then, field)
         PROVE  Once'
    <2>1. Failed(FALSE) \/ Go(then) \/ \E out \in Skips \cup {"done"} : Completed(field, out)
      BY <1>16 DEF GuardTicket, Skips
    <2>2. ex'.pc \notin OnPlace BY <1>3, <1>4, <1>5, <2>1 DEF Pcs, OnPlace
    <2> QED BY <1>1, <1>16, <2>2 DEF GuardTicket
  <1>17. CASE GuardItems \/ GuardPayment BY <1>16, <1>17 DEF GuardItems, GuardPayment
  <1>18. CASE CountItems
    <2>0. UNCHANGED <<pos, sky>> BY <1>18 DEF CountItems
    <2>1. CASE Completed("items", "done") \/ Dropped(FALSE) BY <1>1, <1>3, <1>4, <2>0, <2>1
    <2>2. CASE pos[ex.ctx.ticket].items = 0 /\ Go("items")
      <3>1. ex'.pc = "items" /\ ex'.ctx = ex.ctx BY <2>2, GoEffect DEF Pcs
      <3> QED BY <1>0, <2>0, <2>2, <3>1 DEF Once
    <2> QED BY <1>18, <2>1, <2>2 DEF CountItems
  <1>19. CASE PostItems
    <2> DEFINE t == ex.ctx.ticket
    <2>0. t \in Tickets /\ pos[t].items = 0 /\ NumItems \in Nat
      BY <1>0, <1>c, <1>19 DEF PostItems, At, Once, Payload
    <2>1. ASSUME NEW n \in 0 .. NumItems, pos' = Loaded(t, n) PROVE BooksKept
      <3>0. n \in Nat /\ pos[t].items + n = n BY <2>0, <2>1
      <3>a. /\ pos'[t] = [pos[t] EXCEPT !.items = pos[t].items + n]
            /\ \A u \in Tickets \ {t} : pos'[u] = pos[u]
        BY <2>0, <2>1, <3>0, LoadedType
      <3>1. /\ pos'[t].items = n /\ pos'[t].own = pos[t].own /\ pos'[t].count = pos[t].count
            /\ \A u \in Tickets \ {t} : pos'[u] = pos[u]
        BY <1>b, <2>0, <3>0, <3>a DEF TicketType
      <3> QED BY <1>0, <1>b, <2>0, <3>1 DEF BooksKept, Once, TicketType
    <2>2. pos' = pos \/ \E n \in 0 .. NumItems : pos' = Loaded(t, n)
      <3>1. NumItems \in 0 .. NumItems /\ (NumItems > 1 => 1 \in 0 .. NumItems) BY <2>0
      <3> QED BY <1>0, <1>19, <3>1 DEF PostItems, Refused, Late, Lost
    <2>3. BooksKept BY <1>0, <2>1, <2>2, SameBooks
    <2>4. Completed("items", "done") \/ \E r \in BOOLEAN : Failed(r)
      BY <1>19 DEF PostItems, Refused, Late, Lost
    <2>5. ex'.pc \notin OnPlace BY <1>3, <1>4, <2>4
    <2>6. sky' = sky BY <1>0, <1>19 DEF PostItems, Refused, Late, Lost
    <2> QED BY <1>0, <1>a, <2>3, <2>5, <2>6, OnceQuiet
  <1>20. CASE ReadTotals
    <2> DEFINE t == ex.ctx.ticket
    <2>0. UNCHANGED <<pos, sky>> /\ t \in Tickets BY <1>c, <1>20 DEF ReadTotals, At
    <2>1. CASE Completed("paid", "done") BY <1>1, <1>4, <2>0, <2>1
    <2>2. CASE pos[t].count < Len(Asked) /\ ex' = [ex EXCEPT !.pc = "tender", !.left = Due(t)]
      <3>1. ex'.pc = "tender" /\ ex'.ctx = ex.ctx BY <2>2 DEF Typed, ExType
      <3>2. Len(Asked) = 1 => pos[t].own[1] = 0
        BY <1>0, <2>0, <2>2, OwnType DEF Once
      <3> QED BY <1>0, <2>0, <3>1, <3>2 DEF Once
    <2> QED BY <1>20, <2>1, <2>2 DEF ReadTotals
  <1>21. CASE PostTender
    <2> DEFINE t == ex.ctx.ticket
               n == Capped(ex.i)
    <2>0. t \in Tickets /\ ex.i \in Pays /\ n \in Nat
      BY <1>c, <1>21, CappedType DEF PostTender, At
    <2>1. Len(Asked) = 1 => ex.i = 1 /\ pos[t].own[1] = 0
      BY <1>0, <1>21, <2>0, OnlyPayment DEF PostTender, At, Once
    <2>2. pos' = pos \/ pos' = Tendered(t, ex.i, n) BY <1>21 DEF PostTender, Refused, Late, Lost
    <2>3. \A u \in Tickets : pos'[u].items <= NumItems
      BY <1>0, <2>0, <2>2, TenderedType DEF Once
    <2>4. ASSUME Len(Asked) = 1, NEW u \in Tickets
          PROVE  pos'[u].own[1] <= 1 /\ pos'[u].own[1] <= pos'[u].count
      <3>1. CASE pos' = pos \/ u # t
        <4>1. pos'[u] = pos[u] BY <2>0, <2>2, <3>1, TenderedType
        <4> QED BY <1>0, <2>4, <4>1 DEF Once
      <3>2. CASE pos' = Tendered(t, ex.i, n) /\ u = t
        <4>1. pos'[t].own[1] = 1
          <5>1. ex.i = 1 /\ pos[t].own[1] = 0 /\ pos[t].own \in [{1} -> Nat]
            BY <2>0, <2>1, <2>4, OwnType
          <5>2. pos'[t].own = [pos[t].own EXCEPT ![ex.i] = pos[t].own[ex.i] + 1]
            BY <2>0, <3>2, TenderedType
          <5> QED BY <5>1, <5>2
        <4>2. pos'[t].count = pos[t].count + 1 BY <2>0, <3>2, TenderedType
        <4> QED BY <2>4, <3>2, <4>1, <4>2, OwnType
      <3> QED BY <2>2, <3>1, <3>2
    <2>5. ex' = NextTender \/ \E r \in BOOLEAN : Failed(r)
      BY <1>21 DEF PostTender, Refused, Late, Lost
    <2>6. ex'.pc \notin OnPlace \/ (ex'.pc = "tender" /\ ex'.i = ex.i + 1)
      BY <1>3, <1>21, <2>5 DEF PostTender, At, NextTender, Typed, ExType
    <2>7. sky' = {} BY <1>0, <1>a, <1>21 DEF PostTender, Refused, Late, Lost
    <2>8. Len(Asked) = 1 => ~(ex'.pc = "tender" /\ ex'.i \in Pays)
      BY <2>1, <2>6, OnlyPayment DEF OnPlace
    <2>9. ex'.pc # "items" BY <2>6 DEF OnPlace
    <2> QED BY <2>3, <2>4, <2>7, <2>8, <2>9 DEF Once
  <1>22. CASE SkipTender
    <2>1. UNCHANGED <<pos, sky>> /\ ex'.pc = "tender" /\ ex'.i = ex.i + 1 /\ ex.i \in Pays
      BY <1>22 DEF SkipTender, At, Typed, ExType
    <2>2. Len(Asked) = 1 => ex'.i \notin Pays BY <2>1, OnlyPayment
    <2> QED BY <1>0, <2>1, <2>2 DEF Once
  <1>23. CASE ReadBalance BY <1>1, <1>4, <1>23 DEF ReadBalance
  <1>24. CASE Land BY <1>a, <1>24 DEF Land
  <1>25. CASE StaffActs
    <2>1. PICK t \in Tickets :
            \/ pos[t].items \in 1 .. NumItems - 1 /\ pos' = [pos EXCEPT ![t].items = NumItems]
            \/ pos' = [pos EXCEPT ![t].paid = @ + 1, ![t].count = @ + 1]
      BY <1>25 DEF StaffActs, OpenTickets, Made
    <2> DEFINE p == [pos[t] EXCEPT !.items = NumItems]
               q == [pos[t] EXCEPT !.paid = pos[t].paid + 1, !.count = pos[t].count + 1]
    <2>2. /\ p.own = pos[t].own /\ p.count = pos[t].count /\ p.items = NumItems
          /\ q.own = pos[t].own /\ q.count = pos[t].count + 1 /\ q.items = pos[t].items
      BY <1>b DEF TicketType
    <2>3. \/ pos[t].items \in 1 .. NumItems - 1 /\ pos' = [pos EXCEPT ![t] = p]
          \/ pos' = [pos EXCEPT ![t] = q]
      BY <1>b, <2>1
    <2> HIDE DEF p, q
    <2>4. /\ \/ pos'[t] = p /\ pos[t].items # 0
             \/ pos'[t] = q
          /\ \A u \in Tickets \ {t} : pos'[u] = pos[u]
      BY <2>3 DEF Typed, Payload
    <2>5. /\ \A u \in Tickets : pos[u].items <= NumItems /\ pos[u].count \in Nat
          /\ NumItems \in Nat
      BY <1>0, <1>b DEF Once, TicketType, Payload
    <2>6. BooksKept
      <3> SUFFICES ASSUME NEW u \in Tickets
                   PROVE  /\ pos'[u].items <= NumItems /\ pos'[u].own = pos[u].own
                          /\ pos'[u].count >= pos[u].count
        BY DEF BooksKept
      <3>1. CASE u = t BY <2>2, <2>4, <2>5, <3>1
      <3>2. CASE u # t BY <2>4, <2>5, <3>2
      <3> QED BY <3>1, <3>2
    <2>7. \A u \in Tickets : pos[u].items = 0 => pos'[u].items = 0 BY <2>2, <2>4
    <2> QED BY <1>0, <1>a, <1>25, <2>6, <2>7, OnceStill DEF StaffActs
  <1>26. CASE StaffCloses
    <2>1. PICK t \in Tickets : pos' = [pos EXCEPT ![t].open = FALSE]
      BY <1>26 DEF StaffCloses, OpenTickets, Made
    <2>2. \A u \in Tickets : /\ pos'[u].items = pos[u].items /\ pos'[u].own = pos[u].own
                             /\ pos'[u].count = pos[u].count
      BY <1>b, <2>1 DEF Typed, TicketType
    <2> QED BY <1>0, <1>a, <1>26, <2>2, SameBooks, OnceStill DEF StaffCloses
  <1> QED
    BY <1>6, <1>7, <1>8, <1>9, <1>10, <1>11, <1>12, <1>13, <1>14, <1>15, <1>17, <1>18, <1>19, <1>20,
       <1>21, <1>22, <1>23, <1>24, <1>25, <1>26 DEF Next

---------------------------------------------------------------------------
(* A job that completes in silence has settled its ticket.                 *)

Clean == used \cap {"late", "status"} = {}

\* All the items of a ticket are not added to.
ItemsStay == \A t \in Tickets : pos[t].items = NumItems => pos'[t].items = NumItems

\* A step that does not end a step of the job.
LEMMA SettledKept ==
  ASSUME Settled, Clean, Kept, ItemsStay, job'.status # "completed",
         order'.note # "none" \/ order'.note = order.note
  PROVE  Settled'
  BY DEF Settled, Clean, Kept, ItemsStay

\* The end of the last step.
LEMMA SettledDone ==
  ASSUME Settled, Clean, Kept, pos' = pos,
         job.ticket \in Tickets => \/ order'.note # "none"
                                   \/ job.items = "done" /\ ~(ReportsDue /\ Pays # {})
                                   \/ job.items = "done" /\ Due(job.ticket) = 0
  PROVE  Settled'
  <1>1. "done" \notin Skips BY DEF Skips
  <1> QED BY <1>1 DEF Settled, Clean, Kept, Due

LEMMA PersistSays ==
  ASSUME Typed, Persist("needs_action"), "status" \notin used' PROVE order'.note # "none"
  BY PersistEffect DEF Notes

LEMMA SettledNext ==
  ASSUME Payload, Typed, Control, Typed', Control', Once, Settled, [Next]_vars PROVE Settled'
  <1> SUFFICES ASSUME used' \cap {"late", "status"} = {} PROVE Settled' BY DEF Settled
  <1>0. Clean /\ "late" \notin used /\ ~Happens("late") /\ ~Happens("status") /\ "status" \notin used'
    BY UsedGrows DEF Happens, Clean
  <1>a. sky = {} /\ \A t \in Tickets : pos[t].items <= NumItems BY <1>0 DEF Once
  <1>b. \A t \in Tickets : pos[t] \in TicketType BY DEF Typed
  <1>c. ex.pc \notin {"idle", "next"} /\ ex.ctx.ticket # None =>
          ex.ctx.ticket = job.ticket /\ ex.ctx.items = job.items
    BY DEF Control
  <1>d. ex.pc # "idle" => job.status = "running" BY DEF Control
  <1>e. job \in JobType /\ job.step \in 1 .. 3 BY DEF Typed, JobType
  <1>f. ex.pc \in {"count", "items", "totals", "tender"} => ex.ctx.ticket \in Tickets /\ ex.ctx.ticket # None
    BY DEF Control, Payload
  \* A step that goes on, one that fails, and one that only another job step follows.
  <1>1. ASSUME UNCHANGED <<pos, job>>, ex.pc # "idle", order'.note = order.note \/ order'.note # "none"
        PROVE  Settled'
    BY <1>0, <1>1, <1>d, SettledKept DEF ItemsStay, Kept
  <1>2. ASSUME \E r \in BOOLEAN : Failed(r), ex.pc # "idle", ItemsStay PROVE Settled'
    <2>1. PICK r \in BOOLEAN : Failed(r) BY <1>2
    <2>2. Kept /\ job'.status \in {"queued", "dead"} /\ order'.note # "none"
      BY <1>2, <2>1, FailedEffect
    <2> QED BY <1>0, <1>2, <2>2, SettledKept
  <1>3. ASSUME job.step = 2, ex.pc \notin {"idle", "next"}, NEW out \in Skips \cup {"done"},
               Completed("items", out),
               job.ticket \in Tickets /\ out = "done" => pos'[job.ticket].items = NumItems,
               job.ticket \in Tickets /\ out \in Skips => order'.note # "none"
        PROVE  Settled'
    <2>1. job'.step = 3 /\ job'.ticket = job.ticket /\ job'.items = out /\ job'.status = "running"
      BY <1>3, <1>d, CompletedEffect
    <2> QED BY <1>3, <2>1 DEF Settled
  <1>4. ASSUME job.step = 3, NEW out, Completed("paid", out), pos' = pos,
               job.ticket \in Tickets => \/ order'.note # "none"
                                         \/ job.items = "done" /\ ~(ReportsDue /\ Pays # {})
                                         \/ job.items = "done" /\ Due(job.ticket) = 0
        PROVE  Settled'
    <2>1. Kept BY <1>4, CompletedEffect
    <2> QED BY <1>0, <1>4, <2>1, SettledDone
  <1>5. ASSUME job'.ticket \notin Tickets PROVE Settled'
    BY <1>5 DEF Settled
  <1>6. CASE UNCHANGED vars BY <1>6 DEF vars, Settled, Due
  <1>7. CASE Enqueue
    <2>1. Kept /\ job'.status = "queued" BY <1>7, <1>e DEF Enqueue, Kept, JobType
    <2> QED BY <1>0, <1>7, <2>1, SettledKept DEF Enqueue, ItemsStay
  <1>8. CASE ReadContext
    <2>1. Kept /\ job'.status = "running" BY <1>8, <1>e DEF ReadContext, Kept, JobType
    <2> QED BY <1>0, <1>8, <2>1, SettledKept DEF ReadContext, ItemsStay
  <1>9. CASE Crash
    <2>1. Kept /\ job'.status = "queued" BY <1>9, <1>e DEF Crash, Kept, JobType
    <2> QED BY <1>0, <1>9, <2>1, SettledKept DEF Crash, ItemsStay
  <1>10. CASE CallFails BY <1>2, <1>10 DEF CallFails, ItemsStay
  <1>11. CASE GuardCreate
    <2>1. CASE UNCHANGED job BY <1>1, <1>11, <2>1 DEF GuardCreate, At
    <2>2. CASE Stop # "go" /\ Completed("ticket", Stop)
      <3>1. Stop \in Skips BY <2>2, StopType
      <3>2. job.step = 1 BY <1>11 DEF GuardCreate, At, Control, Creates
      <3>3. job'.ticket \in Skips BY <2>2, <3>1, <3>2, CompletedEffect
      <3> QED BY <1>5, <3>3 DEF Payload
    <2> QED BY <1>11, <2>1, <2>2 DEF GuardCreate
  <1>12. CASE FindByName \/ ScanAll BY <1>1, <1>12 DEF FindByName, ScanAll, At
  <1>13. CASE MarkAttempt
    <2>1. ex.ctx.ticket = None
      BY <1>13 DEF MarkAttempt, At, Control, Creates
    <2>2. job'.ticket = None BY <1>13, <1>e, <2>1 DEF MarkAttempt, JobType
    <2> QED BY <1>5, <2>2 DEF Payload
  <1>14. CASE PostTicket
    <2>1. job.step = 1 /\ job.ticket = None /\ ex.pc = "open"
      BY <1>14 DEF PostTicket, At, Control, Creates
    <2>2. job'.ticket = None
      <3>1. CASE job' = job BY <2>1, <3>1
      <3>2. CASE \E r \in BOOLEAN : Failed(r) BY <2>1, <3>2, FailedEffect DEF Kept
      <3> QED BY <1>14, <3>1, <3>2 DEF PostTicket, Refused, Late, Lost
    <2> QED BY <1>5, <2>2 DEF Payload
  <1>15. CASE LinkTicket
    <2>1. ex.t \in Tickets /\ job.step = 1 /\ job.items = None /\ job.status = "running"
      BY <1>15, <1>d DEF LinkTicket, At, Control, Creates
    <2>2. job'.step = 2 /\ job'.items = None /\ job'.status = "running"
      BY <1>15, <2>1, CompletedEffect DEF LinkTicket
    <2> QED BY <2>2 DEF Settled, Payload
  <1>16. CASE GuardItems
    <2>0. ex.pc = "guard2" /\ job.step = 2 /\ pos' = pos /\ job.items = None
      BY <1>16 DEF GuardItems, GuardTicket, At, Control, Loads
    <2>1. CASE ex.ctx.ticket \in Skips /\ Completed("items", ex.ctx.ticket)
      <3>1. job.ticket \in Skips /\ job.ticket \notin Tickets BY <1>c, <2>0, <2>1 DEF Payload
      <3> QED BY <1>3, <2>0, <2>1, <3>1
    <2>2. CASE Failed(FALSE) BY <1>2, <2>0, <2>2 DEF ItemsStay
    <2>3. CASE Stop = "resolved" /\ Completed("items", Stop) /\ order' = order
      <3>1. order.note = "resolved" BY <2>3 DEF Stop
      <3> QED BY <1>3, <2>0, <2>3, <3>1 DEF Skips
    <2>4. CASE Stop = "cancelled" /\ Persist("needs_action") /\ Completed("items", Stop)
      BY <1>0, <1>3, <2>0, <2>4, PersistSays DEF Skips
    <2>5. CASE UNCHANGED <<job, order>> BY <1>1, <2>0, <2>5
    <2> QED BY <1>16, <2>1, <2>2, <2>3, <2>4, <2>5 DEF GuardItems, GuardTicket
  <1>17. CASE CountItems
    <2> DEFINE t == ex.ctx.ticket
    <2>0. ex.pc = "count" /\ job.step = 2 /\ pos' = pos /\ t \in Tickets /\ job.ticket = t
      BY <1>17, <1>c, <1>f DEF CountItems, At, Control, Loads
    <2>1. CASE pos[t].items >= NumItems /\ Completed("items", "done")
      <3>1. pos[t].items = NumItems BY <1>a, <1>b, <2>0, <2>1 DEF Payload, TicketType
      <3> QED BY <1>3, <2>0, <2>1, <3>1 DEF Skips
    <2>2. CASE UNCHANGED <<job, order>> BY <1>1, <2>0, <2>2
    <2>3. CASE Persist("needs_action") /\ Dropped(FALSE)
      <3>1. Kept /\ job'.status \in {"queued", "dead"} BY <2>0, <2>3, DroppedEffect
      <3> QED BY <1>0, <2>0, <2>3, <3>1, PersistSays, SettledKept DEF ItemsStay
    <2> QED BY <1>17, <2>1, <2>2, <2>3 DEF CountItems
  <1>18. CASE PostItems
    <2> DEFINE t == ex.ctx.ticket
    <2>0. ex.pc = "items" /\ job.step = 2 /\ t \in Tickets /\ job.ticket = t /\ pos[t].items = 0
          /\ NumItems \in Nat /\ job.items = None
      BY <1>0, <1>18, <1>c, <1>f DEF PostItems, At, Control, Loads, Once, Payload
    <2>1. CASE pos' = Loaded(t, NumItems) /\ Completed("items", "done")
      <3>1. pos'[t] = [pos[t] EXCEPT !.items = pos[t].items + NumItems] BY <2>0, <2>1, LoadedType
      <3>2. pos'[t].items = NumItems BY <1>b, <2>0, <3>1 DEF TicketType
      <3> QED BY <1>3, <2>0, <2>1, <3>2 DEF Skips
    <2>2. CASE \E r \in BOOLEAN : Failed(r)
      <3>1. PICK r \in BOOLEAN : Failed(r) BY <2>2
      <3>2. job'.items = None /\ job'.status # "completed" /\ None # "done" /\ None \notin Skips
        BY <2>0, <3>1, FailedEffect DEF Kept, Payload
      <3> QED BY <3>2 DEF Settled
    <2>3. (pos' = Loaded(t, NumItems) /\ Completed("items", "done")) \/ \E r \in BOOLEAN : Failed(r)
      BY <1>18 DEF PostItems, Refused, Late, Lost
    <2> QED BY <2>1, <2>2, <2>3
  <1>19. CASE GuardPayment
    <2>0. ex.pc = "guard3" /\ job.step = 3 /\ pos' = pos
      BY <1>19 DEF GuardPayment, GuardTicket, At, Control, Tenders
    <2>1. CASE ex.ctx.ticket \in Skips /\ Completed("paid", ex.ctx.ticket)
      <3>1. job.ticket \notin Tickets BY <1>c, <2>0, <2>1 DEF Payload
      <3> QED BY <1>4, <2>0, <2>1, <3>1
    <2>2. CASE Failed(FALSE) BY <1>2, <2>0, <2>2 DEF ItemsStay
    <2>3. CASE /\ ex.ctx.ticket \in Tickets /\ ex.ctx.items \in Skips
               /\ Completed("paid", "done") /\ order' = order
      <3>1. job.ticket \in Tickets /\ job.items \in Skips BY <1>c, <2>0, <2>3 DEF Payload
      <3>2. order.note # "none" BY <1>0, <2>0, <3>1 DEF Settled, Clean
      <3> QED BY <1>4, <2>0, <2>3, <3>2
    <2>4. CASE Stop = "resolved" /\ Completed("paid", Stop) /\ order' = order
      <3>1. order.note = "resolved" BY <2>4 DEF Stop
      <3> QED BY <1>4, <2>0, <2>4, <3>1
    <2>5. CASE Persist("needs_action") /\ Completed("paid", Stop)
      BY <1>0, <1>4, <2>0, <2>5, PersistSays
    <2>6. CASE UNCHANGED <<job, order>> BY <1>1, <2>0, <2>6
    <2> QED BY <1>19, <2>1, <2>2, <2>3, <2>4, <2>5, <2>6 DEF GuardPayment, GuardTicket
  <1>20. CASE ReadTotals
    <2> DEFINE t == ex.ctx.ticket
    <2>0. ex.pc = "totals" /\ job.step = 3 /\ pos' = pos /\ t \in Tickets /\ job.ticket = t
          /\ job.items = "done"
      BY <1>20, <1>c, <1>f DEF ReadTotals, At, Control, Tenders
    <2>1. CASE NothingToPay(t) /\ Completed("paid", "done")
      BY <1>4, <2>0, <2>1 DEF NothingToPay
    <2>2. CASE Persist("needs_action") /\ Completed("paid", "done")
      BY <1>0, <1>4, <2>0, <2>2, PersistSays
    <2>3. CASE UNCHANGED <<job, order>> BY <1>1, <2>0, <2>3
    <2> QED BY <1>20, <2>1, <2>2, <2>3 DEF ReadTotals
  <1>21. CASE PostTender
    <2> DEFINE t == ex.ctx.ticket
               n == Capped(ex.i)
    <2>0. ex.pc = "tender" /\ t \in Tickets /\ ex.i \in Pays /\ n \in Nat
      BY <1>21, <1>f, CappedType DEF PostTender, At
    <2>1. ItemsStay
      <3>1. pos' = pos \/ pos' = Tendered(t, ex.i, n) BY <1>21 DEF PostTender, Refused, Late, Lost
      <3> QED BY <2>0, <3>1, TenderedType DEF ItemsStay
    <2>2. CASE UNCHANGED <<order, job>>
      BY <1>0, <1>d, <2>0, <2>1, <2>2, SettledKept DEF Kept
    <2>3. CASE \E r \in BOOLEAN : Failed(r) BY <1>2, <2>0, <2>1, <2>3
    <2>4. UNCHANGED <<order, job>> \/ \E r \in BOOLEAN : Failed(r)
      BY <1>21 DEF PostTender, Refused, Late, Lost
    <2> QED BY <2>2, <2>3, <2>4
  <1>22. CASE SkipTender BY <1>1, <1>22 DEF SkipTender, At
  <1>23. CASE ReadBalance
    <2> DEFINE t == ex.ctx.ticket
    <2>0. ex.pc = "tender" /\ job.step = 3 /\ pos' = pos /\ t \in Tickets /\ job.ticket = t
          /\ job.items = "done" /\ Completed("paid", "done")
      BY <1>23, <1>c, <1>f DEF ReadBalance, At, Control, Tenders
    <2>1. Persist("needs_action") \/ ~ReportsDue \/ Due(t) = 0
      BY <1>0, <1>23 DEF ReadBalance
    <2> QED BY <1>0, <1>4, <2>0, <2>1, PersistSays
  <1>24. CASE Land BY <1>a, <1>24 DEF Land
  <1>25. CASE RetryDeadLetter
    <2>1. Kept /\ job'.status = "queued" BY <1>25, <1>e DEF RetryDeadLetter, Kept, JobType
    <2> QED BY <1>0, <1>25, <2>1, SettledKept DEF RetryDeadLetter, ItemsStay
  <1>26. CASE Cancel \/ Resolve
    <2>1. order'.note = order.note \/ (order.note # "none" /\ order'.note # "none")
      BY <1>26 DEF Cancel, Resolve, Typed, OrderType
    <2> QED BY <1>0, <1>26, <2>1 DEF Cancel, Resolve, Settled, Due, Clean
  <1>27. CASE StaffActs
    <2>1. PICK t \in Tickets :
            \/ pos[t].items \in 1 .. NumItems - 1 /\ pos' = [pos EXCEPT ![t].items = NumItems]
            \/ Due(t) > 0 /\ pos' = [pos EXCEPT ![t].paid = @ + 1, ![t].count = @ + 1]
      BY <1>27 DEF StaffActs, OpenTickets, Made
    <2>2. pos[t].items # NumItems \/ pos'[t].items = pos[t].items
      BY <1>b, <2>1 DEF Typed, TicketType, Payload
    <2>3. pos[t].items # NumItems \/ Due(t) # 0 BY <2>1, DueType DEF Payload
    <2>4. \A u \in Tickets \ {t} : pos'[u] = pos[u] BY <2>1 DEF Typed
    <2>5. ItemsStay BY <2>2, <2>4 DEF ItemsStay
    <2>6. CASE job.ticket \in Tickets /\ job.items = "done" /\ job.ticket = t
      <3>1. pos[t].items = NumItems BY <1>0, <2>6 DEF Settled, Clean
      <3>2. Due(t) # 0 BY <2>3, <3>1
      <3> QED BY <1>0, <1>27, <2>5, <2>6, <3>2 DEF StaffActs, ItemsStay, Settled, Clean
    <2>7. CASE job.ticket \in Tickets /\ job.items = "done" /\ job.ticket # t
      BY <1>0, <1>27, <2>4, <2>7 DEF StaffActs, Settled, Clean, Due
    <2>8. CASE job.ticket \in Tickets /\ job.items # "done"
      <3>1. job.step = 3 => order.note # "none" BY <1>0, <2>8 DEF Control, Settled, Clean
      <3>2. job.status = "completed" => job.step = 3 BY DEF Control
      <3> QED BY <1>0, <1>27, <2>5, <2>8, <3>1, <3>2 DEF StaffActs, ItemsStay, Settled, Clean
    <2>9. CASE job.ticket \notin Tickets BY <1>5, <1>27, <2>9 DEF StaffActs
    <2> QED BY <2>6, <2>7, <2>8, <2>9
  <1>28. CASE StaffCloses
    <2>1. PICK t \in Tickets : pos' = [pos EXCEPT ![t].open = FALSE]
      BY <1>28 DEF StaffCloses, OpenTickets, Made
    <2>2. \A u \in Tickets : pos'[u].items = pos[u].items /\ pos'[u].paid = pos[u].paid
      BY <1>b, <2>1 DEF Typed, TicketType
    <2> QED BY <1>0, <1>28, <2>2 DEF StaffCloses, Settled, Clean, Due
  <1> QED
    BY <1>6, <1>7, <1>8, <1>9, <1>10, <1>11, <1>12, <1>13, <1>14, <1>15, <1>16, <1>17, <1>18, <1>19,
       <1>20, <1>21, <1>22, <1>23, <1>24, <1>25, <1>26, <1>27, <1>28 DEF Next

LEMMA OrderInit == ASSUME Payload PROVE Init => OneTicket /\ Once /\ Settled
  <1> SUFFICES ASSUME Init PROVE OneTicket /\ Once /\ Settled OBVIOUS
  <1>1. ex.pc = "idle" BY IdleType DEF Init
  <1>2. \A t \in Tickets : pos[t] = NoTicket BY DEF Init
  <1>3. OneTicket
    <2>1. ~NoTicket.open BY DEF NoTicket
    <2> QED BY <1>1, <1>2, <2>1 DEF Init, OneTicket, Payload
  <1>4. Once
    <2>1. NoTicket.items = 0 /\ NoTicket.count = 0 /\ NoTicket.own = [i \in Pays |-> 0]
      BY DEF NoTicket
    <2>2. Len(Asked) = 1 => NoTicket.own[1] = 0 BY <2>1, OnlyPayment
    <2>3. NumItems >= 0 BY DEF Payload
    <2> QED BY <1>1, <1>2, <2>1, <2>2, <2>3 DEF Init, Once
  <1>5. Settled BY DEF Init, Settled, Payload
  <1> QED BY <1>3, <1>4, <1>5

\* The inductive invariant of the order_injection job.
OrderInv == Typed /\ Control /\ OneTicket /\ Once /\ Settled

LEMMA OrderInvHolds == ASSUME Payload PROVE Spec => []OrderInv
  <1>1. Init => OrderInv BY SteadyInit, OrderInit DEF OrderInv
  <1>2. OrderInv /\ [Next]_vars => OrderInv'
    BY SteadyNext, TicketNext, OnceNext, SettledNext DEF OrderInv
  <1> QED BY <1>1, <1>2, PTL DEF Spec

\* Whatever is lost, crashes or is retried, for every payload and any number of faults:
\* the job opens one ticket at most, puts the items on it once and tenders a single
\* payment once (create-order.ts, add-items.ts, create-payment.ts), except where
\* NothingTwice says that no search could have told.
THEOREM OrderNothingTwice == ASSUME Payload PROVE Spec => []NothingTwice
  <1>1. OrderInv => NothingTwice
    <2> SUFFICES ASSUME OrderInv PROVE NothingTwice OBVIOUS
    <2>1. ~Uncertain => Cardinality(Made) <= 1 BY OneTicketSays DEF OrderInv
    <2>2. job.search # "never" /\ {"late", "blind", "close"} \cap used = {} => ~Uncertain
      BY DEF Uncertain
    <2>3. Made \subseteq Tickets BY DEF Made
    <2>4. Once BY DEF OrderInv
    <2> QED BY <2>1, <2>2, <2>3, <2>4 DEF NothingTwice, Once
  <1> QED BY <1>1, OrderInvHolds, PTL

\* A job that completed without a mark on the order has its ticket linked, its items on
\* it and, at a POS that reports the balance, none left (create-payment.ts:59-62).
THEOREM OrderSilentMeansSettled == ASSUME Payload PROVE Spec => []SilentMeansSettled
  <1>1. OrderInv => SilentMeansSettled
    <2> SUFFICES ASSUME OrderInv, job.status = "completed", order.note = "none", job.ticket \in Tickets,
                        "status" \notin used, "late" \notin used, ReportsDue
                 PROVE  /\ order.posId = job.ticket /\ pos[job.ticket].items = NumItems
                        /\ Pays # {} => Due(job.ticket) = 0
      BY DEF SilentMeansSettled
    <2>1. job.step = 3 BY DEF OrderInv, Control
    <2>2. order.posId = job.ticket /\ job.items \in Skips \cup {"done"}
      BY <2>1 DEF OrderInv, Control
    <2>3. used \cap {"late", "status"} = {} OBVIOUS
    <2>4. job.items = "done" BY <2>1, <2>2, <2>3 DEF OrderInv, Settled
    <2> QED BY <2>2, <2>3, <2>4 DEF OrderInv, Settled
  <1> QED BY <1>1, OrderInvHolds, PTL

---------------------------------------------------------------------------
(* CloverOrder.  A push opens one order, and leaves its lines in it.       *)

\* What the constants are: references and orders are told from none, and the
\* versions are bags.
PushesGiven ==
  /\ None \notin Ids /\ \A x, y : <<x, y>> # None
  /\ BulkMax \in Nat /\ Len(Versions) \in Nat /\ \A v \in 1 .. Len(Versions) : Clover!IsABag(Versions[v])

\* The shape of what is stored.
JobFields == {"status", "step", "attempts", "pc", "order", "lines", "total", "del", "add", "sig", "bill"}
PushesShaped ==
  /\ DOMAIN clover = Ids /\ \A o \in Ids : DOMAIN clover[o] = {"ref", "lines", "total", "paid"}
  /\ DOMAIN row = {"ticket", "hash", "error", "seed", "supplements"}
  /\ \A e \in row.supplements : e = [sig |-> e.sig, id |-> e.id]
  /\ \A j \in DOMAIN job : DOMAIN job[j] = JobFields

\* Which places a job has in each of its states and steps.
FirstStep  == {"adopt", "find", "post", "link"}
PlacedRight(r, primary) ==
  /\ r.status \in {"queued", "running", "completed", "dead"} /\ r.step \in {1, 2}
  /\ r.pc # "idle" => r.status = "running"
  /\ r.status = "completed" => r.step = 2
  /\ r.pc \notin FirstStep \cup {"idle"} => r.step = 2
  /\ r.pc \in {"hash", "claim", "bill", "enqueue", "save"} => primary

\* The jobs are pushes, numbered without a gap, and supplements; a push carries the lines
\* of its version; the hash on the row is that of a push that completed.
PushesControlled ==
  /\ \A j \in DOMAIN job :
       /\ j[1] = 0 \/ \E v \in 1 .. Len(Versions) : j = Clover!Push(v)
       /\ j = <<j[1], j[2]>>
       /\ PlacedRight(job[j], Clover!Primary(j))
  /\ \E n \in 0 .. Len(Versions) : \A v \in Nat \ {0} : Clover!Push(v) \in DOMAIN job <=> v <= n
  /\ \A v \in 1 .. Len(Versions) : Clover!Push(v) \in DOMAIN job => job[Clover!Push(v)].lines = Versions[v]
  /\ row.hash \in Nat
  /\ row.hash # 0 => Clover!Push(row.hash) \in DOMAIN job /\ job[Clover!Push(row.hash)].status = "completed"

\* The Clover order a job, the row or the manifest names is one of its own; a push
\* that bills a supplement has found its own paid.
NamedRight(c, r, ref) ==
  /\ r.step = 2 \/ r.pc = "link" => r.order \in Ids
  /\ r.order # None => r.order \in Ids /\ c[r.order].ref = ref
  /\ r.pc \in {"claim", "bill", "enqueue"} => c[r.order].paid
RowNamed ==
  /\ row.ticket # None => row.ticket \in Ids /\ clover[row.ticket].ref = Clover!Push(1)
  /\ \A e \in row.supplements : e.id # None => e.id \in Ids /\ clover[e.id].ref = Clover!Supp(e.sig)
PushesNamed == RowNamed /\ \A j \in DOMAIN job : NamedRight(clover, job[j], Clover!Ref(j))

LEMMA PushesShapedStep ==
  ASSUME PushesShaped, [Clover!Next]_(Clover!vars) PROVE PushesShaped'
<1>1. CASE Clover!PushVersion
  BY <1>1 DEF PushesShaped, JobFields, Clover!PushVersion, Clover!Queued
<1>2. ASSUME NEW j \in DOMAIN job, Clover!Start(j) PROVE PushesShaped'
  BY <1>2 DEF PushesShaped, JobFields, Clover!Start
<1>3. ASSUME NEW j \in DOMAIN job, Clover!Crash(j) PROVE PushesShaped'
  BY <1>3 DEF PushesShaped, JobFields, Clover!Crash, Clover!Rested
<1>4. ASSUME NEW j \in DOMAIN job, Clover!RetryDeadLetter(j) PROVE PushesShaped'
  BY <1>4 DEF PushesShaped, JobFields, Clover!RetryDeadLetter
<1>5. ASSUME NEW j \in DOMAIN job, Clover!RequestFails(j) PROVE PushesShaped'
  BY <1>5 DEF PushesShaped, JobFields, Clover!RequestFails, Clover!Thrown, Clover!Rested,
     Clover!At
<1>6. ASSUME NEW j \in DOMAIN job, Clover!Adopt(j) PROVE PushesShaped'
  BY <1>6 DEF PushesShaped, JobFields, Clover!Adopt, Clover!At, Clover!Go, Clover!Created
<1>7. ASSUME NEW j \in DOMAIN job, Clover!FindByRef(j) PROVE PushesShaped'
  BY <1>7 DEF PushesShaped, JobFields, Clover!FindByRef, Clover!At, Clover!Go
<1>8. ASSUME NEW j \in DOMAIN job, Clover!PostOrder(j) PROVE PushesShaped'
  BY <1>8 DEF PushesShaped, JobFields, Clover!PostOrder, Clover!At, Clover!Thrown, Clover!Rested
<1>9. ASSUME NEW j \in DOMAIN job, Clover!LinkOrder(j) PROVE PushesShaped'
  <2>1. \/ row' = row \/ row' = Clover!WithTicket(job[j].order)
        \/ row' = Clover!WithSupplement(j[2], job[j].order)
    BY <1>9 DEF Clover!LinkOrder, Clover!Logged
  <2>2. DOMAIN row' = DOMAIN row /\ \A e \in row'.supplements : e = [sig |-> e.sig, id |-> e.id]
    <3>1. row'.supplements \subseteq row.supplements \cup {[sig |-> j[2], id |-> job[j].order]}
      BY <2>1 DEF PushesShaped, Clover!WithTicket, Clover!WithSupplement
    <3>2. DOMAIN row' = DOMAIN row
      BY <2>1 DEF Clover!WithTicket, Clover!WithSupplement
    <3> QED BY <3>1, <3>2 DEF PushesShaped
  <2> QED BY <1>9, <2>2 DEF PushesShaped, JobFields, Clover!LinkOrder, Clover!Created
<1>10. ASSUME NEW j \in DOMAIN job, Clover!ReadHash(j) PROVE PushesShaped'
  BY <1>10 DEF PushesShaped, JobFields, Clover!ReadHash, Clover!At, Clover!Go,
     Clover!Completed, Clover!Rested
<1>11. ASSUME NEW j \in DOMAIN job, Clover!GetOrder(j) PROVE PushesShaped'
  BY <1>11 DEF PushesShaped, JobFields, Clover!GetOrder, Clover!At
<1>12. ASSUME NEW j \in DOMAIN job, Clover!DeleteLine(j) PROVE PushesShaped'
  BY <1>12 DEF PushesShaped, JobFields, Clover!DeleteLine, Clover!At
<1>13. ASSUME NEW j \in DOMAIN job, Clover!Deleted(j) PROVE PushesShaped'
  BY <1>13 DEF PushesShaped, JobFields, Clover!Deleted, Clover!At, Clover!Go
<1>14. ASSUME NEW j \in DOMAIN job, Clover!BulkCreate(j) PROVE PushesShaped'
  BY <1>14 DEF PushesShaped, JobFields, Clover!BulkCreate, Clover!At, Clover!Thrown,
     Clover!Rested
<1>15. ASSUME NEW j \in DOMAIN job, Clover!Filled(j) PROVE PushesShaped'
  BY <1>15 DEF PushesShaped, JobFields, Clover!Filled, Clover!At, Clover!Go
<1>16. ASSUME NEW j \in DOMAIN job, Clover!SetTotal(j) PROVE PushesShaped'
  BY <1>16 DEF PushesShaped, JobFields, Clover!SetTotal, Clover!At, Clover!Go,
     Clover!Completed, Clover!Rested
<1>17. ASSUME NEW j \in DOMAIN job, Clover!SaveHash(j) PROVE PushesShaped'
  BY <1>17 DEF PushesShaped, JobFields, Clover!SaveHash, Clover!At, Clover!Logged,
     Clover!Completed, Clover!Rested
<1>18. ASSUME NEW j \in DOMAIN job, Clover!Claim(j) PROVE PushesShaped'
  <2> DEFINE delta == Clover!Unbilled(j)
         claimed == [row EXCEPT !.seed = <<Clover!Seed(j)>>]
  <2>1. \/ row' = claimed \/ row' = [claimed EXCEPT !.error = "removed"]
        \/ row' = [claimed EXCEPT !.supplements = @ \cup {[sig |-> delta, id |-> None]}]
    BY <1>18 DEF Clover!Claim
  <2>2. DOMAIN row' = DOMAIN row /\ \A e \in row'.supplements : e = [sig |-> e.sig, id |-> e.id]
    <3>1. row'.supplements \subseteq row.supplements \cup {[sig |-> delta, id |-> None]}
      BY <2>1 DEF PushesShaped
    <3>2. DOMAIN row' = DOMAIN row
      BY <2>1
    <3> QED BY <3>1, <3>2 DEF PushesShaped
  <2> QED BY <1>18, <2>2 DEF PushesShaped, JobFields, Clover!Claim, Clover!Go
<1>19. ASSUME NEW j \in DOMAIN job, Clover!Bill(j) PROVE PushesShaped'
  BY <1>19 DEF PushesShaped, JobFields, Clover!Bill, Clover!At, Clover!Go, Clover!BillWith
<1>20. ASSUME NEW j \in DOMAIN job, Clover!EnqueueSupplement(j) PROVE PushesShaped'
  BY <1>20 DEF PushesShaped, JobFields, Clover!EnqueueSupplement, Clover!At, Clover!Queued,
     Clover!Supp
<1>21. ASSUME NEW o \in Ids, Clover!Pay(o) PROVE PushesShaped'
  BY <1>21 DEF PushesShaped, JobFields, Clover!Pay
<1>22. CASE UNCHANGED Clover!vars
  BY <1>22 DEF PushesShaped, JobFields, Clover!vars
<1> QED BY <1>1, <1>2, <1>3, <1>4, <1>5, <1>6, <1>7, <1>8, <1>9, <1>10, <1>11, <1>12, <1>13,
           <1>14, <1>15, <1>16, <1>17, <1>18, <1>19, <1>20, <1>21, <1>22 DEF Clover!Next

LEMMA LatestPush ==
  ASSUME PushesGiven, PushesControlled
  PROVE  /\ Clover!Latest \in 0 .. Len(Versions)
         /\ \A v \in Nat \ {0} : Clover!Push(v) \in DOMAIN job <=> v <= Clover!Latest
<1>1. PICK n \in 0 .. Len(Versions) : \A v \in Nat \ {0} : Clover!Push(v) \in DOMAIN job <=> v <= n
  BY DEF PushesControlled
<1>2. /\ Clover!Push(n + 1) \notin DOMAIN job /\ (n = 0 \/ Clover!Push(n) \in DOMAIN job)
      /\ \A v \in 0 .. Len(Versions) :
           Clover!Push(v + 1) \notin DOMAIN job /\ (v = 0 \/ Clover!Push(v) \in DOMAIN job) => v = n
  BY <1>1 DEF PushesGiven
<1>3. Clover!Latest = n
  BY <1>2 DEF Clover!Latest
<1> QED BY <1>1, <1>3

\* What a step of one job leaves alone, and where it may take it.
ItMoves(j) ==
  /\ DOMAIN job' = DOMAIN job /\ \A k \in DOMAIN job \ {j} : job'[k] = job[k]
  /\ job'[j].lines = job[j].lines
  /\ PlacedRight(job'[j], Clover!Primary(j))
  /\ job[j].status # "completed"
  /\ \/ row'.hash = row.hash
     \/ job'[j].status = "completed" /\ Clover!Primary(j) /\ row'.hash = j[1]

LEMMA MoveControlled ==
  ASSUME PushesGiven, PushesControlled, NEW j \in DOMAIN job, ItMoves(j) PROVE PushesControlled'
<1>1. \A k \in DOMAIN job' : job'[k].lines = job[k].lines
  BY DEF ItMoves
<1>2. \A k \in DOMAIN job' :
        /\ PlacedRight(job'[k], Clover!Primary(k))
        /\ job[k].status = "completed" => job'[k].status = "completed"
  BY DEF ItMoves, PushesControlled
<1>3. row'.hash \in Nat
      /\ (row'.hash # 0 => Clover!Push(row'.hash) \in DOMAIN job' /\ job'[Clover!Push(row'.hash)].status = "completed")
  <2>1. CASE row'.hash = row.hash
    BY <1>2, <2>1 DEF ItMoves, PushesControlled
  <2>2. CASE job'[j].status = "completed" /\ Clover!Primary(j) /\ row'.hash = j[1]
    <3>1. PICK v \in 1 .. Len(Versions) : j = Clover!Push(v)
      BY <2>2 DEF PushesControlled, Clover!Primary
    <3> QED BY <2>2, <3>1 DEF ItMoves, Clover!Push
  <2> QED BY <2>1, <2>2 DEF ItMoves
<1> QED BY <1>1, <1>2, <1>3 DEF ItMoves, PushesControlled

Only(j) == DOMAIN job' = DOMAIN job /\ \A k \in DOMAIN job \ {j} : job'[k] = job[k]

\* The forms a step of a job takes.
LEMMA ItGoes ==
  ASSUME PushesShaped, NEW j \in DOMAIN job, NEW pc, Clover!Go(j, pc)
  PROVE  /\ Only(j)
         /\ job'[j].status = job[j].status
         /\ job'[j].step = job[j].step
         /\ job'[j].pc = pc
         /\ job'[j].order = job[j].order
         /\ job'[j].lines = job[j].lines
         /\ job'[j].del = job[j].del
         /\ job'[j].add = job[j].add
  BY DEF PushesShaped, JobFields, Only, Clover!Go
LEMMA ItCompletes ==
  ASSUME PushesShaped, NEW j \in DOMAIN job, Clover!Completed(j)
  PROVE  /\ Only(j)
         /\ job'[j].status = "completed"
         /\ job'[j].step = job[j].step
         /\ job'[j].pc = "idle"
         /\ job'[j].order = job[j].order
         /\ job'[j].lines = job[j].lines
         /\ job'[j].del = Clover!EmptyBag
         /\ job'[j].add = Clover!EmptyBag
  BY DEF PushesShaped, JobFields, Only, Clover!Completed, Clover!Rested
LEMMA ItIsCreated ==
  ASSUME PushesShaped, NEW j \in DOMAIN job, NEW o, Clover!Created(j, o)
  PROVE  /\ Only(j)
         /\ job'[j].status = job[j].status
         /\ job'[j].step = 2
         /\ job'[j].pc = IF Clover!Primary(j) THEN "hash" ELSE "get"
         /\ job'[j].order = o
         /\ job'[j].lines = job[j].lines
         /\ job'[j].del = job[j].del
         /\ job'[j].add = job[j].add
  BY DEF PushesShaped, JobFields, Only, Clover!Created
LEMMA ItThrows ==
  ASSUME PushesShaped, NEW j \in DOMAIN job, NEW retryable, Clover!Thrown(j, retryable)
  PROVE  /\ Only(j)
         /\ job'[j].status \in {"queued", "dead"}
         /\ job'[j].step = job[j].step
         /\ job'[j].pc = "idle"
         /\ job'[j].order = job[j].order
         /\ job'[j].lines = job[j].lines
         /\ job'[j].del = Clover!EmptyBag
         /\ job'[j].add = Clover!EmptyBag
         /\ row'.hash = row.hash
  BY DEF PushesShaped, JobFields, Only, Clover!Thrown, Clover!Rested
LEMMA ItCrashes ==
  ASSUME PushesShaped, NEW j \in DOMAIN job, Clover!Crash(j)
  PROVE  /\ Only(j)
         /\ job'[j].status = "queued"
         /\ job'[j].step = job[j].step
         /\ job'[j].pc = "idle"
         /\ job'[j].order = job[j].order
         /\ job'[j].lines = job[j].lines
         /\ job'[j].del = Clover!EmptyBag
         /\ job'[j].add = Clover!EmptyBag
  BY DEF PushesShaped, JobFields, Only, Clover!Crash, Clover!Rested
LEMMA ItStarts ==
  ASSUME PushesShaped, NEW j \in DOMAIN job, Clover!Start(j)
  PROVE  /\ Only(j)
         /\ job'[j].status = "running"
         /\ job'[j].step = job[j].step
         /\ job'[j].pc = IF job[j].step = 1 THEN "adopt" ELSE IF Clover!Primary(j) THEN "hash" ELSE "get"
         /\ job'[j].order = job[j].order
         /\ job'[j].lines = job[j].lines
         /\ job'[j].del = job[j].del
         /\ job'[j].add = job[j].add
  BY DEF PushesShaped, JobFields, Only, Clover!Start
LEMMA ItIsRetried ==
  ASSUME PushesShaped, NEW j \in DOMAIN job, Clover!RetryDeadLetter(j)
  PROVE  /\ Only(j)
         /\ job'[j].status = "queued"
         /\ job'[j].step = job[j].step
         /\ job'[j].pc = job[j].pc
         /\ job'[j].order = job[j].order
         /\ job'[j].lines = job[j].lines
         /\ job'[j].del = job[j].del
         /\ job'[j].add = job[j].add
  BY DEF PushesShaped, JobFields, Only, Clover!RetryDeadLetter
LEMMA ItIsNamed ==
  ASSUME PushesShaped, NEW j \in DOMAIN job, NEW o, job' = [job EXCEPT ![j].pc = "link",
         ![j].order = o]
  PROVE  /\ Only(j)
         /\ job'[j].status = job[j].status
         /\ job'[j].step = job[j].step
         /\ job'[j].pc = "link"
         /\ job'[j].order = o
         /\ job'[j].lines = job[j].lines
         /\ job'[j].del = job[j].del
         /\ job'[j].add = job[j].add
  BY DEF PushesShaped, JobFields, Only
LEMMA ItCompares ==
  ASSUME PushesShaped, NEW j \in DOMAIN job, Clover!GetOrder(j)
  PROVE  /\ Only(j)
         /\ job'[j].status = job[j].status
         /\ job'[j].step = job[j].step
         /\ job'[j].pc = IF clover[job[j].order].paid /\ Clover!Primary(j) THEN "claim" ELSE "delete"
         /\ job'[j].order = job[j].order
         /\ job'[j].lines = job[j].lines
         /\ job'[j].del = Clover!LineItemDelta(clover[job[j].order].lines, job[j].lines).toDelete
         /\ job'[j].add = Clover!LineItemDelta(clover[job[j].order].lines, job[j].lines).toCreate
  BY DEF PushesShaped, JobFields, Only, Clover!GetOrder
LEMMA ItDeletes ==
  ASSUME PushesShaped, NEW j \in DOMAIN job, NEW b, job' = [job EXCEPT ![j].del = b]
  PROVE  /\ Only(j)
         /\ job'[j].status = job[j].status
         /\ job'[j].step = job[j].step
         /\ job'[j].pc = job[j].pc
         /\ job'[j].order = job[j].order
         /\ job'[j].lines = job[j].lines
         /\ job'[j].del = b
         /\ job'[j].add = job[j].add
  BY DEF PushesShaped, JobFields, Only
LEMMA ItAdds ==
  ASSUME PushesShaped, NEW j \in DOMAIN job, NEW b, job' = [job EXCEPT ![j].add = b]
  PROVE  /\ Only(j)
         /\ job'[j].status = job[j].status
         /\ job'[j].step = job[j].step
         /\ job'[j].pc = job[j].pc
         /\ job'[j].order = job[j].order
         /\ job'[j].lines = job[j].lines
         /\ job'[j].del = job[j].del
         /\ job'[j].add = b
  BY DEF PushesShaped, JobFields, Only
LEMMA ItClaims ==
  ASSUME PushesShaped, NEW j \in DOMAIN job, NEW b, job' = [job EXCEPT ![j].pc = "bill",
         ![j].sig = b]
  PROVE  /\ Only(j)
         /\ job'[j].status = job[j].status
         /\ job'[j].step = job[j].step
         /\ job'[j].pc = "bill"
         /\ job'[j].order = job[j].order
         /\ job'[j].lines = job[j].lines
         /\ job'[j].del = job[j].del
         /\ job'[j].add = job[j].add
  BY DEF PushesShaped, JobFields, Only
LEMMA ItBills ==
  ASSUME PushesShaped, NEW j \in DOMAIN job, NEW b, job' = [job EXCEPT ![j].pc = "enqueue",
         ![j].bill = b]
  PROVE  /\ Only(j)
         /\ job'[j].status = job[j].status
         /\ job'[j].step = job[j].step
         /\ job'[j].pc = "enqueue"
         /\ job'[j].order = job[j].order
         /\ job'[j].lines = job[j].lines
         /\ job'[j].del = job[j].del
         /\ job'[j].add = job[j].add
  BY DEF PushesShaped, JobFields, Only
LEMMA StartMoves ==
  ASSUME PushesShaped, NEW j \in DOMAIN job, PlacedRight(job[j], Clover!Primary(j)),
         Clover!Start(j)
  PROVE  ItMoves(j)
<1>1. job[j].status = "queued" /\ row'.hash = row.hash
  BY DEF Clover!Start
<1>2. /\ Only(j) /\ job'[j].lines = job[j].lines /\ job'[j].status = "running" /\ job'[j].step = job[j].step
      /\ job'[j].pc = IF job[j].step = 1 THEN "adopt" ELSE IF Clover!Primary(j) THEN "hash" ELSE "get"
  BY ItStarts
<1> QED BY <1>1, <1>2 DEF PlacedRight, FirstStep, ItMoves, Only
LEMMA CrashMoves ==
  ASSUME PushesShaped, NEW j \in DOMAIN job, PlacedRight(job[j], Clover!Primary(j)),
         Clover!Crash(j)
  PROVE  ItMoves(j)
  BY ItCrashes DEF PushesShaped, PlacedRight, FirstStep, Only, ItMoves, Clover!Crash
LEMMA RetryDeadLetterMoves ==
  ASSUME PushesShaped, NEW j \in DOMAIN job, PlacedRight(job[j], Clover!Primary(j)),
         Clover!RetryDeadLetter(j)
  PROVE  ItMoves(j)
  BY ItIsRetried DEF PushesShaped, PlacedRight, FirstStep, Only, ItMoves, Clover!RetryDeadLetter
LEMMA RequestFailsMoves ==
  ASSUME PushesShaped, NEW j \in DOMAIN job, PlacedRight(job[j], Clover!Primary(j)),
         Clover!RequestFails(j)
  PROVE  ItMoves(j)
  BY ItThrows DEF PushesShaped, PlacedRight, FirstStep, Only, ItMoves, Clover!RequestFails,
     Clover!At
LEMMA AdoptMoves ==
  ASSUME PushesShaped, NEW j \in DOMAIN job, PlacedRight(job[j], Clover!Primary(j)),
         Clover!Adopt(j)
  PROVE  ItMoves(j)
  BY ItGoes, ItIsCreated DEF PushesShaped, PlacedRight, FirstStep, Only, ItMoves,
     Clover!Adopt, Clover!At
LEMMA FindByRefMoves ==
  ASSUME PushesShaped, NEW j \in DOMAIN job, PlacedRight(job[j], Clover!Primary(j)),
         Clover!FindByRef(j)
  PROVE  ItMoves(j)
<1>1. Clover!At(j, "find") /\ UNCHANGED row
  BY DEF Clover!FindByRef
<1>2. ASSUME NEW o, job' = [job EXCEPT ![j].pc = "link", ![j].order = o] PROVE ItMoves(j)
  BY <1>1, <1>2, ItIsNamed DEF PlacedRight, FirstStep, ItMoves, Only, Clover!At
<1>3. CASE Clover!Go(j, "post")
  BY <1>1, <1>3, ItGoes DEF PlacedRight, FirstStep, ItMoves, Only, Clover!At
<1> QED BY <1>2, <1>3 DEF Clover!FindByRef
LEMMA PostOrderMoves ==
  ASSUME PushesShaped, NEW j \in DOMAIN job, PlacedRight(job[j], Clover!Primary(j)),
         Clover!PostOrder(j)
  PROVE  ItMoves(j)
<1>1. Clover!At(j, "post")
  BY DEF Clover!PostOrder
<1>2. CASE job' = [job EXCEPT ![j].pc = "link", ![j].order = Clover!Free] /\ UNCHANGED <<row, used>>
  BY <1>1, <1>2, ItIsNamed DEF PlacedRight, FirstStep, ItMoves, Only, Clover!At
<1>3. CASE Clover!Thrown(j, TRUE)
  BY <1>1, <1>3, ItThrows DEF PlacedRight, FirstStep, ItMoves, Only, Clover!At
<1> QED BY <1>2, <1>3 DEF Clover!PostOrder
LEMMA LinkOrderMoves ==
  ASSUME PushesShaped, NEW j \in DOMAIN job, PlacedRight(job[j], Clover!Primary(j)),
         Clover!LinkOrder(j)
  PROVE  ItMoves(j)
  BY ItIsCreated DEF PushesShaped, PlacedRight, FirstStep, Only, ItMoves, Clover!LinkOrder,
     Clover!At, Clover!Logged, Clover!WithTicket, Clover!WithSupplement
LEMMA ReadHashMoves ==
  ASSUME PushesShaped, NEW j \in DOMAIN job, PlacedRight(job[j], Clover!Primary(j)),
         Clover!ReadHash(j)
  PROVE  ItMoves(j)
  BY ItGoes, ItCompletes DEF PushesShaped, PlacedRight, FirstStep, Only, ItMoves,
     Clover!ReadHash, Clover!At
LEMMA GetOrderMoves ==
  ASSUME PushesShaped, NEW j \in DOMAIN job, PlacedRight(job[j], Clover!Primary(j)),
         Clover!GetOrder(j)
  PROVE  ItMoves(j)
<1>1. Clover!At(j, "get") /\ UNCHANGED row
  BY DEF Clover!GetOrder
<1>2. /\ Only(j) /\ job'[j].lines = job[j].lines /\ job'[j].status = job[j].status
      /\ job'[j].step = job[j].step
      /\ job'[j].pc = "delete" \/ (job'[j].pc = "claim" /\ Clover!Primary(j))
  BY ItCompares
<1> QED BY <1>1, <1>2 DEF PlacedRight, FirstStep, ItMoves, Only, Clover!At
LEMMA DeleteLineMoves ==
  ASSUME PushesShaped, NEW j \in DOMAIN job, PlacedRight(job[j], Clover!Primary(j)),
         Clover!DeleteLine(j)
  PROVE  ItMoves(j)
  BY ItDeletes DEF PushesShaped, PlacedRight, FirstStep, Only, ItMoves, Clover!DeleteLine,
     Clover!At
LEMMA DeletedMoves ==
  ASSUME PushesShaped, NEW j \in DOMAIN job, PlacedRight(job[j], Clover!Primary(j)),
         Clover!Deleted(j)
  PROVE  ItMoves(j)
  BY ItGoes DEF PushesShaped, PlacedRight, FirstStep, Only, ItMoves, Clover!Deleted, Clover!At
LEMMA BulkCreateMoves ==
  ASSUME PushesShaped, NEW j \in DOMAIN job, PlacedRight(job[j], Clover!Primary(j)),
         Clover!BulkCreate(j)
  PROVE  ItMoves(j)
<1>1. Clover!At(j, "bulk")
  BY DEF Clover!BulkCreate
<1>2. ASSUME NEW b, job' = [job EXCEPT ![j].add = b], UNCHANGED row PROVE ItMoves(j)
  BY <1>1, <1>2, ItAdds DEF PlacedRight, FirstStep, ItMoves, Only, Clover!At
<1>3. ASSUME NEW retryable, Clover!Thrown(j, retryable) PROVE ItMoves(j)
  BY <1>1, <1>3, ItThrows DEF PlacedRight, FirstStep, ItMoves, Only, Clover!At
<1> QED BY <1>2, <1>3 DEF Clover!BulkCreate
LEMMA FilledMoves ==
  ASSUME PushesShaped, NEW j \in DOMAIN job, PlacedRight(job[j], Clover!Primary(j)),
         Clover!Filled(j)
  PROVE  ItMoves(j)
  BY ItGoes DEF PushesShaped, PlacedRight, FirstStep, Only, ItMoves, Clover!Filled, Clover!At
LEMMA SetTotalMoves ==
  ASSUME PushesShaped, NEW j \in DOMAIN job, PlacedRight(job[j], Clover!Primary(j)),
         Clover!SetTotal(j)
  PROVE  ItMoves(j)
  BY ItGoes, ItCompletes DEF PushesShaped, PlacedRight, FirstStep, Only, ItMoves,
     Clover!SetTotal, Clover!At
LEMMA SaveHashMoves ==
  ASSUME PushesShaped, NEW j \in DOMAIN job, PlacedRight(job[j], Clover!Primary(j)),
         Clover!SaveHash(j)
  PROVE  ItMoves(j)
<1>1. Clover!At(j, "save") /\ (row'.hash = row.hash \/ row'.hash = j[1])
  BY DEF Clover!SaveHash, Clover!Logged, PushesShaped, Clover!At
<1>2. Clover!Completed(j)
  BY DEF Clover!SaveHash
<1> QED BY <1>1, <1>2, ItCompletes DEF PlacedRight, FirstStep, ItMoves, Only, Clover!At
LEMMA ClaimMoves ==
  ASSUME PushesShaped, NEW j \in DOMAIN job, PlacedRight(job[j], Clover!Primary(j)),
         Clover!Claim(j)
  PROVE  ItMoves(j)
<1>1. Clover!At(j, "claim")
  BY DEF Clover!Claim
<1>2. row'.hash = row.hash
  BY DEF Clover!Claim, PushesShaped
<1>3. CASE Clover!Go(j, "save")
  BY <1>1, <1>2, <1>3, ItGoes DEF PlacedRight, FirstStep, ItMoves, Only, Clover!At
<1>4. CASE job' = [job EXCEPT ![j].pc = "bill", ![j].sig = Clover!Unbilled(j)]
  BY <1>1, <1>2, <1>4, ItClaims DEF PlacedRight, FirstStep, ItMoves, Only, Clover!At
<1> QED BY <1>3, <1>4 DEF Clover!Claim
LEMMA BillMoves ==
  ASSUME PushesShaped, NEW j \in DOMAIN job, PlacedRight(job[j], Clover!Primary(j)),
         Clover!Bill(j)
  PROVE  ItMoves(j)
  BY ItGoes, ItBills DEF PushesShaped, PlacedRight, FirstStep, Only, ItMoves, Clover!Bill,
     Clover!At, Clover!BillWith

LEMMA PushesControlledStep ==
  ASSUME PushesGiven, PushesShaped, PushesControlled, [Clover!Next]_(Clover!vars)
  PROVE  PushesControlled'
<1>1. CASE Clover!PushVersion
  <2> DEFINE n == Clover!Latest
  <2>1. /\ n \in 0 .. Len(Versions) - 1 /\ n + 1 \in 1 .. Len(Versions) /\ UNCHANGED row
        /\ \A v \in Nat \ {0} : Clover!Push(v) \in DOMAIN job <=> v <= n
    BY <1>1, LatestPush DEF Clover!PushVersion, PushesGiven
  <2>2. /\ DOMAIN job' = DOMAIN job \cup {Clover!Push(n + 1)} /\ Clover!Push(n + 1) \notin DOMAIN job
        /\ \A k \in DOMAIN job : job'[k] = job[k]
        /\ job'[Clover!Push(n + 1)] = Clover!Queued(Versions[n + 1], Clover!Amount(Versions[n + 1]))
    BY <1>1, <2>1 DEF Clover!PushVersion
  <2>3. \A v, w : Clover!Push(v) = Clover!Push(w) => v = w
    BY DEF Clover!Push
  <2>4. Clover!Push(n + 1) = <<Clover!Push(n + 1)[1], Clover!Push(n + 1)[2]>>
    BY DEF Clover!Push
  <2>5. PlacedRight(job'[Clover!Push(n + 1)], Clover!Primary(Clover!Push(n + 1)))
    BY <2>2 DEF PlacedRight, Clover!Queued
  <2>6. job'[Clover!Push(n + 1)].lines = Versions[n + 1]
    BY <2>2 DEF Clover!Queued
  <2>7. \A v \in Nat \ {0} : Clover!Push(v) \in DOMAIN job' <=> v <= n + 1
    BY <2>1, <2>2, <2>3
  <2> HIDE DEF n
  <2> QED BY <2>1, <2>2, <2>3, <2>4, <2>5, <2>6, <2>7 DEF PushesControlled
<1>2. ASSUME NEW j \in DOMAIN job, Clover!Start(j) PROVE PushesControlled'
  BY <1>2, StartMoves, MoveControlled DEF PushesControlled
<1>3. ASSUME NEW j \in DOMAIN job, Clover!Crash(j) PROVE PushesControlled'
  BY <1>3, CrashMoves, MoveControlled DEF PushesControlled
<1>4. ASSUME NEW j \in DOMAIN job, Clover!RetryDeadLetter(j) PROVE PushesControlled'
  BY <1>4, RetryDeadLetterMoves, MoveControlled DEF PushesControlled
<1>5. ASSUME NEW j \in DOMAIN job, Clover!RequestFails(j) PROVE PushesControlled'
  BY <1>5, RequestFailsMoves, MoveControlled DEF PushesControlled
<1>6. ASSUME NEW j \in DOMAIN job, Clover!Adopt(j) PROVE PushesControlled'
  BY <1>6, AdoptMoves, MoveControlled DEF PushesControlled
<1>7. ASSUME NEW j \in DOMAIN job, Clover!FindByRef(j) PROVE PushesControlled'
  BY <1>7, FindByRefMoves, MoveControlled DEF PushesControlled
<1>8. ASSUME NEW j \in DOMAIN job, Clover!PostOrder(j) PROVE PushesControlled'
  BY <1>8, PostOrderMoves, MoveControlled DEF PushesControlled
<1>9. ASSUME NEW j \in DOMAIN job, Clover!LinkOrder(j) PROVE PushesControlled'
  BY <1>9, LinkOrderMoves, MoveControlled DEF PushesControlled
<1>10. ASSUME NEW j \in DOMAIN job, Clover!ReadHash(j) PROVE PushesControlled'
  BY <1>10, ReadHashMoves, MoveControlled DEF PushesControlled
<1>11. ASSUME NEW j \in DOMAIN job, Clover!GetOrder(j) PROVE PushesControlled'
  BY <1>11, GetOrderMoves, MoveControlled DEF PushesControlled
<1>12. ASSUME NEW j \in DOMAIN job, Clover!DeleteLine(j) PROVE PushesControlled'
  BY <1>12, DeleteLineMoves, MoveControlled DEF PushesControlled
<1>13. ASSUME NEW j \in DOMAIN job, Clover!Deleted(j) PROVE PushesControlled'
  BY <1>13, DeletedMoves, MoveControlled DEF PushesControlled
<1>14. ASSUME NEW j \in DOMAIN job, Clover!BulkCreate(j) PROVE PushesControlled'
  BY <1>14, BulkCreateMoves, MoveControlled DEF PushesControlled
<1>15. ASSUME NEW j \in DOMAIN job, Clover!Filled(j) PROVE PushesControlled'
  BY <1>15, FilledMoves, MoveControlled DEF PushesControlled
<1>16. ASSUME NEW j \in DOMAIN job, Clover!SetTotal(j) PROVE PushesControlled'
  BY <1>16, SetTotalMoves, MoveControlled DEF PushesControlled
<1>17. ASSUME NEW j \in DOMAIN job, Clover!SaveHash(j) PROVE PushesControlled'
  BY <1>17, SaveHashMoves, MoveControlled DEF PushesControlled
<1>18. ASSUME NEW j \in DOMAIN job, Clover!Claim(j) PROVE PushesControlled'
  BY <1>18, ClaimMoves, MoveControlled DEF PushesControlled
<1>19. ASSUME NEW j \in DOMAIN job, Clover!Bill(j) PROVE PushesControlled'
  BY <1>19, BillMoves, MoveControlled DEF PushesControlled
<1>20. ASSUME NEW j \in DOMAIN job, Clover!EnqueueSupplement(j) PROVE PushesControlled'
  <2> DEFINE s == Clover!Supp(job[j].sig)
  <2>1. /\ DOMAIN job' = DOMAIN job \cup {s} /\ UNCHANGED row
        /\ \A k \in DOMAIN job \ {j} : job'[k] = job[k]
        /\ job'[j] = [job[j] EXCEPT !.pc = "save"] /\ job[j].pc = "enqueue"
        /\ s \notin DOMAIN job => job'[s] = Clover!Queued(job[j].bill[1], job[j].bill[2])
    BY <1>20 DEF Clover!EnqueueSupplement, Clover!At
  <2>2. s[1] = 0 /\ s = <<s[1], s[2]>> /\ \A v \in Nat \ {0} : s # Clover!Push(v)
    BY DEF Clover!Supp, Clover!Push
  <2>3. /\ job'[j].pc = "save" /\ job'[j].status = job[j].status /\ job'[j].step = job[j].step
        /\ job'[j].lines = job[j].lines
    BY <2>1 DEF PushesShaped, JobFields
  <2>4. PlacedRight(job'[j], Clover!Primary(j))
    BY <2>1, <2>3 DEF PlacedRight, FirstStep, PushesControlled
  <2>5. s \notin DOMAIN job => PlacedRight(job'[s], Clover!Primary(s))
    BY <2>1 DEF PlacedRight, Clover!Queued
  <2> HIDE DEF s
  <2>6. \A k \in DOMAIN job' :
          /\ PlacedRight(job'[k], Clover!Primary(k))
          /\ k[1] = 0 \/ \E v \in 1 .. Len(Versions) : k = Clover!Push(v)
          /\ k = <<k[1], k[2]>>
    BY <2>1, <2>2, <2>4, <2>5 DEF PushesControlled
  <2>7. \A k \in DOMAIN job : job'[k].lines = job[k].lines /\ job'[k].status = job[k].status
    BY <2>1, <2>3
  <2>8. \A v \in Nat \ {0} : Clover!Push(v) \in DOMAIN job' <=> Clover!Push(v) \in DOMAIN job
    BY <2>1, <2>2
  <2>9. \E n \in 0 .. Len(Versions) : \A v \in Nat \ {0} : Clover!Push(v) \in DOMAIN job' <=> v <= n
    BY <2>8 DEF PushesControlled
  <2>10. \A v \in 1 .. Len(Versions) :
           Clover!Push(v) \in DOMAIN job' => job'[Clover!Push(v)].lines = Versions[v]
    BY <2>7, <2>8 DEF PushesControlled
  <2>11. row'.hash # 0 => Clover!Push(row'.hash) \in DOMAIN job'
                        /\ job'[Clover!Push(row'.hash)].status = "completed"
    BY <2>1, <2>7 DEF PushesControlled
  <2> QED BY <2>1, <2>6, <2>9, <2>10, <2>11 DEF PushesControlled
<1>21. ASSUME NEW o \in Ids, Clover!Pay(o) PROVE PushesControlled'
  BY <1>21 DEF PushesGiven, PushesShaped, PushesControlled, JobFields, FirstStep, Clover!Push,
     Clover!Pay
<1>22. CASE UNCHANGED Clover!vars
  BY <1>22 DEF PushesGiven, PushesShaped, PushesControlled, JobFields, FirstStep, Clover!Push,
     Clover!vars
<1> QED BY <1>1, <1>2, <1>3, <1>4, <1>5, <1>6, <1>7, <1>8, <1>9, <1>10, <1>11, <1>12, <1>13,
           <1>14, <1>15, <1>16, <1>17, <1>18, <1>19, <1>20, <1>21, <1>22 DEF Clover!Next

\* An order of Clover keeps its reference, and its payment.
Grows == \A o \in Ids : /\ clover[o].ref # None => clover'[o].ref = clover[o].ref
                        /\ clover[o].paid => clover'[o].paid

LEMMA NoOrderIsBlank ==
  /\ Clover!NoOrder.ref = None /\ Clover!NoOrder.lines = Clover!EmptyBag /\ Clover!NoOrder.paid = FALSE
  BY DEF Clover!NoOrder

LEMMA GrowsStep ==
  ASSUME PushesGiven, PushesShaped, [Clover!Next]_(Clover!vars) PROVE Grows
<1>1. CASE Clover!PushVersion
  BY <1>1 DEF Grows, Clover!PushVersion
<1>2. ASSUME NEW j \in DOMAIN job, Clover!Start(j) PROVE Grows
  BY <1>2 DEF Grows, Clover!Start
<1>3. ASSUME NEW j \in DOMAIN job, Clover!Crash(j) PROVE Grows
  BY <1>3 DEF PushesShaped, Grows, Clover!Crash, Clover!Rested
<1>4. ASSUME NEW j \in DOMAIN job, Clover!RetryDeadLetter(j) PROVE Grows
  BY <1>4 DEF PushesShaped, Grows, Clover!RetryDeadLetter
<1>5. ASSUME NEW j \in DOMAIN job, Clover!RequestFails(j) PROVE Grows
  BY <1>5 DEF PushesShaped, Grows, Clover!RequestFails, Clover!Thrown, Clover!Rested, Clover!At
<1>6. ASSUME NEW j \in DOMAIN job, Clover!Adopt(j) PROVE Grows
  BY <1>6 DEF PushesShaped, Grows, Clover!Adopt, Clover!At, Clover!Go, Clover!Created
<1>7. ASSUME NEW j \in DOMAIN job, Clover!FindByRef(j) PROVE Grows
  BY <1>7 DEF PushesShaped, Grows, Clover!FindByRef, Clover!At, Clover!Go
<1>8. ASSUME NEW j \in DOMAIN job, Clover!PostOrder(j) PROVE Grows
  <2>1. Clover!Free \in Ids /\ clover[Clover!Free].ref = None
    BY <1>8, NoOrderIsBlank DEF Clover!PostOrder, Clover!Free
  <2> QED BY <1>8, <2>1 DEF PushesShaped, Grows, Clover!PostOrder
<1>9. ASSUME NEW j \in DOMAIN job, Clover!LinkOrder(j) PROVE Grows
  BY <1>9 DEF PushesShaped, Grows, Clover!LinkOrder, Clover!At, Clover!Logged, Clover!Created,
     Clover!WithTicket, Clover!WithSupplement
<1>10. ASSUME NEW j \in DOMAIN job, Clover!ReadHash(j) PROVE Grows
  BY <1>10 DEF PushesShaped, Grows, Clover!ReadHash, Clover!At, Clover!Go, Clover!Completed,
     Clover!Rested
<1>11. ASSUME NEW j \in DOMAIN job, Clover!GetOrder(j) PROVE Grows
  BY <1>11 DEF PushesShaped, Grows, Clover!GetOrder, Clover!At
<1>12. ASSUME NEW j \in DOMAIN job, Clover!DeleteLine(j) PROVE Grows
  BY <1>12 DEF PushesShaped, Grows, Clover!DeleteLine, Clover!At
<1>13. ASSUME NEW j \in DOMAIN job, Clover!Deleted(j) PROVE Grows
  BY <1>13 DEF PushesShaped, Grows, Clover!Deleted, Clover!At, Clover!Go
<1>14. ASSUME NEW j \in DOMAIN job, Clover!BulkCreate(j) PROVE Grows
  <2>1. ASSUME NEW b, clover' = [clover EXCEPT ![job[j].order].lines = b] PROVE Grows
    BY <2>1 DEF PushesShaped, Grows
  <2>2. CASE clover' = clover
    BY <2>2 DEF Grows
  <2> QED BY <1>14, <2>1, <2>2 DEF Clover!BulkCreate
<1>15. ASSUME NEW j \in DOMAIN job, Clover!Filled(j) PROVE Grows
  BY <1>15 DEF PushesShaped, Grows, Clover!Filled, Clover!At, Clover!Go
<1>16. ASSUME NEW j \in DOMAIN job, Clover!SetTotal(j) PROVE Grows
  BY <1>16 DEF PushesShaped, Grows, Clover!SetTotal, Clover!At, Clover!Go, Clover!Completed,
     Clover!Rested
<1>17. ASSUME NEW j \in DOMAIN job, Clover!SaveHash(j) PROVE Grows
  BY <1>17 DEF PushesShaped, Grows, Clover!SaveHash, Clover!At, Clover!Logged,
     Clover!Completed, Clover!Rested
<1>18. ASSUME NEW j \in DOMAIN job, Clover!Claim(j) PROVE Grows
  BY <1>18 DEF PushesShaped, Grows, Clover!Claim, Clover!At, Clover!Go
<1>19. ASSUME NEW j \in DOMAIN job, Clover!Bill(j) PROVE Grows
  BY <1>19 DEF PushesShaped, Grows, Clover!Bill, Clover!At, Clover!Go, Clover!BillWith
<1>20. ASSUME NEW j \in DOMAIN job, Clover!EnqueueSupplement(j) PROVE Grows
  BY <1>20 DEF PushesShaped, Grows, Clover!EnqueueSupplement, Clover!At, Clover!Queued,
     Clover!Supp
<1>21. ASSUME NEW o \in Ids, Clover!Pay(o) PROVE Grows
  BY <1>21 DEF PushesShaped, Grows, Clover!Pay
<1>22. CASE UNCHANGED Clover!vars
  BY <1>22 DEF PushesShaped, Grows, Clover!vars
<1> QED BY <1>1, <1>2, <1>3, <1>4, <1>5, <1>6, <1>7, <1>8, <1>9, <1>10, <1>11, <1>12, <1>13,
           <1>14, <1>15, <1>16, <1>17, <1>18, <1>19, <1>20, <1>21, <1>22 DEF Clover!Next

LEMMA RefIsNone ==
  ASSUME PushesGiven, PushesControlled, NEW j \in DOMAIN job PROVE Clover!Ref(j) # None
  BY DEF PushesGiven, PushesControlled, Clover!Ref, Clover!Push

LEMMA NamesKept ==
  ASSUME PushesGiven, Grows, NEW j \in DOMAIN job, Clover!Ref(j) # None, PlacedRight(job'[j],
         Clover!Primary(j)),
         NamedRight(clover, job[j], Clover!Ref(j)), job'[j].order = job[j].order,
         job'[j].step = 2 \/ job'[j].pc = "link" => job[j].step = 2 \/ job[j].pc = "link",
         job'[j].pc \in {"claim", "bill", "enqueue"} => clover[job[j].order].paid
  PROVE  NamedRight(clover', job'[j], Clover!Ref(j))
<1>1. job'[j].pc \in {"claim", "bill", "enqueue"} => job'[j].order \in Ids
  BY DEF PlacedRight, NamedRight, FirstStep
<1> QED BY <1>1 DEF PushesGiven, NamedRight, Grows

LEMMA NamesGiven ==
  ASSUME PushesGiven, NEW j \in DOMAIN job, NEW o \in Ids, clover'[o].ref = Clover!Ref(j),
         job'[j].order = o, job'[j].pc \notin {"claim", "bill", "enqueue"}
  PROVE  NamedRight(clover', job'[j], Clover!Ref(j))
  BY DEF NamedRight

LEMMA StartNames ==
  ASSUME PushesGiven, PushesShaped, PushesNamed, Grows, NEW j \in DOMAIN job,
         PlacedRight(job[j], Clover!Primary(j)), Clover!Ref(j) # None, j = <<j[1], j[2]>>, Clover!Start(j)
  PROVE  NamedRight(clover', job'[j], Clover!Ref(j))
<1>1. job'[j].order = job[j].order /\ job'[j].step = job[j].step
      /\ job'[j].pc = IF job[j].step = 1 THEN "adopt" ELSE IF Clover!Primary(j) THEN "hash" ELSE "get"
  BY ItStarts
<1> QED BY <1>1, StartMoves, NamesKept DEF PushesNamed, ItMoves
LEMMA CrashNames ==
  ASSUME PushesGiven, PushesShaped, PushesNamed, Grows, NEW j \in DOMAIN job,
         PlacedRight(job[j], Clover!Primary(j)), Clover!Ref(j) # None, j = <<j[1], j[2]>>, Clover!Crash(j)
  PROVE  NamedRight(clover', job'[j], Clover!Ref(j))
<1>1. /\ job'[j].order = job[j].order
      /\ job'[j].step = 2 \/ job'[j].pc = "link" => job[j].step = 2 \/ job[j].pc = "link"
      /\ job'[j].pc \in {"claim", "bill", "enqueue"} => clover[job[j].order].paid
  BY ItCrashes DEF PushesNamed, PlacedRight, FirstStep, NamedRight, Clover!Crash
<1> QED BY <1>1, CrashMoves, NamesKept DEF PushesNamed, ItMoves
LEMMA RetryDeadLetterNames ==
  ASSUME PushesGiven, PushesShaped, PushesNamed, Grows, NEW j \in DOMAIN job,
         PlacedRight(job[j], Clover!Primary(j)), Clover!Ref(j) # None, j = <<j[1], j[2]>>, Clover!RetryDeadLetter(j)
  PROVE  NamedRight(clover', job'[j], Clover!Ref(j))
<1>1. /\ job'[j].order = job[j].order
      /\ job'[j].step = 2 \/ job'[j].pc = "link" => job[j].step = 2 \/ job[j].pc = "link"
      /\ job'[j].pc \in {"claim", "bill", "enqueue"} => clover[job[j].order].paid
  BY ItIsRetried DEF PushesNamed, PlacedRight, FirstStep, NamedRight, Clover!RetryDeadLetter
<1> QED BY <1>1, RetryDeadLetterMoves, NamesKept DEF PushesNamed, ItMoves
LEMMA RequestFailsNames ==
  ASSUME PushesGiven, PushesShaped, PushesNamed, Grows, NEW j \in DOMAIN job,
         PlacedRight(job[j], Clover!Primary(j)), Clover!Ref(j) # None, j = <<j[1], j[2]>>, Clover!RequestFails(j)
  PROVE  NamedRight(clover', job'[j], Clover!Ref(j))
<1>1. /\ job'[j].order = job[j].order
      /\ job'[j].step = 2 \/ job'[j].pc = "link" => job[j].step = 2 \/ job[j].pc = "link"
      /\ job'[j].pc \in {"claim", "bill", "enqueue"} => clover[job[j].order].paid
  BY ItThrows DEF PushesNamed, PlacedRight, FirstStep, NamedRight, Clover!RequestFails,
     Clover!At
<1> QED BY <1>1, RequestFailsMoves, NamesKept DEF PushesNamed, ItMoves
LEMMA AdoptNames ==
  ASSUME PushesGiven, PushesShaped, PushesNamed, Grows, NEW j \in DOMAIN job,
         PlacedRight(job[j], Clover!Primary(j)), Clover!Ref(j) # None, j = <<j[1], j[2]>>, Clover!Adopt(j)
  PROVE  NamedRight(clover', job'[j], Clover!Ref(j))
<1>1. CASE Clover!Go(j, "find")
  <2>1. job'[j].order = job[j].order /\ job'[j].step = job[j].step /\ job'[j].pc = "find"
    BY <1>1, ItGoes
  <2> QED BY <2>1, AdoptMoves, NamesKept DEF ItMoves, PushesNamed
<1>2. CASE Clover!Linked(j) # None /\ Clover!Created(j, Clover!Linked(j))
  <2>1. Clover!Linked(j) \in Ids /\ clover[Clover!Linked(j)].ref = Clover!Ref(j)
    <3>1. CASE Clover!Primary(j)
      BY <1>2, <3>1 DEF Clover!Linked, Clover!Ref, PushesNamed, RowNamed
    <3>2. CASE ~Clover!Primary(j)
      <4> DEFINE mine == CHOOSE e \in row.supplements : e.sig = j[2]
      <4>1. Clover!Linked(j) = mine.id /\ mine \in row.supplements /\ mine.sig = j[2]
        BY <1>2, <3>2 DEF Clover!Linked
      <4>2. Clover!Supp(mine.sig) = j
        BY <3>2, <4>1 DEF Clover!Supp, Clover!Primary
      <4> HIDE DEF mine
      <4> QED BY <1>2, <3>2, <4>1, <4>2 DEF Clover!Ref, PushesNamed, RowNamed
    <3> QED BY <3>1, <3>2
  <2>2. job'[j].order = Clover!Linked(j) /\ job'[j].pc \in {"hash", "get"}
    BY <1>2, ItIsCreated
  <2>3. clover'[Clover!Linked(j)].ref = Clover!Ref(j)
    BY <2>1 DEF Grows
  <2> QED BY <2>1, <2>2, <2>3, NamesGiven
<1> QED BY <1>1, <1>2 DEF Clover!Adopt
LEMMA FindByRefNames ==
  ASSUME PushesGiven, PushesShaped, PushesNamed, Grows, NEW j \in DOMAIN job,
         PlacedRight(job[j], Clover!Primary(j)), Clover!Ref(j) # None, j = <<j[1], j[2]>>, Clover!FindByRef(j)
  PROVE  NamedRight(clover', job'[j], Clover!Ref(j))
<1>1. CASE Clover!Go(j, "post")
  <2>1. job'[j].order = job[j].order /\ job'[j].step = job[j].step /\ job'[j].pc = "post"
    BY <1>1, ItGoes
  <2> QED BY <2>1, FindByRefMoves, NamesKept DEF ItMoves, PushesNamed
<1>2. ASSUME NEW o \in Clover!WithRef(j), job' = [job EXCEPT ![j].pc = "link", ![j].order = o]
      PROVE  NamedRight(clover', job'[j], Clover!Ref(j))
  <2>1. job'[j].order = o /\ job'[j].pc = "link"
    BY <1>2, ItIsNamed
  <2>2. o \in Ids /\ clover'[o].ref = Clover!Ref(j)
    BY DEF Clover!WithRef, Grows
  <2> QED BY <2>1, <2>2, NamesGiven
<1> QED BY <1>1, <1>2 DEF Clover!FindByRef
LEMMA PostOrderNames ==
  ASSUME PushesGiven, PushesShaped, PushesNamed, Grows, NEW j \in DOMAIN job,
         PlacedRight(job[j], Clover!Primary(j)), Clover!Ref(j) # None, j = <<j[1], j[2]>>, Clover!PostOrder(j)
  PROVE  NamedRight(clover', job'[j], Clover!Ref(j))
<1>1. Clover!At(j, "post")
  BY DEF Clover!PostOrder
<1>2. CASE Clover!Thrown(j, TRUE)
  <2>1. job'[j].order = job[j].order /\ job'[j].step = job[j].step /\ job'[j].pc = "idle"
    BY <1>2, ItThrows
  <2> QED BY <2>1, PostOrderMoves, NamesKept DEF ItMoves, PushesNamed
<1>3. CASE job' = [job EXCEPT ![j].pc = "link", ![j].order = Clover!Free]
  <2>1. job'[j].order = Clover!Free /\ job'[j].pc = "link"
    BY <1>3, ItIsNamed
  <2>2. Clover!Free \in Ids /\ clover'[Clover!Free].ref = Clover!Ref(j)
    BY DEF Clover!PostOrder, Clover!Free, PushesShaped
  <2> QED BY <2>1, <2>2, NamesGiven
<1> QED BY <1>2, <1>3 DEF Clover!PostOrder
LEMMA LinkOrderNames ==
  ASSUME PushesGiven, PushesShaped, PushesNamed, Grows, NEW j \in DOMAIN job,
         PlacedRight(job[j], Clover!Primary(j)), Clover!Ref(j) # None, j = <<j[1], j[2]>>, Clover!LinkOrder(j)
  PROVE  NamedRight(clover', job'[j], Clover!Ref(j))
<1>1. job[j].order \in Ids /\ clover[job[j].order].ref = Clover!Ref(j)
  BY DEF Clover!LinkOrder, Clover!At, NamedRight, PushesNamed, PushesGiven
<1>2. job'[j].order = job[j].order /\ job'[j].pc \in {"hash", "get"}
  BY ItIsCreated DEF Clover!LinkOrder
<1>3. clover'[job[j].order].ref = Clover!Ref(j)
  BY <1>1 DEF Grows
<1> QED BY <1>1, <1>2, <1>3, NamesGiven
LEMMA ReadHashNames ==
  ASSUME PushesGiven, PushesShaped, PushesNamed, Grows, NEW j \in DOMAIN job,
         PlacedRight(job[j], Clover!Primary(j)), Clover!Ref(j) # None, j = <<j[1], j[2]>>, Clover!ReadHash(j)
  PROVE  NamedRight(clover', job'[j], Clover!Ref(j))
<1>1. /\ job'[j].order = job[j].order
      /\ job'[j].step = 2 \/ job'[j].pc = "link" => job[j].step = 2 \/ job[j].pc = "link"
      /\ job'[j].pc \in {"claim", "bill", "enqueue"} => clover[job[j].order].paid
  BY ItGoes, ItCompletes DEF PushesNamed, PlacedRight, FirstStep, NamedRight, Clover!ReadHash,
     Clover!At
<1> QED BY <1>1, ReadHashMoves, NamesKept DEF PushesNamed, ItMoves
LEMMA GetOrderNames ==
  ASSUME PushesGiven, PushesShaped, PushesNamed, Grows, NEW j \in DOMAIN job,
         PlacedRight(job[j], Clover!Primary(j)), Clover!Ref(j) # None, j = <<j[1], j[2]>>, Clover!GetOrder(j)
  PROVE  NamedRight(clover', job'[j], Clover!Ref(j))
<1>1. job'[j].order = job[j].order /\ job'[j].step = job[j].step
      /\ job'[j].pc = IF clover[job[j].order].paid /\ Clover!Primary(j) THEN "claim" ELSE "delete"
  BY ItCompares
<1> QED BY <1>1, GetOrderMoves, NamesKept DEF PushesNamed, ItMoves
LEMMA DeleteLineNames ==
  ASSUME PushesGiven, PushesShaped, PushesNamed, Grows, NEW j \in DOMAIN job,
         PlacedRight(job[j], Clover!Primary(j)), Clover!Ref(j) # None, j = <<j[1], j[2]>>, Clover!DeleteLine(j)
  PROVE  NamedRight(clover', job'[j], Clover!Ref(j))
<1>1. /\ job'[j].order = job[j].order
      /\ job'[j].step = 2 \/ job'[j].pc = "link" => job[j].step = 2 \/ job[j].pc = "link"
      /\ job'[j].pc \in {"claim", "bill", "enqueue"} => clover[job[j].order].paid
  BY ItDeletes DEF PushesNamed, PlacedRight, FirstStep, NamedRight, Clover!DeleteLine, Clover!At
<1> QED BY <1>1, DeleteLineMoves, NamesKept DEF PushesNamed, ItMoves
LEMMA DeletedNames ==
  ASSUME PushesGiven, PushesShaped, PushesNamed, Grows, NEW j \in DOMAIN job,
         PlacedRight(job[j], Clover!Primary(j)), Clover!Ref(j) # None, j = <<j[1], j[2]>>, Clover!Deleted(j)
  PROVE  NamedRight(clover', job'[j], Clover!Ref(j))
<1>1. /\ job'[j].order = job[j].order
      /\ job'[j].step = 2 \/ job'[j].pc = "link" => job[j].step = 2 \/ job[j].pc = "link"
      /\ job'[j].pc \in {"claim", "bill", "enqueue"} => clover[job[j].order].paid
  BY ItGoes DEF PushesNamed, PlacedRight, FirstStep, NamedRight, Clover!Deleted, Clover!At
<1> QED BY <1>1, DeletedMoves, NamesKept DEF PushesNamed, ItMoves
LEMMA BulkCreateNames ==
  ASSUME PushesGiven, PushesShaped, PushesNamed, Grows, NEW j \in DOMAIN job,
         PlacedRight(job[j], Clover!Primary(j)), Clover!Ref(j) # None, j = <<j[1], j[2]>>, Clover!BulkCreate(j)
  PROVE  NamedRight(clover', job'[j], Clover!Ref(j))
<1>1. Clover!At(j, "bulk")
  BY DEF Clover!BulkCreate
<1>2. job'[j].order = job[j].order /\ job'[j].step = job[j].step /\ job'[j].pc \in {"idle", "bulk"}
  <2>1. ASSUME NEW b, job' = [job EXCEPT ![j].add = b]
        PROVE  job'[j].order = job[j].order /\ job'[j].step = job[j].step /\ job'[j].pc \in {"idle", "bulk"}
    BY <1>1, <2>1, ItAdds DEF Clover!At
  <2>2. ASSUME NEW retryable, Clover!Thrown(j, retryable)
        PROVE  job'[j].order = job[j].order /\ job'[j].step = job[j].step /\ job'[j].pc \in {"idle", "bulk"}
    BY <2>2, ItThrows
  <2> QED BY <2>1, <2>2 DEF Clover!BulkCreate
<1> QED BY <1>2, BulkCreateMoves, NamesKept DEF PushesNamed, ItMoves
LEMMA FilledNames ==
  ASSUME PushesGiven, PushesShaped, PushesNamed, Grows, NEW j \in DOMAIN job,
         PlacedRight(job[j], Clover!Primary(j)), Clover!Ref(j) # None, j = <<j[1], j[2]>>, Clover!Filled(j)
  PROVE  NamedRight(clover', job'[j], Clover!Ref(j))
<1>1. /\ job'[j].order = job[j].order
      /\ job'[j].step = 2 \/ job'[j].pc = "link" => job[j].step = 2 \/ job[j].pc = "link"
      /\ job'[j].pc \in {"claim", "bill", "enqueue"} => clover[job[j].order].paid
  BY ItGoes DEF PushesNamed, PlacedRight, FirstStep, NamedRight, Clover!Filled, Clover!At
<1> QED BY <1>1, FilledMoves, NamesKept DEF PushesNamed, ItMoves
LEMMA SetTotalNames ==
  ASSUME PushesGiven, PushesShaped, PushesNamed, Grows, NEW j \in DOMAIN job,
         PlacedRight(job[j], Clover!Primary(j)), Clover!Ref(j) # None, j = <<j[1], j[2]>>, Clover!SetTotal(j)
  PROVE  NamedRight(clover', job'[j], Clover!Ref(j))
<1>1. /\ job'[j].order = job[j].order
      /\ job'[j].step = 2 \/ job'[j].pc = "link" => job[j].step = 2 \/ job[j].pc = "link"
      /\ job'[j].pc \in {"claim", "bill", "enqueue"} => clover[job[j].order].paid
  BY ItGoes, ItCompletes DEF PushesNamed, PlacedRight, FirstStep, NamedRight, Clover!SetTotal,
     Clover!At
<1> QED BY <1>1, SetTotalMoves, NamesKept DEF PushesNamed, ItMoves
LEMMA SaveHashNames ==
  ASSUME PushesGiven, PushesShaped, PushesNamed, Grows, NEW j \in DOMAIN job,
         PlacedRight(job[j], Clover!Primary(j)), Clover!Ref(j) # None, j = <<j[1], j[2]>>, Clover!SaveHash(j)
  PROVE  NamedRight(clover', job'[j], Clover!Ref(j))
<1>1. /\ job'[j].order = job[j].order
      /\ job'[j].step = 2 \/ job'[j].pc = "link" => job[j].step = 2 \/ job[j].pc = "link"
      /\ job'[j].pc \in {"claim", "bill", "enqueue"} => clover[job[j].order].paid
  BY ItCompletes DEF PushesNamed, PlacedRight, FirstStep, NamedRight, Clover!SaveHash,
     Clover!At, Clover!Logged
<1> QED BY <1>1, SaveHashMoves, NamesKept DEF PushesNamed, ItMoves
LEMMA ClaimNames ==
  ASSUME PushesGiven, PushesShaped, PushesNamed, Grows, NEW j \in DOMAIN job,
         PlacedRight(job[j], Clover!Primary(j)), Clover!Ref(j) # None, j = <<j[1], j[2]>>, Clover!Claim(j)
  PROVE  NamedRight(clover', job'[j], Clover!Ref(j))
<1>1. /\ job'[j].order = job[j].order
      /\ job'[j].step = 2 \/ job'[j].pc = "link" => job[j].step = 2 \/ job[j].pc = "link"
      /\ job'[j].pc \in {"claim", "bill", "enqueue"} => clover[job[j].order].paid
  BY ItGoes, ItClaims DEF PushesNamed, PlacedRight, FirstStep, NamedRight, Clover!Claim,
     Clover!At
<1> QED BY <1>1, ClaimMoves, NamesKept DEF PushesNamed, ItMoves
LEMMA BillNames ==
  ASSUME PushesGiven, PushesShaped, PushesNamed, Grows, NEW j \in DOMAIN job,
         PlacedRight(job[j], Clover!Primary(j)), Clover!Ref(j) # None, j = <<j[1], j[2]>>, Clover!Bill(j)
  PROVE  NamedRight(clover', job'[j], Clover!Ref(j))
<1>1. job'[j].order = job[j].order /\ job'[j].step = job[j].step /\ job'[j].pc \in {"save", "enqueue"}
  <2>1. ASSUME NEW b, job' = [job EXCEPT ![j].pc = "enqueue", ![j].bill = b]
        PROVE  job'[j].order = job[j].order /\ job'[j].step = job[j].step /\ job'[j].pc \in {"save", "enqueue"}
    BY <2>1, ItBills
  <2>2. CASE Clover!Go(j, "save")
    BY <2>2, ItGoes
  <2> QED BY <2>1, <2>2 DEF Clover!Bill, Clover!BillWith
<1>2. job[j].pc = "bill" /\ job[j].step = 2
  BY DEF Clover!Bill, Clover!At, PlacedRight, FirstStep
<1> QED BY <1>1, <1>2, BillMoves, NamesKept DEF PushesNamed, ItMoves, NamedRight

LEMMA RowStaysNamed ==
  ASSUME PushesGiven, PushesNamed, Grows, row'.ticket = row.ticket,
         \A e \in row'.supplements : e \in row.supplements \/ e.id = None
  PROVE  RowNamed'
<1>1. \A x : Clover!Push(x) # None /\ Clover!Supp(x) # None
  BY DEF PushesGiven, Clover!Push, Clover!Supp
<1> QED BY <1>1 DEF PushesNamed, RowNamed, Grows

LEMMA OthersStayNamed ==
  ASSUME PushesGiven, PushesControlled, PushesNamed, Grows, NEW k \in DOMAIN job,
         job'[k] = job[k]
  PROVE  NamedRight(clover', job'[k], Clover!Ref(k))
<1>1. Clover!Ref(k) # None
  BY RefIsNone
<1>2. job[k].pc \in {"claim", "bill", "enqueue"} => job[k].order \in Ids
  BY DEF PushesControlled, PushesNamed, PlacedRight, FirstStep, NamedRight
<1> QED BY <1>1, <1>2 DEF PushesGiven, PushesNamed, NamedRight, Grows

LEMMA MoveNamed ==
  ASSUME PushesGiven, PushesControlled, PushesNamed, Grows, NEW j \in DOMAIN job, ItMoves(j),
         NamedRight(clover', job'[j], Clover!Ref(j)), RowNamed'
  PROVE  PushesNamed'
  BY OthersStayNamed DEF PushesNamed, ItMoves

LEMMA LinkRow ==
  ASSUME PushesGiven, PushesShaped, PushesControlled, PushesNamed, Grows,
         NEW j \in DOMAIN job, Clover!LinkOrder(j)
  PROVE  RowNamed'
<1>1. job[j].order \in Ids /\ clover[job[j].order].ref = Clover!Ref(j) /\ UNCHANGED clover
  BY DEF Clover!LinkOrder, Clover!At, NamedRight, PushesNamed, PushesGiven
<1>2. CASE row' = row
  BY <1>2, RowStaysNamed
<1>3. CASE Clover!Primary(j) /\ row' = Clover!WithTicket(job[j].order)
  <2>1. row'.ticket = job[j].order /\ row'.supplements = row.supplements
    BY <1>3 DEF Clover!WithTicket, PushesShaped
  <2> QED BY <1>1, <1>3, <2>1 DEF PushesNamed, RowNamed, Clover!Ref
<1>4. CASE ~Clover!Primary(j) /\ row' = Clover!WithSupplement(j[2], job[j].order)
  <2>1. row'.ticket = row.ticket
        /\ \A e \in row'.supplements : e \in row.supplements \/ e = [sig |-> j[2], id |-> job[j].order]
    BY <1>4 DEF Clover!WithSupplement, PushesShaped
  <2>2. Clover!Supp(j[2]) = Clover!Ref(j)
    BY <1>4 DEF Clover!Supp, Clover!Ref, Clover!Primary, PushesControlled
  <2> QED BY <1>1, <2>1, <2>2 DEF PushesNamed, RowNamed
<1> QED BY <1>2, <1>3, <1>4 DEF Clover!LinkOrder, Clover!Logged

LEMMA ClaimRow ==
  ASSUME PushesGiven, PushesShaped, PushesNamed, Grows, NEW j \in DOMAIN job, Clover!Claim(j)
  PROVE  RowNamed'
<1> DEFINE delta == Clover!Unbilled(j)
           claimed == [row EXCEPT !.seed = <<Clover!Seed(j)>>]
<1>1. \/ row' = claimed \/ row' = [claimed EXCEPT !.error = "removed"]
      \/ row' = [claimed EXCEPT !.supplements = @ \cup {[sig |-> delta, id |-> None]}]
  BY DEF Clover!Claim
<1>2. /\ row'.ticket = row.ticket
      /\ row'.supplements \subseteq row.supplements \cup {[sig |-> delta, id |-> None]}
  BY <1>1 DEF PushesShaped
<1> QED BY <1>2, RowStaysNamed

LEMMA PushesNamedStep ==
  ASSUME PushesGiven, PushesShaped, PushesControlled, PushesNamed, Grows,
         [Clover!Next]_(Clover!vars)
  PROVE  PushesNamed'
<1>1. CASE Clover!PushVersion
  <2> DEFINE p == Clover!Push(Clover!Latest + 1)
  <2>1. /\ UNCHANGED row /\ \A k \in DOMAIN job' \ DOMAIN job : k = p
        /\ \A k \in DOMAIN job : job'[k] = job[k]
        /\ p \notin DOMAIN job /\ p \in DOMAIN job' => job'[p] = Clover!Queued(Versions[Clover!Latest + 1], Clover!Amount(Versions[Clover!Latest + 1]))
    BY <1>1 DEF Clover!PushVersion
  <2>2. p \notin DOMAIN job /\ p \in DOMAIN job' => NamedRight(clover', job'[p], Clover!Ref(p))
    BY <2>1 DEF NamedRight, Clover!Queued
  <2>3. RowNamed'
    BY <2>1, RowStaysNamed
  <2> HIDE DEF p
  <2> QED BY <2>1, <2>2, <2>3, OthersStayNamed DEF PushesNamed
<1>2. ASSUME NEW j \in DOMAIN job, Clover!Start(j) PROVE PushesNamed'
  <2>1. RowNamed'
    BY <1>2, RowStaysNamed DEF PushesShaped, Clover!Start
  <2>2. PlacedRight(job[j], Clover!Primary(j)) /\ Clover!Ref(j) # None /\ j = <<j[1], j[2]>>
    BY RefIsNone DEF PushesControlled
  <2> QED BY <1>2, <2>1, <2>2, StartMoves, StartNames, MoveNamed
<1>3. ASSUME NEW j \in DOMAIN job, Clover!Crash(j) PROVE PushesNamed'
  <2>1. RowNamed'
    BY <1>3, RowStaysNamed DEF PushesShaped, Clover!Crash, Clover!Rested
  <2>2. PlacedRight(job[j], Clover!Primary(j)) /\ Clover!Ref(j) # None /\ j = <<j[1], j[2]>>
    BY RefIsNone DEF PushesControlled
  <2> QED BY <1>3, <2>1, <2>2, CrashMoves, CrashNames, MoveNamed
<1>4. ASSUME NEW j \in DOMAIN job, Clover!RetryDeadLetter(j) PROVE PushesNamed'
  <2>1. RowNamed'
    BY <1>4, RowStaysNamed DEF PushesShaped, Clover!RetryDeadLetter
  <2>2. PlacedRight(job[j], Clover!Primary(j)) /\ Clover!Ref(j) # None /\ j = <<j[1], j[2]>>
    BY RefIsNone DEF PushesControlled
  <2> QED BY <1>4, <2>1, <2>2, RetryDeadLetterMoves, RetryDeadLetterNames, MoveNamed
<1>5. ASSUME NEW j \in DOMAIN job, Clover!RequestFails(j) PROVE PushesNamed'
  <2>1. RowNamed'
    BY <1>5, RowStaysNamed DEF PushesShaped, Clover!RequestFails, Clover!Thrown,
       Clover!Rested, Clover!At
  <2>2. PlacedRight(job[j], Clover!Primary(j)) /\ Clover!Ref(j) # None /\ j = <<j[1], j[2]>>
    BY RefIsNone DEF PushesControlled
  <2> QED BY <1>5, <2>1, <2>2, RequestFailsMoves, RequestFailsNames, MoveNamed
<1>6. ASSUME NEW j \in DOMAIN job, Clover!Adopt(j) PROVE PushesNamed'
  <2>1. RowNamed'
    BY <1>6, RowStaysNamed DEF PushesShaped, Clover!Adopt, Clover!At, Clover!Go, Clover!Created
  <2>2. PlacedRight(job[j], Clover!Primary(j)) /\ Clover!Ref(j) # None /\ j = <<j[1], j[2]>>
    BY RefIsNone DEF PushesControlled
  <2> QED BY <1>6, <2>1, <2>2, AdoptMoves, AdoptNames, MoveNamed
<1>7. ASSUME NEW j \in DOMAIN job, Clover!FindByRef(j) PROVE PushesNamed'
  <2>1. RowNamed'
    BY <1>7, RowStaysNamed DEF PushesShaped, Clover!FindByRef, Clover!At, Clover!Go
  <2>2. PlacedRight(job[j], Clover!Primary(j)) /\ Clover!Ref(j) # None /\ j = <<j[1], j[2]>>
    BY RefIsNone DEF PushesControlled
  <2> QED BY <1>7, <2>1, <2>2, FindByRefMoves, FindByRefNames, MoveNamed
<1>8. ASSUME NEW j \in DOMAIN job, Clover!PostOrder(j) PROVE PushesNamed'
  <2>1. RowNamed'
    BY <1>8, RowStaysNamed DEF PushesShaped, Clover!PostOrder, Clover!At, Clover!Thrown,
       Clover!Rested
  <2>2. PlacedRight(job[j], Clover!Primary(j)) /\ Clover!Ref(j) # None /\ j = <<j[1], j[2]>>
    BY RefIsNone DEF PushesControlled
  <2> QED BY <1>8, <2>1, <2>2, PostOrderMoves, PostOrderNames, MoveNamed
<1>9. ASSUME NEW j \in DOMAIN job, Clover!LinkOrder(j) PROVE PushesNamed'
  <2>1. RowNamed'
    BY <1>9, LinkRow
  <2>2. PlacedRight(job[j], Clover!Primary(j)) /\ Clover!Ref(j) # None /\ j = <<j[1], j[2]>>
    BY RefIsNone DEF PushesControlled
  <2> QED BY <1>9, <2>1, <2>2, LinkOrderMoves, LinkOrderNames, MoveNamed
<1>10. ASSUME NEW j \in DOMAIN job, Clover!ReadHash(j) PROVE PushesNamed'
  <2>1. RowNamed'
    BY <1>10, RowStaysNamed DEF PushesShaped, Clover!ReadHash, Clover!At, Clover!Go,
       Clover!Completed, Clover!Rested
  <2>2. PlacedRight(job[j], Clover!Primary(j)) /\ Clover!Ref(j) # None /\ j = <<j[1], j[2]>>
    BY RefIsNone DEF PushesControlled
  <2> QED BY <1>10, <2>1, <2>2, ReadHashMoves, ReadHashNames, MoveNamed
<1>11. ASSUME NEW j \in DOMAIN job, Clover!GetOrder(j) PROVE PushesNamed'
  <2>1. RowNamed'
    BY <1>11, RowStaysNamed DEF PushesShaped, Clover!GetOrder, Clover!At
  <2>2. PlacedRight(job[j], Clover!Primary(j)) /\ Clover!Ref(j) # None /\ j = <<j[1], j[2]>>
    BY RefIsNone DEF PushesControlled
  <2> QED BY <1>11, <2>1, <2>2, GetOrderMoves, GetOrderNames, MoveNamed
<1>12. ASSUME NEW j \in DOMAIN job, Clover!DeleteLine(j) PROVE PushesNamed'
  <2>1. RowNamed'
    BY <1>12, RowStaysNamed DEF PushesShaped, Clover!DeleteLine, Clover!At
  <2>2. PlacedRight(job[j], Clover!Primary(j)) /\ Clover!Ref(j) # None /\ j = <<j[1], j[2]>>
    BY RefIsNone DEF PushesControlled
  <2> QED BY <1>12, <2>1, <2>2, DeleteLineMoves, DeleteLineNames, MoveNamed
<1>13. ASSUME NEW j \in DOMAIN job, Clover!Deleted(j) PROVE PushesNamed'
  <2>1. RowNamed'
    BY <1>13, RowStaysNamed DEF PushesShaped, Clover!Deleted, Clover!At, Clover!Go
  <2>2. PlacedRight(job[j], Clover!Primary(j)) /\ Clover!Ref(j) # None /\ j = <<j[1], j[2]>>
    BY RefIsNone DEF PushesControlled
  <2> QED BY <1>13, <2>1, <2>2, DeletedMoves, DeletedNames, MoveNamed
<1>14. ASSUME NEW j \in DOMAIN job, Clover!BulkCreate(j) PROVE PushesNamed'
  <2>1. RowNamed'
    BY <1>14, RowStaysNamed DEF PushesShaped, Clover!BulkCreate, Clover!At, Clover!Thrown,
       Clover!Rested
  <2>2. PlacedRight(job[j], Clover!Primary(j)) /\ Clover!Ref(j) # None /\ j = <<j[1], j[2]>>
    BY RefIsNone DEF PushesControlled
  <2> QED BY <1>14, <2>1, <2>2, BulkCreateMoves, BulkCreateNames, MoveNamed
<1>15. ASSUME NEW j \in DOMAIN job, Clover!Filled(j) PROVE PushesNamed'
  <2>1. RowNamed'
    BY <1>15, RowStaysNamed DEF PushesShaped, Clover!Filled, Clover!At, Clover!Go
  <2>2. PlacedRight(job[j], Clover!Primary(j)) /\ Clover!Ref(j) # None /\ j = <<j[1], j[2]>>
    BY RefIsNone DEF PushesControlled
  <2> QED BY <1>15, <2>1, <2>2, FilledMoves, FilledNames, MoveNamed
<1>16. ASSUME NEW j \in DOMAIN job, Clover!SetTotal(j) PROVE PushesNamed'
  <2>1. RowNamed'
    BY <1>16, RowStaysNamed DEF PushesShaped, Clover!SetTotal, Clover!At, Clover!Go,
       Clover!Completed, Clover!Rested
  <2>2. PlacedRight(job[j], Clover!Primary(j)) /\ Clover!Ref(j) # None /\ j = <<j[1], j[2]>>
    BY RefIsNone DEF PushesControlled
  <2> QED BY <1>16, <2>1, <2>2, SetTotalMoves, SetTotalNames, MoveNamed
<1>17. ASSUME NEW j \in DOMAIN job, Clover!SaveHash(j) PROVE PushesNamed'
  <2>1. RowNamed'
    BY <1>17, RowStaysNamed DEF PushesShaped, Clover!SaveHash, Clover!At, Clover!Logged,
       Clover!Completed, Clover!Rested
  <2>2. PlacedRight(job[j], Clover!Primary(j)) /\ Clover!Ref(j) # None /\ j = <<j[1], j[2]>>
    BY RefIsNone DEF PushesControlled
  <2> QED BY <1>17, <2>1, <2>2, SaveHashMoves, SaveHashNames, MoveNamed
<1>18. ASSUME NEW j \in DOMAIN job, Clover!Claim(j) PROVE PushesNamed'
  <2>1. RowNamed'
    BY <1>18, ClaimRow
  <2>2. PlacedRight(job[j], Clover!Primary(j)) /\ Clover!Ref(j) # None /\ j = <<j[1], j[2]>>
    BY RefIsNone DEF PushesControlled
  <2> QED BY <1>18, <2>1, <2>2, ClaimMoves, ClaimNames, MoveNamed
<1>19. ASSUME NEW j \in DOMAIN job, Clover!Bill(j) PROVE PushesNamed'
  <2>1. RowNamed'
    BY <1>19, RowStaysNamed DEF PushesShaped, Clover!Bill, Clover!At, Clover!Go, Clover!BillWith
  <2>2. PlacedRight(job[j], Clover!Primary(j)) /\ Clover!Ref(j) # None /\ j = <<j[1], j[2]>>
    BY RefIsNone DEF PushesControlled
  <2> QED BY <1>19, <2>1, <2>2, BillMoves, BillNames, MoveNamed
<1>20. ASSUME NEW j \in DOMAIN job, Clover!EnqueueSupplement(j) PROVE PushesNamed'
  <2> DEFINE s == Clover!Supp(job[j].sig)
  <2>1. /\ DOMAIN job' = DOMAIN job \cup {s} /\ UNCHANGED <<row, clover>>
        /\ \A k \in DOMAIN job \ {j} : job'[k] = job[k]
        /\ job'[j] = [job[j] EXCEPT !.pc = "save"] /\ job[j].pc = "enqueue"
        /\ s \notin DOMAIN job => job'[s] = Clover!Queued(job[j].bill[1], job[j].bill[2])
    BY <1>20 DEF Clover!EnqueueSupplement, Clover!At
  <2>2. s \notin DOMAIN job => NamedRight(clover', job'[s], Clover!Ref(s))
    BY <2>1 DEF NamedRight, Clover!Queued
  <2>3. RowNamed'
    BY <2>1, RowStaysNamed
  <2>4. job'[j].pc = "save" /\ job'[j].step = job[j].step /\ job'[j].order = job[j].order
    BY <2>1 DEF PushesShaped, JobFields
  <2>5. NamedRight(clover', job'[j], Clover!Ref(j))
    BY <2>1, <2>4 DEF PushesNamed, NamedRight, PushesControlled, PlacedRight, FirstStep
  <2> HIDE DEF s
  <2> QED BY <2>1, <2>2, <2>3, <2>5, OthersStayNamed DEF PushesNamed
<1>21. ASSUME NEW o \in Ids, Clover!Pay(o) PROVE PushesNamed'
  <2>1. UNCHANGED <<row, job>>
    BY <1>21 DEF Clover!Pay
  <2> QED BY <2>1, RowStaysNamed, OthersStayNamed DEF PushesNamed
<1>22. CASE UNCHANGED Clover!vars
  BY <1>22 DEF PushesShaped, PushesNamed, RowNamed, Clover!vars
<1> QED BY <1>1, <1>2, <1>3, <1>4, <1>5, <1>6, <1>7, <1>8, <1>9, <1>10, <1>11, <1>12, <1>13,
           <1>14, <1>15, <1>16, <1>17, <1>18, <1>19, <1>20, <1>21, <1>22 DEF Clover!Next

\* Unless versions overlapped, a push starts when those before it have ended.
PushesInTurn ==
  Clover!Never({"overlap"}) =>
    \A v \in Nat \ {0} : Clover!Push(v) \in DOMAIN job /\ Clover!Push(v + 1) \in DOMAIN job => Clover!Ended(Clover!Push(v))

LEMMA ItIsActive ==
  ASSUME PushesShaped, NEW j \in DOMAIN job, PlacedRight(job[j], Clover!Primary(j)),
         Clover!Start(j) \/ Clover!Crash(j) \/ Clover!RequestFails(j) \/ Clover!Adopt(j) \/ Clover!FindByRef(j) \/ Clover!PostOrder(j) \/ Clover!LinkOrder(j)
         \/ Clover!ReadHash(j) \/ Clover!GetOrder(j) \/ Clover!DeleteLine(j) \/ Clover!Deleted(j) \/ Clover!BulkCreate(j)
         \/ Clover!Filled(j) \/ Clover!SetTotal(j) \/ Clover!SaveHash(j) \/ Clover!Claim(j) \/ Clover!Bill(j) \/ Clover!EnqueueSupplement(j)
  PROVE  ~Clover!Ended(j)
<1>1. CASE Clover!Start(j)
  BY <1>1 DEF Clover!Ended, Clover!At, PlacedRight, Clover!Start
<1>2. CASE Clover!Crash(j)
  BY <1>2 DEF Clover!Ended, Clover!At, PlacedRight, Clover!Crash
<1>3. CASE Clover!RequestFails(j)
  BY <1>3 DEF Clover!Ended, Clover!At, PlacedRight, Clover!RequestFails
<1>4. CASE Clover!Adopt(j)
  BY <1>4 DEF Clover!Ended, Clover!At, PlacedRight, Clover!Adopt
<1>5. CASE Clover!FindByRef(j)
  BY <1>5 DEF Clover!Ended, Clover!At, PlacedRight, Clover!FindByRef
<1>6. CASE Clover!PostOrder(j)
  BY <1>6 DEF Clover!Ended, Clover!At, PlacedRight, Clover!PostOrder
<1>7. CASE Clover!LinkOrder(j)
  BY <1>7 DEF Clover!Ended, Clover!At, PlacedRight, Clover!LinkOrder
<1>8. CASE Clover!ReadHash(j)
  BY <1>8 DEF Clover!Ended, Clover!At, PlacedRight, Clover!ReadHash
<1>9. CASE Clover!GetOrder(j)
  BY <1>9 DEF Clover!Ended, Clover!At, PlacedRight, Clover!GetOrder
<1>10. CASE Clover!DeleteLine(j)
  BY <1>10 DEF Clover!Ended, Clover!At, PlacedRight, Clover!DeleteLine
<1>11. CASE Clover!Deleted(j)
  BY <1>11 DEF Clover!Ended, Clover!At, PlacedRight, Clover!Deleted
<1>12. CASE Clover!BulkCreate(j)
  BY <1>12 DEF Clover!Ended, Clover!At, PlacedRight, Clover!BulkCreate
<1>13. CASE Clover!Filled(j)
  BY <1>13 DEF Clover!Ended, Clover!At, PlacedRight, Clover!Filled
<1>14. CASE Clover!SetTotal(j)
  BY <1>14 DEF Clover!Ended, Clover!At, PlacedRight, Clover!SetTotal
<1>15. CASE Clover!SaveHash(j)
  BY <1>15 DEF Clover!Ended, Clover!At, PlacedRight, Clover!SaveHash
<1>16. CASE Clover!Claim(j)
  BY <1>16 DEF Clover!Ended, Clover!At, PlacedRight, Clover!Claim
<1>17. CASE Clover!Bill(j)
  BY <1>17 DEF Clover!Ended, Clover!At, PlacedRight, Clover!Bill
<1>18. CASE Clover!EnqueueSupplement(j)
  BY <1>18 DEF Clover!Ended, Clover!At, PlacedRight, Clover!EnqueueSupplement
<1> QED BY <1>1, <1>2, <1>3, <1>4, <1>5, <1>6, <1>7, <1>8, <1>9, <1>10, <1>11, <1>12, <1>13,
           <1>14, <1>15, <1>16, <1>17, <1>18

\* What happened is not forgotten.
Spent == used \subseteq used'
LEMMA SpentStep ==
  ASSUME [Clover!Next]_(Clover!vars) PROVE Spent
<1>1. CASE Clover!PushVersion
  BY <1>1 DEF Spent, Clover!Happens, Clover!PushVersion
<1>2. ASSUME NEW j \in DOMAIN job, Clover!Start(j) PROVE Spent
  BY <1>2 DEF Spent, Clover!Happens, Clover!Start
<1>3. ASSUME NEW j \in DOMAIN job, Clover!Crash(j) PROVE Spent
  BY <1>3 DEF Spent, Clover!Happens, Clover!Crash
<1>4. ASSUME NEW j \in DOMAIN job, Clover!RetryDeadLetter(j) PROVE Spent
  BY <1>4 DEF Spent, Clover!Happens, Clover!RetryDeadLetter
<1>5. ASSUME NEW j \in DOMAIN job, Clover!RequestFails(j) PROVE Spent
  BY <1>5 DEF Spent, Clover!Happens, Clover!RequestFails
<1>6. ASSUME NEW j \in DOMAIN job, Clover!Adopt(j) PROVE Spent
  BY <1>6 DEF Spent, Clover!Happens, Clover!Adopt
<1>7. ASSUME NEW j \in DOMAIN job, Clover!FindByRef(j) PROVE Spent
  BY <1>7 DEF Spent, Clover!Happens, Clover!FindByRef
<1>8. ASSUME NEW j \in DOMAIN job, Clover!PostOrder(j) PROVE Spent
  BY <1>8 DEF Spent, Clover!Happens, Clover!PostOrder
<1>9. ASSUME NEW j \in DOMAIN job, Clover!LinkOrder(j) PROVE Spent
  BY <1>9 DEF Spent, Clover!Happens, Clover!Logged, Clover!LinkOrder
<1>10. ASSUME NEW j \in DOMAIN job, Clover!ReadHash(j) PROVE Spent
  BY <1>10 DEF Spent, Clover!Happens, Clover!ReadHash
<1>11. ASSUME NEW j \in DOMAIN job, Clover!GetOrder(j) PROVE Spent
  BY <1>11 DEF Spent, Clover!Happens, Clover!GetOrder
<1>12. ASSUME NEW j \in DOMAIN job, Clover!DeleteLine(j) PROVE Spent
  BY <1>12 DEF Spent, Clover!Happens, Clover!DeleteLine
<1>13. ASSUME NEW j \in DOMAIN job, Clover!Deleted(j) PROVE Spent
  BY <1>13 DEF Spent, Clover!Happens, Clover!Deleted
<1>14. ASSUME NEW j \in DOMAIN job, Clover!BulkCreate(j) PROVE Spent
  BY <1>14 DEF Spent, Clover!Happens, Clover!BulkCreate
<1>15. ASSUME NEW j \in DOMAIN job, Clover!Filled(j) PROVE Spent
  BY <1>15 DEF Spent, Clover!Happens, Clover!Filled
<1>16. ASSUME NEW j \in DOMAIN job, Clover!SetTotal(j) PROVE Spent
  BY <1>16 DEF Spent, Clover!Happens, Clover!SetTotal
<1>17. ASSUME NEW j \in DOMAIN job, Clover!SaveHash(j) PROVE Spent
  BY <1>17 DEF Spent, Clover!Happens, Clover!Logged, Clover!SaveHash
<1>18. ASSUME NEW j \in DOMAIN job, Clover!Claim(j) PROVE Spent
  BY <1>18 DEF Spent, Clover!Happens, Clover!Claim
<1>19. ASSUME NEW j \in DOMAIN job, Clover!Bill(j) PROVE Spent
  BY <1>19 DEF Spent, Clover!Happens, Clover!Bill
<1>20. ASSUME NEW j \in DOMAIN job, Clover!EnqueueSupplement(j) PROVE Spent
  BY <1>20 DEF Spent, Clover!Happens, Clover!EnqueueSupplement
<1>21. ASSUME NEW o \in Ids, Clover!Pay(o) PROVE Spent
  BY <1>21 DEF Spent, Clover!Happens, Clover!Pay
<1>22. CASE UNCHANGED Clover!vars
  BY <1>22 DEF Spent, Clover!Happens, Clover!vars
<1> QED BY <1>1, <1>2, <1>3, <1>4, <1>5, <1>6, <1>7, <1>8, <1>9, <1>10, <1>11, <1>12, <1>13,
           <1>14, <1>15, <1>16, <1>17, <1>18, <1>19, <1>20, <1>21, <1>22 DEF Clover!Next

LEMMA PushesInTurnStep ==
  ASSUME PushesGiven, PushesShaped, PushesControlled, PushesInTurn, Spent,
         [Clover!Next]_(Clover!vars)
  PROVE  PushesInTurn'
<1>1. CASE Clover!PushVersion
  <2> DEFINE n == Clover!Latest
  <2>1. /\ DOMAIN job' = DOMAIN job \cup {Clover!Push(n + 1)} /\ \A k \in DOMAIN job : job'[k].status = job[k].status
        /\ Clover!Never({"overlap"})' => \A k \in DOMAIN job : Clover!Ended(k)
    BY <1>1 DEF Clover!PushVersion, Clover!Never, Clover!Happens
  <2>2. /\ n \in Nat /\ \A v \in Nat \ {0} : Clover!Push(v) \in DOMAIN job <=> v <= n
    BY LatestPush DEF PushesGiven
  <2>3. \A v, w : Clover!Push(v) = Clover!Push(w) => v = w
    BY DEF Clover!Push
  <2> HIDE DEF n
  <2>4. \A v \in Nat \ {0} : Clover!Push(v) \in DOMAIN job' /\ Clover!Push(v + 1) \in DOMAIN job' => Clover!Push(v) \in DOMAIN job
    BY <2>1, <2>2, <2>3
  <2> QED BY <2>1, <2>4 DEF PushesInTurn, Clover!Ended
<1>2. ASSUME NEW j \in DOMAIN job, Clover!Start(j) PROVE PushesInTurn'
  <2>1. ItMoves(j) /\ ~Clover!Ended(j)
    BY <1>2, StartMoves, ItIsActive DEF PushesControlled
  <2> QED BY <2>1 DEF PushesInTurn, Spent, ItMoves, Clover!Ended, Clover!Never
<1>3. ASSUME NEW j \in DOMAIN job, Clover!Crash(j) PROVE PushesInTurn'
  <2>1. ItMoves(j) /\ ~Clover!Ended(j)
    BY <1>3, CrashMoves, ItIsActive DEF PushesControlled
  <2> QED BY <2>1 DEF PushesInTurn, Spent, ItMoves, Clover!Ended, Clover!Never
<1>4. ASSUME NEW j \in DOMAIN job, Clover!RetryDeadLetter(j) PROVE PushesInTurn'
  <2>1. ItMoves(j)
    BY <1>4, RetryDeadLetterMoves DEF PushesControlled
  <2>2. Clover!Never({"overlap"})' => ~Clover!Primary(j) \/ j = Clover!Push(Clover!Latest)
    BY <1>4 DEF Clover!RetryDeadLetter, Clover!Happens, Clover!Never
  <2>3. \A v \in Nat \ {0} : Clover!Push(v) = j /\ Clover!Never({"overlap"})' => Clover!Push(v + 1) \notin DOMAIN job
    BY <2>2, LatestPush DEF Clover!Push, Clover!Primary
  <2> QED BY <2>1, <2>3 DEF PushesInTurn, Spent, ItMoves, Clover!Ended, Clover!Never
<1>5. ASSUME NEW j \in DOMAIN job, Clover!RequestFails(j) PROVE PushesInTurn'
  <2>1. ItMoves(j) /\ ~Clover!Ended(j)
    BY <1>5, RequestFailsMoves, ItIsActive DEF PushesControlled
  <2> QED BY <2>1 DEF PushesInTurn, Spent, ItMoves, Clover!Ended, Clover!Never
<1>6. ASSUME NEW j \in DOMAIN job, Clover!Adopt(j) PROVE PushesInTurn'
  <2>1. ItMoves(j) /\ ~Clover!Ended(j)
    BY <1>6, AdoptMoves, ItIsActive DEF PushesControlled
  <2> QED BY <2>1 DEF PushesInTurn, Spent, ItMoves, Clover!Ended, Clover!Never
<1>7. ASSUME NEW j \in DOMAIN job, Clover!FindByRef(j) PROVE PushesInTurn'
  <2>1. ItMoves(j) /\ ~Clover!Ended(j)
    BY <1>7, FindByRefMoves, ItIsActive DEF PushesControlled
  <2> QED BY <2>1 DEF PushesInTurn, Spent, ItMoves, Clover!Ended, Clover!Never
<1>8. ASSUME NEW j \in DOMAIN job, Clover!PostOrder(j) PROVE PushesInTurn'
  <2>1. ItMoves(j) /\ ~Clover!Ended(j)
    BY <1>8, PostOrderMoves, ItIsActive DEF PushesControlled
  <2> QED BY <2>1 DEF PushesInTurn, Spent, ItMoves, Clover!Ended, Clover!Never
<1>9. ASSUME NEW j \in DOMAIN job, Clover!LinkOrder(j) PROVE PushesInTurn'
  <2>1. ItMoves(j) /\ ~Clover!Ended(j)
    BY <1>9, LinkOrderMoves, ItIsActive DEF PushesControlled
  <2> QED BY <2>1 DEF PushesInTurn, Spent, ItMoves, Clover!Ended, Clover!Never
<1>10. ASSUME NEW j \in DOMAIN job, Clover!ReadHash(j) PROVE PushesInTurn'
  <2>1. ItMoves(j) /\ ~Clover!Ended(j)
    BY <1>10, ReadHashMoves, ItIsActive DEF PushesControlled
  <2> QED BY <2>1 DEF PushesInTurn, Spent, ItMoves, Clover!Ended, Clover!Never
<1>11. ASSUME NEW j \in DOMAIN job, Clover!GetOrder(j) PROVE PushesInTurn'
  <2>1. ItMoves(j) /\ ~Clover!Ended(j)
    BY <1>11, GetOrderMoves, ItIsActive DEF PushesControlled
  <2> QED BY <2>1 DEF PushesInTurn, Spent, ItMoves, Clover!Ended, Clover!Never
<1>12. ASSUME NEW j \in DOMAIN job, Clover!DeleteLine(j) PROVE PushesInTurn'
  <2>1. ItMoves(j) /\ ~Clover!Ended(j)
    BY <1>12, DeleteLineMoves, ItIsActive DEF PushesControlled
  <2> QED BY <2>1 DEF PushesInTurn, Spent, ItMoves, Clover!Ended, Clover!Never
<1>13. ASSUME NEW j \in DOMAIN job, Clover!Deleted(j) PROVE PushesInTurn'
  <2>1. ItMoves(j) /\ ~Clover!Ended(j)
    BY <1>13, DeletedMoves, ItIsActive DEF PushesControlled
  <2> QED BY <2>1 DEF PushesInTurn, Spent, ItMoves, Clover!Ended, Clover!Never
<1>14. ASSUME NEW j \in DOMAIN job, Clover!BulkCreate(j) PROVE PushesInTurn'
  <2>1. ItMoves(j) /\ ~Clover!Ended(j)
    BY <1>14, BulkCreateMoves, ItIsActive DEF PushesControlled
  <2> QED BY <2>1 DEF PushesInTurn, Spent, ItMoves, Clover!Ended, Clover!Never
<1>15. ASSUME NEW j \in DOMAIN job, Clover!Filled(j) PROVE PushesInTurn'
  <2>1. ItMoves(j) /\ ~Clover!Ended(j)
    BY <1>15, FilledMoves, ItIsActive DEF PushesControlled
  <2> QED BY <2>1 DEF PushesInTurn, Spent, ItMoves, Clover!Ended, Clover!Never
<1>16. ASSUME NEW j \in DOMAIN job, Clover!SetTotal(j) PROVE PushesInTurn'
  <2>1. ItMoves(j) /\ ~Clover!Ended(j)
    BY <1>16, SetTotalMoves, ItIsActive DEF PushesControlled
  <2> QED BY <2>1 DEF PushesInTurn, Spent, ItMoves, Clover!Ended, Clover!Never
<1>17. ASSUME NEW j \in DOMAIN job, Clover!SaveHash(j) PROVE PushesInTurn'
  <2>1. ItMoves(j) /\ ~Clover!Ended(j)
    BY <1>17, SaveHashMoves, ItIsActive DEF PushesControlled
  <2> QED BY <2>1 DEF PushesInTurn, Spent, ItMoves, Clover!Ended, Clover!Never
<1>18. ASSUME NEW j \in DOMAIN job, Clover!Claim(j) PROVE PushesInTurn'
  <2>1. ItMoves(j) /\ ~Clover!Ended(j)
    BY <1>18, ClaimMoves, ItIsActive DEF PushesControlled
  <2> QED BY <2>1 DEF PushesInTurn, Spent, ItMoves, Clover!Ended, Clover!Never
<1>19. ASSUME NEW j \in DOMAIN job, Clover!Bill(j) PROVE PushesInTurn'
  <2>1. ItMoves(j) /\ ~Clover!Ended(j)
    BY <1>19, BillMoves, ItIsActive DEF PushesControlled
  <2> QED BY <2>1 DEF PushesInTurn, Spent, ItMoves, Clover!Ended, Clover!Never
<1>20. ASSUME NEW j \in DOMAIN job, Clover!EnqueueSupplement(j) PROVE PushesInTurn'
  <2>1. \A k \in DOMAIN job : job'[k].status = job[k].status
    BY <1>20 DEF PushesShaped, JobFields, Clover!EnqueueSupplement
  <2>2. \A v \in Nat \ {0} : Clover!Push(v) \in DOMAIN job' => Clover!Push(v) \in DOMAIN job
    BY <1>20 DEF Clover!EnqueueSupplement, Clover!Supp, Clover!Push
  <2> QED BY <2>1, <2>2 DEF PushesInTurn, Spent, Clover!Ended, Clover!Never
<1>21. ASSUME NEW o \in Ids, Clover!Pay(o) PROVE PushesInTurn'
  BY <1>21 DEF PushesInTurn, Spent, Clover!Never, Clover!Ended, Clover!Pay
<1>22. CASE UNCHANGED Clover!vars
  BY <1>22 DEF PushesInTurn, Spent, Clover!Never, Clover!Ended, Clover!vars
<1> QED BY <1>1, <1>2, <1>3, <1>4, <1>5, <1>6, <1>7, <1>8, <1>9, <1>10, <1>11, <1>12, <1>13,
           <1>14, <1>15, <1>16, <1>17, <1>18, <1>19, <1>20, <1>21, <1>22 DEF Clover!Next

LEMMA OnePushAtWork ==
  ASSUME PushesControlled, PushesInTurn, Clover!Never({"overlap"}), NEW j \in DOMAIN job,
         NEW k \in DOMAIN job,
         ~Clover!Ended(j), ~Clover!Ended(k), Clover!Ref(j) = Clover!Ref(k)
  PROVE  j = k
<1>1. CASE ~Clover!Primary(j)
  BY <1>1 DEF Clover!Ref, Clover!Primary, Clover!Push
<1>2. CASE ~Clover!Primary(k)
  BY <1>2 DEF Clover!Ref, Clover!Primary, Clover!Push
<1>3. CASE Clover!Primary(j) /\ Clover!Primary(k)
  <2>1. PICK v \in 1 .. Len(Versions), w \in 1 .. Len(Versions) : j = Clover!Push(v) /\ k = Clover!Push(w)
    BY <1>3 DEF PushesControlled, Clover!Primary
  <2>2. PICK n \in 0 .. Len(Versions) : \A u \in Nat \ {0} : Clover!Push(u) \in DOMAIN job <=> u <= n
    BY DEF PushesControlled
  <2>3. v < w => Clover!Push(v + 1) \in DOMAIN job
    BY <2>1, <2>2
  <2>4. w < v => Clover!Push(w + 1) \in DOMAIN job
    BY <2>1, <2>2
  <2> QED BY <2>1, <2>3, <2>4 DEF PushesInTurn
<1> QED BY <1>1, <1>2, <1>3

\* A push about to open an order has seen that there is none of its reference.
PushesOnce ==
  Clover!Never({"blind", "overlap"}) =>
    /\ \A o, p \in Clover!Made : clover[o].ref = clover[p].ref => o = p
    /\ \A j \in DOMAIN job : job[j].pc = "post" => Clover!WithRef(j) = {}

LEMMA PostedOnce ==
  ASSUME PushesGiven, PushesShaped, PushesControlled, PushesInTurn, PushesOnce, Spent,
         NEW j \in DOMAIN job, Clover!PostOrder(j)
  PROVE  PushesOnce'
<1> SUFFICES ASSUME Clover!Never({"blind", "overlap"})' PROVE PushesOnce'
  BY DEF PushesOnce
<1>1. /\ Clover!Never({"overlap"}) /\ \A o, p \in Clover!Made : clover[o].ref = clover[p].ref => o = p
      /\ \A k \in DOMAIN job : job[k].pc = "post" => Clover!WithRef(k) = {}
  BY DEF PushesOnce, Spent, Clover!Never
<1> DEFINE f == Clover!Free
<1>2. /\ job[j].pc = "post" /\ f \in Ids /\ clover[f].ref = None
  BY NoOrderIsBlank DEF Clover!PostOrder, Clover!Free, Clover!At
<1>3. /\ clover'[f].ref = Clover!Ref(j) /\ \A o \in Ids \ {f} : clover'[o].ref = clover[o].ref
  BY <1>2 DEF Clover!PostOrder, PushesShaped
<1> HIDE DEF f
<1>4. \A o \in Ids \ {f} : clover[o].ref # Clover!Ref(j)
  BY <1>1, <1>2 DEF Clover!WithRef
<1>5. ASSUME NEW o \in Clover!Made', NEW p \in Clover!Made', clover'[o].ref = clover'[p].ref
      PROVE  o = p
  <2>1. o \in Ids /\ p \in Ids /\ (o # f => o \in Clover!Made) /\ (p # f => p \in Clover!Made)
    BY <1>3 DEF Clover!Made
  <2> QED BY <1>1, <1>3, <1>4, <1>5, <2>1
<1>6. ItMoves(j) /\ job'[j].pc # "post"
  <2>1. CASE Clover!Thrown(j, TRUE)
    BY <2>1, ItThrows, PostOrderMoves DEF PushesControlled
  <2>2. CASE job' = [job EXCEPT ![j].pc = "link", ![j].order = Clover!Free]
    BY <2>2, ItIsNamed, PostOrderMoves DEF PushesControlled
  <2> QED BY <2>1, <2>2 DEF Clover!PostOrder
<1>7. ASSUME NEW k \in DOMAIN job', job'[k].pc = "post" PROVE Clover!WithRef(k)' = {}
  <2>1. k \in DOMAIN job /\ k # j /\ job[k].pc = "post"
    BY <1>6, <1>7 DEF ItMoves
  <2>2. ~Clover!Ended(j) /\ ~Clover!Ended(k)
    BY <1>2, <2>1 DEF PushesControlled, PlacedRight, Clover!Ended
  <2>3. Clover!Ref(k) # Clover!Ref(j)
    BY <1>1, <2>1, <2>2, OnePushAtWork
  <2> QED BY <1>1, <1>3, <2>1, <2>3 DEF Clover!WithRef
<1> QED BY <1>5, <1>7 DEF PushesOnce

LEMMA OthersOnce ==
  ASSUME PushesOnce, Spent, \A o \in Ids : clover'[o].ref = clover[o].ref,
         \A k \in DOMAIN job' : job'[k].pc = "post" =>
            \/ k \in DOMAIN job /\ job[k].pc = "post"
            \/ ~Clover!Never({"blind", "overlap"})' \/ Clover!WithRef(k) = {}
  PROVE  PushesOnce'
<1>1. Clover!Made' = Clover!Made /\ \A k : Clover!WithRef(k)' = Clover!WithRef(k)
  BY DEF Clover!Made, Clover!WithRef
<1>2. Clover!Never({"blind", "overlap"})' => Clover!Never({"blind", "overlap"})
  BY DEF Spent, Clover!Never
<1> QED BY <1>1, <1>2 DEF PushesOnce, Clover!Made

LEMMA PushesOnceStep ==
  ASSUME PushesGiven, PushesShaped, PushesControlled, PushesInTurn, PushesOnce, Spent,
         [Clover!Next]_(Clover!vars)
  PROVE  PushesOnce'
<1>1. CASE Clover!PushVersion
  <2>1. /\ UNCHANGED clover /\ \A k \in DOMAIN job : job'[k] = job[k]
        /\ \A k \in DOMAIN job' \ DOMAIN job : job'[k].pc = "idle"
    BY <1>1 DEF Clover!PushVersion, Clover!Queued
  <2> QED BY <2>1, OthersOnce
<1>2. ASSUME NEW j \in DOMAIN job, Clover!Start(j) PROVE PushesOnce'
  <2>1. UNCHANGED clover /\ ItMoves(j)
    BY <1>2, StartMoves DEF PushesControlled, Clover!Start
  <2>2. job'[j].pc = IF job[j].step = 1 THEN "adopt" ELSE IF Clover!Primary(j) THEN "hash" ELSE "get"
    BY <1>2, ItStarts
  <2> QED BY <2>1, <2>2, OthersOnce DEF ItMoves
<1>3. ASSUME NEW j \in DOMAIN job, Clover!Crash(j) PROVE PushesOnce'
  <2>1. \A o \in Ids : clover'[o].ref = clover[o].ref
    BY <1>3 DEF PushesShaped, Clover!Crash
  <2>2. ItMoves(j) /\ job'[j].pc # "post"
    BY <1>3, ItCrashes, CrashMoves DEF PushesControlled, PlacedRight, ItMoves, Clover!Crash
  <2> QED BY <2>1, <2>2, OthersOnce DEF ItMoves
<1>4. ASSUME NEW j \in DOMAIN job, Clover!RetryDeadLetter(j) PROVE PushesOnce'
  <2>1. UNCHANGED clover /\ ItMoves(j) /\ job'[j].pc = job[j].pc
    BY <1>4, ItIsRetried, RetryDeadLetterMoves DEF PushesControlled, Clover!RetryDeadLetter
  <2> QED BY <2>1, OthersOnce DEF ItMoves
<1>5. ASSUME NEW j \in DOMAIN job, Clover!RequestFails(j) PROVE PushesOnce'
  <2>1. \A o \in Ids : clover'[o].ref = clover[o].ref
    BY <1>5 DEF PushesShaped, Clover!RequestFails
  <2>2. ItMoves(j) /\ job'[j].pc # "post"
    BY <1>5, ItThrows, RequestFailsMoves DEF PushesControlled, PlacedRight, ItMoves,
       Clover!RequestFails, Clover!At
  <2> QED BY <2>1, <2>2, OthersOnce DEF ItMoves
<1>6. ASSUME NEW j \in DOMAIN job, Clover!Adopt(j) PROVE PushesOnce'
  <2>1. \A o \in Ids : clover'[o].ref = clover[o].ref
    BY <1>6 DEF PushesShaped, Clover!Adopt
  <2>2. ItMoves(j) /\ job'[j].pc # "post"
    BY <1>6, ItGoes, ItIsCreated, AdoptMoves DEF PushesControlled, PlacedRight, ItMoves,
       Clover!Adopt, Clover!At
  <2> QED BY <2>1, <2>2, OthersOnce DEF ItMoves
<1>7. ASSUME NEW j \in DOMAIN job, Clover!FindByRef(j) PROVE PushesOnce'
  <2>1. UNCHANGED clover /\ ItMoves(j)
    BY <1>7, FindByRefMoves DEF PushesControlled, Clover!FindByRef
  <2>2. job'[j].pc = "post" => ~Clover!Never({"blind", "overlap"})' \/ Clover!WithRef(j) = {}
    <3>1. ASSUME NEW o, job' = [job EXCEPT ![j].pc = "link", ![j].order = o]
          PROVE  job'[j].pc = "link"
      BY <3>1, ItIsNamed
    <3> QED BY <1>7, <3>1 DEF Clover!FindByRef, Clover!Happens, Clover!Never
  <2> QED BY <2>1, <2>2, OthersOnce DEF ItMoves
<1>8. ASSUME NEW j \in DOMAIN job, Clover!PostOrder(j) PROVE PushesOnce'
  BY <1>8, PostedOnce
<1>9. ASSUME NEW j \in DOMAIN job, Clover!LinkOrder(j) PROVE PushesOnce'
  <2>1. \A o \in Ids : clover'[o].ref = clover[o].ref
    BY <1>9 DEF PushesShaped, Clover!LinkOrder
  <2>2. ItMoves(j) /\ job'[j].pc # "post"
    BY <1>9, ItIsCreated, LinkOrderMoves DEF PushesControlled, PlacedRight, ItMoves,
       Clover!LinkOrder, Clover!At, Clover!Logged, Clover!WithTicket, Clover!WithSupplement
  <2> QED BY <2>1, <2>2, OthersOnce DEF ItMoves
<1>10. ASSUME NEW j \in DOMAIN job, Clover!ReadHash(j) PROVE PushesOnce'
  <2>1. \A o \in Ids : clover'[o].ref = clover[o].ref
    BY <1>10 DEF PushesShaped, Clover!ReadHash
  <2>2. ItMoves(j) /\ job'[j].pc # "post"
    BY <1>10, ItGoes, ItCompletes, ReadHashMoves DEF PushesControlled, PlacedRight, ItMoves,
       Clover!ReadHash, Clover!At
  <2> QED BY <2>1, <2>2, OthersOnce DEF ItMoves
<1>11. ASSUME NEW j \in DOMAIN job, Clover!GetOrder(j) PROVE PushesOnce'
  <2>1. UNCHANGED clover /\ ItMoves(j)
    BY <1>11, GetOrderMoves DEF PushesControlled, Clover!GetOrder
  <2>2. job'[j].pc \in {"claim", "delete"}
    BY <1>11, ItCompares
  <2> QED BY <2>1, <2>2, OthersOnce DEF ItMoves
<1>12. ASSUME NEW j \in DOMAIN job, Clover!DeleteLine(j) PROVE PushesOnce'
  <2>1. \A o \in Ids : clover'[o].ref = clover[o].ref
    BY <1>12 DEF PushesShaped, Clover!DeleteLine
  <2>2. ItMoves(j) /\ job'[j].pc # "post"
    BY <1>12, ItDeletes, DeleteLineMoves DEF PushesControlled, PlacedRight, ItMoves,
       Clover!DeleteLine, Clover!At
  <2> QED BY <2>1, <2>2, OthersOnce DEF ItMoves
<1>13. ASSUME NEW j \in DOMAIN job, Clover!Deleted(j) PROVE PushesOnce'
  <2>1. \A o \in Ids : clover'[o].ref = clover[o].ref
    BY <1>13 DEF PushesShaped, Clover!Deleted
  <2>2. ItMoves(j) /\ job'[j].pc # "post"
    BY <1>13, ItGoes, DeletedMoves DEF PushesControlled, PlacedRight, ItMoves, Clover!Deleted,
       Clover!At
  <2> QED BY <2>1, <2>2, OthersOnce DEF ItMoves
<1>14. ASSUME NEW j \in DOMAIN job, Clover!BulkCreate(j) PROVE PushesOnce'
  <2>1. \A o \in Ids : clover'[o].ref = clover[o].ref
    <3>1. ASSUME NEW b, clover' = [clover EXCEPT ![job[j].order].lines = b]
          PROVE  \A o \in Ids : clover'[o].ref = clover[o].ref
      BY <3>1 DEF PushesShaped
    <3> QED BY <1>14, <3>1 DEF Clover!BulkCreate
  <2>2. job'[j].pc \in {"idle", "bulk"}
    <3>1. ASSUME NEW b, job' = [job EXCEPT ![j].add = b] PROVE job'[j].pc \in {"idle", "bulk"}
      BY <1>14, <3>1, ItAdds DEF Clover!BulkCreate, Clover!At
    <3>2. ASSUME NEW retryable, Clover!Thrown(j, retryable)
          PROVE  job'[j].pc \in {"idle", "bulk"}
      BY <3>2, ItThrows
    <3> QED BY <1>14, <3>1, <3>2 DEF Clover!BulkCreate
  <2>3. ItMoves(j)
    BY <1>14, BulkCreateMoves DEF PushesControlled
  <2> QED BY <2>1, <2>2, <2>3, OthersOnce DEF ItMoves
<1>15. ASSUME NEW j \in DOMAIN job, Clover!Filled(j) PROVE PushesOnce'
  <2>1. \A o \in Ids : clover'[o].ref = clover[o].ref
    BY <1>15 DEF PushesShaped, Clover!Filled
  <2>2. ItMoves(j) /\ job'[j].pc # "post"
    BY <1>15, ItGoes, FilledMoves DEF PushesControlled, PlacedRight, ItMoves, Clover!Filled,
       Clover!At
  <2> QED BY <2>1, <2>2, OthersOnce DEF ItMoves
<1>16. ASSUME NEW j \in DOMAIN job, Clover!SetTotal(j) PROVE PushesOnce'
  <2>1. \A o \in Ids : clover'[o].ref = clover[o].ref
    BY <1>16 DEF PushesShaped, Clover!SetTotal
  <2>2. ItMoves(j) /\ job'[j].pc # "post"
    BY <1>16, ItGoes, ItCompletes, SetTotalMoves DEF PushesControlled, PlacedRight, ItMoves,
       Clover!SetTotal, Clover!At
  <2> QED BY <2>1, <2>2, OthersOnce DEF ItMoves
<1>17. ASSUME NEW j \in DOMAIN job, Clover!SaveHash(j) PROVE PushesOnce'
  <2>1. \A o \in Ids : clover'[o].ref = clover[o].ref
    BY <1>17 DEF PushesShaped, Clover!SaveHash
  <2>2. ItMoves(j) /\ job'[j].pc # "post"
    BY <1>17, ItCompletes, SaveHashMoves DEF PushesControlled, PlacedRight, ItMoves,
       Clover!SaveHash, Clover!At, Clover!Logged
  <2> QED BY <2>1, <2>2, OthersOnce DEF ItMoves
<1>18. ASSUME NEW j \in DOMAIN job, Clover!Claim(j) PROVE PushesOnce'
  <2>1. UNCHANGED clover /\ ItMoves(j)
    BY <1>18, ClaimMoves DEF PushesControlled, Clover!Claim
  <2>2. job'[j].pc \in {"save", "bill"}
    <3>1. Clover!Go(j, "save") => job'[j].pc = "save"
      BY ItGoes
    <3>2. ASSUME NEW b, job' = [job EXCEPT ![j].pc = "bill", ![j].sig = b]
          PROVE  job'[j].pc = "bill"
      BY <3>2, ItClaims
    <3> QED BY <1>18, <3>1, <3>2 DEF Clover!Claim
  <2> QED BY <2>1, <2>2, OthersOnce DEF ItMoves
<1>19. ASSUME NEW j \in DOMAIN job, Clover!Bill(j) PROVE PushesOnce'
  <2>1. UNCHANGED clover /\ ItMoves(j)
    BY <1>19, BillMoves DEF PushesControlled, Clover!Bill
  <2>2. job'[j].pc \in {"save", "enqueue"}
    <3>1. Clover!Go(j, "save") => job'[j].pc = "save"
      BY ItGoes
    <3>2. ASSUME NEW b, job' = [job EXCEPT ![j].pc = "enqueue", ![j].bill = b]
          PROVE  job'[j].pc = "enqueue"
      BY <3>2, ItBills
    <3> QED BY <1>19, <3>1, <3>2 DEF Clover!Bill, Clover!BillWith
  <2> QED BY <2>1, <2>2, OthersOnce DEF ItMoves
<1>20. ASSUME NEW j \in DOMAIN job, Clover!EnqueueSupplement(j) PROVE PushesOnce'
  <2> DEFINE s == Clover!Supp(job[j].sig)
  <2>1. /\ DOMAIN job' = DOMAIN job \cup {s} /\ UNCHANGED clover
        /\ \A k \in DOMAIN job \ {j} : job'[k] = job[k]
        /\ job'[j] = [job[j] EXCEPT !.pc = "save"]
        /\ s \notin DOMAIN job => job'[s] = Clover!Queued(job[j].bill[1], job[j].bill[2])
    BY <1>20 DEF Clover!EnqueueSupplement, Clover!At
  <2>2. job'[j].pc = "save" /\ (s \notin DOMAIN job => job'[s].pc = "idle")
    BY <2>1 DEF PushesShaped, JobFields, Clover!Queued
  <2> HIDE DEF s
  <2> QED BY <2>1, <2>2, OthersOnce
<1>21. ASSUME NEW o \in Ids, Clover!Pay(o) PROVE PushesOnce'
  <2>1. UNCHANGED job /\ \A p \in Ids : clover'[p].ref = clover[p].ref
    BY <1>21 DEF PushesShaped, Clover!Pay
  <2> QED BY <2>1, OthersOnce
<1>22. CASE UNCHANGED Clover!vars
  BY <1>22, OthersOnce DEF Clover!vars
<1> QED BY <1>1, <1>2, <1>3, <1>4, <1>5, <1>6, <1>7, <1>8, <1>9, <1>10, <1>11, <1>12, <1>13,
           <1>14, <1>15, <1>16, <1>17, <1>18, <1>19, <1>20, <1>21, <1>22 DEF Clover!Next

\* How many of a line there are in a bag.
Copies(l, b) == IF l \in DOMAIN b THEN b[l] ELSE 0

\* The bags of Clover's lines, line by line.
LEMMA BagLess ==
  ASSUME NEW A, NEW B, Clover!IsABag(A), Clover!IsABag(B)
  PROVE  /\ Clover!IsABag(Clover!(-)(A, B))
         /\ \A l : Copies(l, Clover!(-)(A, B)) = IF Copies(l, A) > Copies(l, B) THEN Copies(l, A) - Copies(l, B) ELSE 0
  BY DEF Clover!IsABag, Clover!(-), Copies
LEMMA BagMore ==
  ASSUME NEW A, NEW B, Clover!IsABag(A), Clover!IsABag(B)
  PROVE  /\ Clover!IsABag(Clover!(+)(A, B))
         /\ \A l : Copies(l, Clover!(+)(A, B)) = Copies(l, A) + Copies(l, B)
  BY DEF Clover!IsABag, Clover!(+), Copies
LEMMA BagOfOne ==
  ASSUME NEW x
  PROVE  /\ Clover!IsABag(Clover!SetToBag({x}))
         /\ \A l : Copies(l, Clover!SetToBag({x})) = IF l = x THEN 1 ELSE 0
  BY DEF Clover!IsABag, Clover!SetToBag, Copies
LEMMA BagOfNone == Clover!IsABag(Clover!EmptyBag) /\ \A l : Copies(l, Clover!EmptyBag) = 0
  BY DEF Clover!IsABag, Clover!EmptyBag, Clover!SetToBag, Copies
LEMMA CopiesCount ==
  ASSUME NEW A, Clover!IsABag(A)
  PROVE  \A l : Copies(l, A) \in Nat /\ (l \in DOMAIN A <=> Copies(l, A) > 0)
  BY DEF Clover!IsABag, Copies
LEMMA SameCopies ==
  ASSUME NEW A, NEW B, Clover!IsABag(A), Clover!IsABag(B), \A l : Copies(l, A) = Copies(l, B)
  PROVE  A = B
<1>1. DOMAIN A = DOMAIN B
  BY CopiesCount
<1>2. \A l \in DOMAIN A : A[l] = B[l]
  BY <1>1 DEF Copies
<1> QED BY <1>1, <1>2 DEF Clover!IsABag
LEMMA SameLines ==
  ASSUME NEW A, NEW B, Clover!IsABag(A), Clover!IsABag(B)
  PROVE  LET delta == Clover!LineItemDelta(A, B)
         IN  /\ Clover!IsABag(delta.toDelete) /\ Clover!IsABag(delta.toCreate)
             /\ \A l : /\ Copies(l, delta.toDelete) <= Copies(l, A)
                       /\ Copies(l, A) - Copies(l, delta.toDelete) + Copies(l, delta.toCreate) = Copies(l, B)
<1>1. /\ Clover!LineItemDelta(A, B).toDelete = Clover!(-)(A, B)
      /\ Clover!LineItemDelta(A, B).toCreate = Clover!(-)(B, A)
  BY DEF Clover!LineItemDelta
<1>2. \A l : Copies(l, A) \in Nat /\ Copies(l, B) \in Nat
  BY CopiesCount
<1>3. Clover!IsABag(Clover!(-)(A, B)) /\ Clover!IsABag(Clover!(-)(B, A))
  BY BagLess
<1>4. \A l : Copies(l, Clover!(-)(A, B)) = IF Copies(l, A) > Copies(l, B) THEN Copies(l, A) - Copies(l, B) ELSE 0
  BY BagLess
<1>5. \A l : Copies(l, Clover!(-)(B, A)) = IF Copies(l, B) > Copies(l, A) THEN Copies(l, B) - Copies(l, A) ELSE 0
  BY BagLess
<1> QED BY <1>1, <1>2, <1>3, <1>4, <1>5
LEMMA ChunksAreBags ==
  ASSUME NEW B, Clover!IsABag(B), BulkMax \in Nat, NEW chunk \in Clover!Chunks(B)
  PROVE  Clover!IsABag(chunk) /\ \A l : Copies(l, chunk) <= Copies(l, B)
<1>1. PICK n \in [DOMAIN B -> 0 .. BulkMax] :
        (\A l \in DOMAIN B : n[l] <= B[l]) /\ chunk = [l \in {l \in DOMAIN B : n[l] > 0} |-> n[l]]
  BY DEF Clover!Chunks
<1>2. DOMAIN chunk \subseteq DOMAIN B /\ \A l \in DOMAIN chunk : chunk[l] = n[l] /\ n[l] > 0 /\ n[l] \in Nat /\ n[l] <= B[l]
  BY <1>1
<1>3. chunk \in [DOMAIN chunk -> {m \in Nat : m > 0}]
  BY <1>1
<1> QED BY <1>2, <1>3, CopiesCount DEF Clover!IsABag, Copies

\* What is known of the lines of the order and of what its pushes still have to do to them.
PushesBags ==
  /\ \A o \in Ids : clover[o].ref = Clover!Push(1) => Clover!IsABag(clover[o].lines)
  /\ \A j \in DOMAIN job : Clover!Primary(j) => Clover!IsABag(job[j].del) /\ Clover!IsABag(job[j].add)

\* A step of a job writes the lines of an order of its own reference only.
Touches(j) ==
  \A o \in Ids : /\ clover[o].ref # None => clover'[o].ref = clover[o].ref
                 /\ clover'[o].ref = clover[o].ref /\ clover[o].ref # Clover!Ref(j) => clover'[o].lines = clover[o].lines
                 /\ clover'[o].ref # clover[o].ref => clover'[o].lines = Clover!EmptyBag

LEMMA MoveBags ==
  ASSUME PushesBags, NEW j \in DOMAIN job, ItMoves(j), Touches(j),
         Clover!Primary(j) => /\ Clover!IsABag(job'[j].del) /\ Clover!IsABag(job'[j].add)
                              /\ \A o \in Ids : clover[o].ref = Clover!Push(1) => Clover!IsABag(clover'[o].lines)
  PROVE  PushesBags'
<1>1. \A o \in Ids : clover'[o].ref = Clover!Push(1) => Clover!IsABag(clover'[o].lines)
  <2> TAKE o \in Ids
  <2>1. CASE clover'[o].ref # clover[o].ref
    BY <2>1, BagOfNone DEF Touches
  <2>2. CASE clover'[o].ref = clover[o].ref /\ ~Clover!Primary(j)
    <3>1. Clover!Ref(j) # Clover!Push(1)
      BY <2>2 DEF Clover!Ref, Clover!Primary, Clover!Push
    <3> QED BY <2>2, <3>1 DEF Touches, PushesBags
  <2> QED BY <2>1, <2>2
<1> QED BY <1>1 DEF PushesBags, ItMoves

LEMMA StartTouches ==
  ASSUME PushesGiven, PushesShaped, PushesControlled, PushesNamed, NEW j \in DOMAIN job,
         Clover!Start(j)
  PROVE  Touches(j)
  BY DEF Touches, Clover!Start
LEMMA CrashTouches ==
  ASSUME PushesGiven, PushesShaped, PushesControlled, PushesNamed, NEW j \in DOMAIN job,
         Clover!Crash(j)
  PROVE  Touches(j)
  BY DEF Touches, Clover!Crash
LEMMA RetryDeadLetterTouches ==
  ASSUME PushesGiven, PushesShaped, PushesControlled, PushesNamed, NEW j \in DOMAIN job,
         Clover!RetryDeadLetter(j)
  PROVE  Touches(j)
  BY DEF Touches, Clover!RetryDeadLetter
LEMMA RequestFailsTouches ==
  ASSUME PushesGiven, PushesShaped, PushesControlled, PushesNamed, NEW j \in DOMAIN job,
         Clover!RequestFails(j)
  PROVE  Touches(j)
  BY DEF Touches, Clover!RequestFails
LEMMA AdoptTouches ==
  ASSUME PushesGiven, PushesShaped, PushesControlled, PushesNamed, NEW j \in DOMAIN job,
         Clover!Adopt(j)
  PROVE  Touches(j)
  BY DEF Touches, Clover!Adopt
LEMMA FindByRefTouches ==
  ASSUME PushesGiven, PushesShaped, PushesControlled, PushesNamed, NEW j \in DOMAIN job,
         Clover!FindByRef(j)
  PROVE  Touches(j)
  BY DEF Touches, Clover!FindByRef
LEMMA PostOrderTouches ==
  ASSUME PushesGiven, PushesShaped, PushesControlled, PushesNamed, NEW j \in DOMAIN job,
         Clover!PostOrder(j)
  PROVE  Touches(j)
<1>1. Clover!Free \in Ids /\ clover[Clover!Free] = Clover!NoOrder
  BY DEF Clover!PostOrder, Clover!Free
<1>2. /\ \A o \in Ids \ {Clover!Free} : clover'[o] = clover[o]
      /\ clover'[Clover!Free].lines = clover[Clover!Free].lines /\ clover'[Clover!Free].ref = Clover!Ref(j)
  BY <1>1 DEF Clover!PostOrder, PushesShaped
<1> QED BY <1>1, <1>2, NoOrderIsBlank DEF Touches
LEMMA LinkOrderTouches ==
  ASSUME PushesGiven, PushesShaped, PushesControlled, PushesNamed, NEW j \in DOMAIN job,
         Clover!LinkOrder(j)
  PROVE  Touches(j)
  BY DEF Touches, Clover!LinkOrder
LEMMA ReadHashTouches ==
  ASSUME PushesGiven, PushesShaped, PushesControlled, PushesNamed, NEW j \in DOMAIN job,
         Clover!ReadHash(j)
  PROVE  Touches(j)
  BY DEF Touches, Clover!ReadHash
LEMMA GetOrderTouches ==
  ASSUME PushesGiven, PushesShaped, PushesControlled, PushesNamed, NEW j \in DOMAIN job,
         Clover!GetOrder(j)
  PROVE  Touches(j)
  BY DEF Touches, Clover!GetOrder
LEMMA DeleteLineTouches ==
  ASSUME PushesGiven, PushesShaped, PushesControlled, PushesNamed, NEW j \in DOMAIN job,
         Clover!DeleteLine(j)
  PROVE  Touches(j)
<1>1. clover[job[j].order].ref = Clover!Ref(j)
  BY DEF PushesGiven, PushesNamed, NamedRight, PushesControlled, PlacedRight, FirstStep,
     Clover!DeleteLine, Clover!At
<1>2. ASSUME NEW b, clover' = [clover EXCEPT ![job[j].order].lines = b] PROVE Touches(j)
  BY <1>1, <1>2 DEF PushesShaped, Touches
<1>3. CASE clover' = clover
  BY <1>3 DEF Touches
<1> QED BY <1>2, <1>3 DEF Clover!DeleteLine
LEMMA DeletedTouches ==
  ASSUME PushesGiven, PushesShaped, PushesControlled, PushesNamed, NEW j \in DOMAIN job,
         Clover!Deleted(j)
  PROVE  Touches(j)
  BY DEF Touches, Clover!Deleted
LEMMA BulkCreateTouches ==
  ASSUME PushesGiven, PushesShaped, PushesControlled, PushesNamed, NEW j \in DOMAIN job,
         Clover!BulkCreate(j)
  PROVE  Touches(j)
<1>1. clover[job[j].order].ref = Clover!Ref(j)
  BY DEF PushesGiven, PushesNamed, NamedRight, PushesControlled, PlacedRight, FirstStep,
     Clover!BulkCreate, Clover!At
<1>2. ASSUME NEW b, clover' = [clover EXCEPT ![job[j].order].lines = b] PROVE Touches(j)
  BY <1>1, <1>2 DEF PushesShaped, Touches
<1>3. CASE clover' = clover
  BY <1>3 DEF Touches
<1> QED BY <1>2, <1>3 DEF Clover!BulkCreate
LEMMA FilledTouches ==
  ASSUME PushesGiven, PushesShaped, PushesControlled, PushesNamed, NEW j \in DOMAIN job,
         Clover!Filled(j)
  PROVE  Touches(j)
  BY DEF Touches, Clover!Filled
LEMMA SetTotalTouches ==
  ASSUME PushesGiven, PushesShaped, PushesControlled, PushesNamed, NEW j \in DOMAIN job,
         Clover!SetTotal(j)
  PROVE  Touches(j)
  BY DEF Touches, PushesShaped, Clover!SetTotal
LEMMA SaveHashTouches ==
  ASSUME PushesGiven, PushesShaped, PushesControlled, PushesNamed, NEW j \in DOMAIN job,
         Clover!SaveHash(j)
  PROVE  Touches(j)
  BY DEF Touches, Clover!SaveHash
LEMMA ClaimTouches ==
  ASSUME PushesGiven, PushesShaped, PushesControlled, PushesNamed, NEW j \in DOMAIN job,
         Clover!Claim(j)
  PROVE  Touches(j)
  BY DEF Touches, Clover!Claim
LEMMA BillTouches ==
  ASSUME PushesGiven, PushesShaped, PushesControlled, PushesNamed, NEW j \in DOMAIN job,
         Clover!Bill(j)
  PROVE  Touches(j)
  BY DEF Touches, Clover!Bill

LEMMA OwnLines ==
  ASSUME PushesGiven, PushesControlled, PushesNamed, PushesBags, NEW j \in DOMAIN job,
         Clover!Primary(j),
         job[j].pc \in {"get", "delete", "bulk", "total", "save"} \/ job[j].status = "completed"
  PROVE  /\ job[j].order \in Ids /\ clover[job[j].order].ref = Clover!Push(1)
         /\ Clover!IsABag(clover[job[j].order].lines) /\ Clover!IsABag(job[j].lines)
<1>1. PICK v \in 1 .. Len(Versions) : j = Clover!Push(v)
  BY DEF PushesControlled, Clover!Primary
<1>2. job[j].step = 2
  BY DEF PushesControlled, PlacedRight, FirstStep
<1>3. job[j].order \in Ids /\ clover[job[j].order].ref = Clover!Push(1)
  BY <1>2 DEF PushesGiven, PushesNamed, NamedRight, Clover!Ref
<1> QED BY <1>1, <1>3 DEF PushesGiven, PushesControlled, PushesBags

LEMMA DeletesOne ==
  ASSUME NEW j \in DOMAIN job, Clover!DeleteLine(j)
  PROVE  LET one == Clover!SetToBag({CHOOSE l \in DOMAIN job[j].del : TRUE})
         IN  /\ job' = [job EXCEPT ![j].del = Clover!(-)(job[j].del, one)]
             /\ \/ clover' = clover
                \/ clover' = [clover EXCEPT ![job[j].order].lines = Clover!(-)(clover[job[j].order].lines, one)]
             /\ clover' = clover => clover[job[j].order].paid \/ ~Clover!Never({"undeleted"})'
                                    \/ clover' = [clover EXCEPT ![job[j].order].lines = Clover!(-)(clover[job[j].order].lines, one)]
  BY DEF Clover!DeleteLine, Clover!Happens, Clover!Never
LEMMA AddsAChunk ==
  ASSUME NEW j \in DOMAIN job, Clover!BulkCreate(j)
  PROVE  \/ clover' = clover /\ Clover!Thrown(j, FALSE)
         \/ \E chunk \in Clover!Chunks(job[j].add) :
              /\ clover' = [clover EXCEPT ![job[j].order].lines = Clover!(+)(clover[job[j].order].lines, chunk)]
              /\ \/ job' = [job EXCEPT ![j].add = Clover!(-)(job[j].add, chunk)]
                 \/ Clover!Thrown(j, TRUE)
  BY DEF Clover!BulkCreate

LEMMA PushesBagsStep ==
  ASSUME PushesGiven, PushesShaped, PushesControlled, PushesNamed, PushesBags,
         [Clover!Next]_(Clover!vars)
  PROVE  PushesBags'
<1>1. CASE Clover!PushVersion
  <2> DEFINE p == Clover!Push(Clover!Latest + 1)
  <2>1. /\ UNCHANGED clover /\ DOMAIN job' = DOMAIN job \cup {p} /\ \A k \in DOMAIN job : job'[k] = job[k]
        /\ p \notin DOMAIN job => job'[p].del = Clover!EmptyBag /\ job'[p].add = Clover!EmptyBag
    BY <1>1 DEF Clover!PushVersion, Clover!Queued
  <2> HIDE DEF p
  <2> QED BY <2>1, BagOfNone DEF PushesBags
<1>2. ASSUME NEW j \in DOMAIN job, Clover!Start(j) PROVE PushesBags'
  <2>1. ItMoves(j) /\ Touches(j)
    BY <1>2, StartMoves, StartTouches DEF PushesControlled
  <2>2. \A o \in Ids : clover'[o].lines = clover[o].lines
    BY <1>2 DEF PushesShaped, Clover!Start
  <2>3. \/ job'[j].del = job[j].del /\ job'[j].add = job[j].add
        \/ job'[j].del = Clover!EmptyBag /\ job'[j].add = Clover!EmptyBag
    BY <1>2, ItStarts DEF Clover!Start
  <2> QED BY <2>1, <2>2, <2>3, BagOfNone, MoveBags DEF PushesBags
<1>3. ASSUME NEW j \in DOMAIN job, Clover!Crash(j) PROVE PushesBags'
  <2>1. ItMoves(j) /\ Touches(j)
    BY <1>3, CrashMoves, CrashTouches DEF PushesControlled
  <2>2. \A o \in Ids : clover'[o].lines = clover[o].lines
    BY <1>3 DEF PushesShaped, Clover!Crash
  <2>3. \/ job'[j].del = job[j].del /\ job'[j].add = job[j].add
        \/ job'[j].del = Clover!EmptyBag /\ job'[j].add = Clover!EmptyBag
    BY <1>3, ItCrashes DEF Clover!Crash
  <2> QED BY <2>1, <2>2, <2>3, BagOfNone, MoveBags DEF PushesBags
<1>4. ASSUME NEW j \in DOMAIN job, Clover!RetryDeadLetter(j) PROVE PushesBags'
  <2>1. ItMoves(j) /\ Touches(j)
    BY <1>4, RetryDeadLetterMoves, RetryDeadLetterTouches DEF PushesControlled
  <2>2. \A o \in Ids : clover'[o].lines = clover[o].lines
    BY <1>4 DEF PushesShaped, Clover!RetryDeadLetter
  <2>3. \/ job'[j].del = job[j].del /\ job'[j].add = job[j].add
        \/ job'[j].del = Clover!EmptyBag /\ job'[j].add = Clover!EmptyBag
    BY <1>4, ItIsRetried DEF Clover!RetryDeadLetter
  <2> QED BY <2>1, <2>2, <2>3, BagOfNone, MoveBags DEF PushesBags
<1>5. ASSUME NEW j \in DOMAIN job, Clover!RequestFails(j) PROVE PushesBags'
  <2>1. ItMoves(j) /\ Touches(j)
    BY <1>5, RequestFailsMoves, RequestFailsTouches DEF PushesControlled
  <2>2. \A o \in Ids : clover'[o].lines = clover[o].lines
    BY <1>5 DEF PushesShaped, Clover!RequestFails
  <2>3. \/ job'[j].del = job[j].del /\ job'[j].add = job[j].add
        \/ job'[j].del = Clover!EmptyBag /\ job'[j].add = Clover!EmptyBag
    BY <1>5, ItThrows DEF Clover!RequestFails
  <2> QED BY <2>1, <2>2, <2>3, BagOfNone, MoveBags DEF PushesBags
<1>6. ASSUME NEW j \in DOMAIN job, Clover!Adopt(j) PROVE PushesBags'
  <2>1. ItMoves(j) /\ Touches(j)
    BY <1>6, AdoptMoves, AdoptTouches DEF PushesControlled
  <2>2. \A o \in Ids : clover'[o].lines = clover[o].lines
    BY <1>6 DEF PushesShaped, Clover!Adopt
  <2>3. \/ job'[j].del = job[j].del /\ job'[j].add = job[j].add
        \/ job'[j].del = Clover!EmptyBag /\ job'[j].add = Clover!EmptyBag
    BY <1>6, ItGoes, ItIsCreated DEF Clover!Adopt
  <2> QED BY <2>1, <2>2, <2>3, BagOfNone, MoveBags DEF PushesBags
<1>7. ASSUME NEW j \in DOMAIN job, Clover!FindByRef(j) PROVE PushesBags'
  <2>1. ItMoves(j) /\ Touches(j)
    BY <1>7, FindByRefMoves, FindByRefTouches DEF PushesControlled
  <2>2. \A o \in Ids : clover'[o].lines = clover[o].lines
    BY <1>7 DEF PushesShaped, Clover!FindByRef
  <2>3. \/ job'[j].del = job[j].del /\ job'[j].add = job[j].add
        \/ job'[j].del = Clover!EmptyBag /\ job'[j].add = Clover!EmptyBag
    <3>1. ASSUME NEW o, job' = [job EXCEPT ![j].pc = "link", ![j].order = o]
          PROVE  job'[j].del = job[j].del /\ job'[j].add = job[j].add
      BY <3>1, ItIsNamed
    <3> QED BY <1>7, <3>1, ItGoes DEF Clover!FindByRef
  <2> QED BY <2>1, <2>2, <2>3, BagOfNone, MoveBags DEF PushesBags
<1>8. ASSUME NEW j \in DOMAIN job, Clover!PostOrder(j) PROVE PushesBags'
  <2>1. ItMoves(j) /\ Touches(j)
    BY <1>8, PostOrderMoves, PostOrderTouches DEF PushesControlled
  <2>2. \A o \in Ids : clover'[o].lines = clover[o].lines
    BY <1>8 DEF PushesShaped, Clover!PostOrder
  <2>3. \/ job'[j].del = job[j].del /\ job'[j].add = job[j].add
        \/ job'[j].del = Clover!EmptyBag /\ job'[j].add = Clover!EmptyBag
    <3>1. ASSUME NEW o, job' = [job EXCEPT ![j].pc = "link", ![j].order = o]
          PROVE  job'[j].del = job[j].del /\ job'[j].add = job[j].add
      BY <3>1, ItIsNamed
    <3> QED BY <1>8, <3>1, ItThrows DEF Clover!PostOrder
  <2> QED BY <2>1, <2>2, <2>3, BagOfNone, MoveBags DEF PushesBags
<1>9. ASSUME NEW j \in DOMAIN job, Clover!LinkOrder(j) PROVE PushesBags'
  <2>1. ItMoves(j) /\ Touches(j)
    BY <1>9, LinkOrderMoves, LinkOrderTouches DEF PushesControlled
  <2>2. \A o \in Ids : clover'[o].lines = clover[o].lines
    BY <1>9 DEF PushesShaped, Clover!LinkOrder
  <2>3. \/ job'[j].del = job[j].del /\ job'[j].add = job[j].add
        \/ job'[j].del = Clover!EmptyBag /\ job'[j].add = Clover!EmptyBag
    BY <1>9, ItIsCreated DEF Clover!LinkOrder
  <2> QED BY <2>1, <2>2, <2>3, BagOfNone, MoveBags DEF PushesBags
<1>10. ASSUME NEW j \in DOMAIN job, Clover!ReadHash(j) PROVE PushesBags'
  <2>1. ItMoves(j) /\ Touches(j)
    BY <1>10, ReadHashMoves, ReadHashTouches DEF PushesControlled
  <2>2. \A o \in Ids : clover'[o].lines = clover[o].lines
    BY <1>10 DEF PushesShaped, Clover!ReadHash
  <2>3. \/ job'[j].del = job[j].del /\ job'[j].add = job[j].add
        \/ job'[j].del = Clover!EmptyBag /\ job'[j].add = Clover!EmptyBag
    BY <1>10, ItGoes, ItCompletes DEF Clover!ReadHash
  <2> QED BY <2>1, <2>2, <2>3, BagOfNone, MoveBags DEF PushesBags
<1>11. ASSUME NEW j \in DOMAIN job, Clover!GetOrder(j) PROVE PushesBags'
  <2>1. ItMoves(j) /\ Touches(j)
    BY <1>11, GetOrderMoves, GetOrderTouches DEF PushesControlled
  <2>2. Clover!Primary(j) => /\ job[j].order \in Ids /\ clover[job[j].order].ref = Clover!Push(1)
                             /\ Clover!IsABag(clover[job[j].order].lines) /\ Clover!IsABag(job[j].lines)
    BY <1>11, OwnLines DEF Clover!GetOrder, Clover!At
  <2>3. Clover!Primary(j) => Clover!IsABag(job'[j].del) /\ Clover!IsABag(job'[j].add)
    BY <1>11, <2>2, ItCompares, SameLines
  <2>4. UNCHANGED clover
    BY <1>11 DEF Clover!GetOrder
  <2> QED BY <2>1, <2>3, <2>4, MoveBags DEF PushesBags
<1>12. ASSUME NEW j \in DOMAIN job, Clover!DeleteLine(j) PROVE PushesBags'
  <2>1. ItMoves(j) /\ Touches(j)
    BY <1>12, DeleteLineMoves, DeleteLineTouches DEF PushesControlled
  <2>2. Clover!Primary(j) => /\ job[j].order \in Ids /\ clover[job[j].order].ref = Clover!Push(1)
                             /\ Clover!IsABag(clover[job[j].order].lines) /\ Clover!IsABag(job[j].lines)
    BY <1>12, OwnLines DEF Clover!DeleteLine, Clover!At
  <2> DEFINE one == Clover!SetToBag({CHOOSE l \in DOMAIN job[j].del : TRUE})
  <2>3. /\ job' = [job EXCEPT ![j].del = Clover!(-)(job[j].del, one)]
        /\ \/ clover' = clover
           \/ clover' = [clover EXCEPT ![job[j].order].lines = Clover!(-)(clover[job[j].order].lines, one)]
    BY <1>12, DeletesOne
  <2>4. Clover!IsABag(one)
    BY BagOfOne
  <2> HIDE DEF one
  <2>5. job'[j].del = Clover!(-)(job[j].del, one) /\ job'[j].add = job[j].add
    BY <2>3, ItDeletes
  <2>6. Clover!Primary(j) => Clover!IsABag(job'[j].del) /\ Clover!IsABag(job'[j].add)
    BY <2>4, <2>5, BagLess DEF PushesBags
  <2>7. Clover!Primary(j) => \A o \in Ids : clover[o].ref = Clover!Push(1) => Clover!IsABag(clover'[o].lines)
    BY <2>2, <2>3, <2>4, BagLess DEF PushesBags, PushesShaped
  <2> QED BY <2>1, <2>6, <2>7, MoveBags
<1>13. ASSUME NEW j \in DOMAIN job, Clover!Deleted(j) PROVE PushesBags'
  <2>1. ItMoves(j) /\ Touches(j)
    BY <1>13, DeletedMoves, DeletedTouches DEF PushesControlled
  <2>2. \A o \in Ids : clover'[o].lines = clover[o].lines
    BY <1>13 DEF PushesShaped, Clover!Deleted
  <2>3. \/ job'[j].del = job[j].del /\ job'[j].add = job[j].add
        \/ job'[j].del = Clover!EmptyBag /\ job'[j].add = Clover!EmptyBag
    BY <1>13, ItGoes DEF Clover!Deleted
  <2> QED BY <2>1, <2>2, <2>3, BagOfNone, MoveBags DEF PushesBags
<1>14. ASSUME NEW j \in DOMAIN job, Clover!BulkCreate(j) PROVE PushesBags'
  <2>1. ItMoves(j) /\ Touches(j)
    BY <1>14, BulkCreateMoves, BulkCreateTouches DEF PushesControlled
  <2>2. Clover!Primary(j) => /\ job[j].order \in Ids /\ clover[job[j].order].ref = Clover!Push(1)
                             /\ Clover!IsABag(clover[job[j].order].lines) /\ Clover!IsABag(job[j].lines)
    BY <1>14, OwnLines DEF Clover!BulkCreate, Clover!At
  <2>3. CASE clover' = clover /\ Clover!Thrown(j, FALSE)
    BY <2>1, <2>3, ItThrows, BagOfNone, MoveBags DEF PushesBags
  <2>4. ASSUME NEW chunk \in Clover!Chunks(job[j].add),
               clover' = [clover EXCEPT ![job[j].order].lines = Clover!(+)(clover[job[j].order].lines, chunk)],
               \/ job' = [job EXCEPT ![j].add = Clover!(-)(job[j].add, chunk)]
               \/ Clover!Thrown(j, TRUE)
        PROVE  PushesBags'
    <3>1. Clover!Primary(j) => Clover!IsABag(chunk)
      BY ChunksAreBags DEF PushesBags, PushesGiven
    <3>2. \/ job'[j].del = job[j].del /\ job'[j].add = Clover!(-)(job[j].add, chunk)
          \/ job'[j].del = Clover!EmptyBag /\ job'[j].add = Clover!EmptyBag
      BY <2>4, ItAdds, ItThrows
    <3>3. Clover!Primary(j) => Clover!IsABag(job'[j].del) /\ Clover!IsABag(job'[j].add)
      BY <3>1, <3>2, BagLess, BagOfNone DEF PushesBags
    <3>4. Clover!Primary(j) => \A o \in Ids : clover[o].ref = Clover!Push(1) => Clover!IsABag(clover'[o].lines)
      BY <2>2, <2>4, <3>1, BagMore DEF PushesBags, PushesShaped
    <3> QED BY <2>1, <3>3, <3>4, MoveBags
  <2> QED BY <1>14, <2>3, <2>4, AddsAChunk
<1>15. ASSUME NEW j \in DOMAIN job, Clover!Filled(j) PROVE PushesBags'
  <2>1. ItMoves(j) /\ Touches(j)
    BY <1>15, FilledMoves, FilledTouches DEF PushesControlled
  <2>2. \A o \in Ids : clover'[o].lines = clover[o].lines
    BY <1>15 DEF PushesShaped, Clover!Filled
  <2>3. \/ job'[j].del = job[j].del /\ job'[j].add = job[j].add
        \/ job'[j].del = Clover!EmptyBag /\ job'[j].add = Clover!EmptyBag
    BY <1>15, ItGoes DEF Clover!Filled
  <2> QED BY <2>1, <2>2, <2>3, BagOfNone, MoveBags DEF PushesBags
<1>16. ASSUME NEW j \in DOMAIN job, Clover!SetTotal(j) PROVE PushesBags'
  <2>1. ItMoves(j) /\ Touches(j)
    BY <1>16, SetTotalMoves, SetTotalTouches DEF PushesControlled
  <2>2. \A o \in Ids : clover'[o].lines = clover[o].lines
    BY <1>16 DEF PushesShaped, Clover!SetTotal
  <2>3. \/ job'[j].del = job[j].del /\ job'[j].add = job[j].add
        \/ job'[j].del = Clover!EmptyBag /\ job'[j].add = Clover!EmptyBag
    BY <1>16, ItGoes, ItCompletes DEF Clover!SetTotal
  <2> QED BY <2>1, <2>2, <2>3, BagOfNone, MoveBags DEF PushesBags
<1>17. ASSUME NEW j \in DOMAIN job, Clover!SaveHash(j) PROVE PushesBags'
  <2>1. ItMoves(j) /\ Touches(j)
    BY <1>17, SaveHashMoves, SaveHashTouches DEF PushesControlled
  <2>2. \A o \in Ids : clover'[o].lines = clover[o].lines
    BY <1>17 DEF PushesShaped, Clover!SaveHash
  <2>3. \/ job'[j].del = job[j].del /\ job'[j].add = job[j].add
        \/ job'[j].del = Clover!EmptyBag /\ job'[j].add = Clover!EmptyBag
    BY <1>17, ItCompletes DEF Clover!SaveHash
  <2> QED BY <2>1, <2>2, <2>3, BagOfNone, MoveBags DEF PushesBags
<1>18. ASSUME NEW j \in DOMAIN job, Clover!Claim(j) PROVE PushesBags'
  <2>1. ItMoves(j) /\ Touches(j)
    BY <1>18, ClaimMoves, ClaimTouches DEF PushesControlled
  <2>2. \A o \in Ids : clover'[o].lines = clover[o].lines
    BY <1>18 DEF PushesShaped, Clover!Claim
  <2>3. \/ job'[j].del = job[j].del /\ job'[j].add = job[j].add
        \/ job'[j].del = Clover!EmptyBag /\ job'[j].add = Clover!EmptyBag
    <3>1. ASSUME NEW b, job' = [job EXCEPT ![j].pc = "bill", ![j].sig = b]
          PROVE  job'[j].del = job[j].del /\ job'[j].add = job[j].add
      BY <3>1, ItClaims
    <3> QED BY <1>18, <3>1, ItGoes DEF Clover!Claim
  <2> QED BY <2>1, <2>2, <2>3, BagOfNone, MoveBags DEF PushesBags
<1>19. ASSUME NEW j \in DOMAIN job, Clover!Bill(j) PROVE PushesBags'
  <2>1. ItMoves(j) /\ Touches(j)
    BY <1>19, BillMoves, BillTouches DEF PushesControlled
  <2>2. \A o \in Ids : clover'[o].lines = clover[o].lines
    BY <1>19 DEF PushesShaped, Clover!Bill
  <2>3. \/ job'[j].del = job[j].del /\ job'[j].add = job[j].add
        \/ job'[j].del = Clover!EmptyBag /\ job'[j].add = Clover!EmptyBag
    <3>1. ASSUME NEW b, job' = [job EXCEPT ![j].pc = "enqueue", ![j].bill = b]
          PROVE  job'[j].del = job[j].del /\ job'[j].add = job[j].add
      BY <3>1, ItBills
    <3> QED BY <1>19, <3>1, ItGoes DEF Clover!Bill, Clover!BillWith
  <2> QED BY <2>1, <2>2, <2>3, BagOfNone, MoveBags DEF PushesBags
<1>20. ASSUME NEW j \in DOMAIN job, Clover!EnqueueSupplement(j) PROVE PushesBags'
  <2> DEFINE s == Clover!Supp(job[j].sig)
  <2>1. /\ DOMAIN job' = DOMAIN job \cup {s} /\ UNCHANGED clover
        /\ \A k \in DOMAIN job \ {j} : job'[k] = job[k]
        /\ job'[j] = [job[j] EXCEPT !.pc = "save"]
    BY <1>20 DEF Clover!EnqueueSupplement, Clover!At
  <2>2. job'[j].del = job[j].del /\ job'[j].add = job[j].add /\ ~Clover!Primary(s)
    BY <2>1 DEF PushesShaped, JobFields, Clover!Supp, Clover!Primary
  <2> HIDE DEF s
  <2> QED BY <2>1, <2>2 DEF PushesBags
<1>21. ASSUME NEW o \in Ids, Clover!Pay(o) PROVE PushesBags'
  <2>1. UNCHANGED job /\ \A p \in Ids : clover'[p].ref = clover[p].ref /\ clover'[p].lines = clover[p].lines
    BY <1>21 DEF PushesShaped, Clover!Pay
  <2> QED BY <2>1 DEF PushesBags
<1>22. CASE UNCHANGED Clover!vars
  BY <1>22 DEF PushesBags, Clover!vars
<1> QED BY <1>1, <1>2, <1>3, <1>4, <1>5, <1>6, <1>7, <1>8, <1>9, <1>10, <1>11, <1>12, <1>13,
           <1>14, <1>15, <1>16, <1>17, <1>18, <1>19, <1>20, <1>21, <1>22 DEF Clover!Next

\* Where the last push is with the lines of its order, until the order is paid: what it
\* has still to delete is there, and what is there, less that, with what it has still to
\* create, is what it wants.
LinesRight(lines, r) ==
  /\ r.pc = "delete" => \A l : /\ Copies(l, r.del) <= Copies(l, lines)
                               /\ Copies(l, lines) - Copies(l, r.del) + Copies(l, r.add) = Copies(l, r.lines)
  /\ r.pc = "bulk" => \A l : Copies(l, lines) + Copies(l, r.add) = Copies(l, r.lines)
  /\ r.pc \in {"total", "save"} \/ r.status = "completed" => lines = r.lines
FilledRight(c, r) == c[r.order].paid \/ LinesRight(c[r.order].lines, r)
Calm == Clover!Never({"overlap", "undeleted", "blind"})
LastPush(j) == \E v \in Nat \ {0} : j = Clover!Push(v) /\ Clover!Push(v + 1) \notin DOMAIN job
PushesFilled == Calm => \A j \in DOMAIN job : LastPush(j) => FilledRight(clover, job[j])

LEMMA CalmBefore == ASSUME Spent, Calm' PROVE Calm
  BY DEF Spent, Calm, Clover!Never

LEMMA BlankFilled ==
  ASSUME NEW r, r.pc \notin {"delete", "bulk", "total", "save"}, r.status # "completed", NEW c
  PROVE  FilledRight(c, r)
  BY DEF FilledRight, LinesRight

LEMMA LastPushAlone ==
  ASSUME PushesControlled, PushesInTurn, Calm, NEW j \in DOMAIN job, LastPush(j),
         NEW k \in DOMAIN job, k # j, ~Clover!Ended(k)
  PROVE  Clover!Ref(k) # Clover!Ref(j) /\ Clover!Ref(j) = Clover!Push(1)
<1>1. PICK v \in Nat \ {0} : j = Clover!Push(v) /\ Clover!Push(v + 1) \notin DOMAIN job
  BY DEF LastPush
<1>2. Clover!Ref(j) = Clover!Push(1)
  BY <1>1 DEF Clover!Ref, Clover!Primary, Clover!Push
<1>3. CASE ~Clover!Primary(k)
  BY <1>2, <1>3 DEF Clover!Ref, Clover!Primary, Clover!Push
<1>4. CASE Clover!Primary(k)
  <2>1. PICK w \in 1 .. Len(Versions) : k = Clover!Push(w)
    BY <1>4 DEF PushesControlled, Clover!Primary
  <2>2. PICK n \in 0 .. Len(Versions) : \A u \in Nat \ {0} : Clover!Push(u) \in DOMAIN job <=> u <= n
    BY DEF PushesControlled
  <2>3. w \in Nat \ {0} /\ w <= n /\ v <= n /\ ~(v + 1 <= n) /\ w # v
    BY <1>1, <2>1, <2>2
  <2>4. Clover!Push(w + 1) \in DOMAIN job
    BY <2>2, <2>3
  <2>5. Clover!Never({"overlap"})
    BY DEF Calm, Clover!Never
  <2> QED BY <2>1, <2>3, <2>4, <2>5 DEF PushesInTurn
<1> QED BY <1>2, <1>3, <1>4

LEMMA LastPushStays ==
  ASSUME PushesGiven, PushesControlled, PushesNamed, PushesInTurn, PushesFilled, Grows, Calm,
         NEW k \in DOMAIN job, ~Clover!Ended(k), Touches(k),
         NEW j \in DOMAIN job, LastPush(j), j # k, job'[j] = job[j]
  PROVE  FilledRight(clover', job'[j])
<1>1. FilledRight(clover, job[j])
  BY DEF PushesFilled
<1>2. CASE job[j].pc \notin {"delete", "bulk", "total", "save"} /\ job[j].status # "completed"
  BY <1>2, BlankFilled
<1>3. CASE job[j].pc \in {"delete", "bulk", "total", "save"} \/ job[j].status = "completed"
  <2>1. job[j].step = 2
    BY <1>3 DEF PushesControlled, PlacedRight, FirstStep
  <2>2. job[j].order \in Ids /\ clover[job[j].order].ref = Clover!Ref(j)
    BY <2>1 DEF PushesGiven, PushesNamed, NamedRight
  <2>3. Clover!Ref(j) # Clover!Ref(k) /\ Clover!Ref(j) # None
    BY LastPushAlone, RefIsNone
  <2>4. clover'[job[j].order].lines = clover[job[j].order].lines
    BY <2>2, <2>3 DEF Touches
  <2>5. clover[job[j].order].paid => clover'[job[j].order].paid
    BY <2>2 DEF Grows
  <2> QED BY <1>1, <2>4, <2>5 DEF FilledRight
<1> QED BY <1>2, <1>3

LEMMA MoveFilled ==
  ASSUME PushesGiven, PushesControlled, PushesNamed, PushesInTurn, PushesFilled, Grows, Spent,
         NEW j \in DOMAIN job, ~Clover!Ended(j), ItMoves(j), Touches(j),
         Calm' /\ LastPush(j) => FilledRight(clover', job'[j])
  PROVE  PushesFilled'
<1>1. \A k : LastPush(k)' <=> LastPush(k)
  BY DEF LastPush, ItMoves
<1>2. ASSUME Calm', NEW k \in DOMAIN job', LastPush(k) PROVE FilledRight(clover', job'[k])
  <2>1. CASE k = j
    BY <1>2, <2>1
  <2>2. CASE k # j
    BY <1>2, <2>2, CalmBefore, LastPushStays DEF ItMoves
  <2> QED BY <2>1, <2>2
<1> QED BY <1>1, <1>2 DEF PushesFilled

LEMMA LastPushIsPrimary ==
  ASSUME NEW j, LastPush(j) PROVE Clover!Primary(j) /\ j[1] # 0
  BY DEF LastPush, Clover!Primary, Clover!Push

LEMMA PushesFilledStep ==
  ASSUME PushesGiven, PushesShaped, PushesControlled, PushesNamed, PushesInTurn, PushesBags,
         PushesFilled, Grows, Spent, [Clover!Next]_(Clover!vars)
  PROVE  PushesFilled'
<1>1. CASE Clover!PushVersion
  <2> DEFINE n == Clover!Latest
             p == Clover!Push(n + 1)
  <2>1. /\ DOMAIN job' = DOMAIN job \cup {p} /\ UNCHANGED clover
        /\ p \notin DOMAIN job => job'[p].pc = "idle" /\ job'[p].status = "queued"
    BY <1>1 DEF Clover!PushVersion, Clover!Queued
  <2>2. n \in Nat /\ \A v \in Nat \ {0} : Clover!Push(v) \in DOMAIN job <=> v <= n
    BY LatestPush DEF PushesGiven
  <2>3. \A v, w : Clover!Push(v) = Clover!Push(w) => v = w
    BY DEF Clover!Push
  <2>4. p = Clover!Push(n + 1)
    OBVIOUS
  <2> HIDE DEF n, p
  <2>5. \A k \in DOMAIN job' : LastPush(k)' => k = p
    BY <2>1, <2>2, <2>3, <2>4 DEF LastPush
  <2>6. FilledRight(clover', job'[p])
    BY <2>1, <2>2, <2>4, BlankFilled
  <2> QED BY <2>5, <2>6 DEF PushesFilled
<1>2. ASSUME NEW j \in DOMAIN job, Clover!Start(j) PROVE PushesFilled'
  <2>1. ItMoves(j) /\ Touches(j) /\ ~Clover!Ended(j)
    BY <1>2, StartMoves, StartTouches, ItIsActive DEF PushesControlled
  <2>2. job'[j].pc \in {"adopt", "hash", "get"}
    BY <1>2, ItStarts
  <2>3. job'[j].status # "completed"
    BY <2>1, <2>2 DEF ItMoves, PlacedRight
  <2> QED BY <2>1, <2>2, <2>3, BlankFilled, MoveFilled
<1>3. ASSUME NEW j \in DOMAIN job, Clover!Crash(j) PROVE PushesFilled'
  <2>1. ItMoves(j) /\ Touches(j) /\ ~Clover!Ended(j)
    BY <1>3, CrashMoves, CrashTouches, ItIsActive DEF PushesControlled
  <2>2. job'[j].pc \in {"idle"}
    BY <1>3, ItCrashes DEF Clover!Crash
  <2>3. job'[j].status # "completed"
    BY <1>3, ItCrashes DEF Clover!Crash
  <2> QED BY <2>1, <2>2, <2>3, BlankFilled, MoveFilled
<1>4. ASSUME NEW j \in DOMAIN job, Clover!RetryDeadLetter(j) PROVE PushesFilled'
  <2>1. ItMoves(j) /\ UNCHANGED clover /\ job[j].pc = "idle"
    BY <1>4, RetryDeadLetterMoves DEF PushesControlled, PlacedRight, Clover!RetryDeadLetter
  <2>2. job'[j].pc = "idle" /\ job'[j].status = "queued"
    BY <1>4, <2>1, ItIsRetried
  <2>3. FilledRight(clover', job'[j])
    BY <2>2, BlankFilled
  <2>4. \A k : LastPush(k)' <=> LastPush(k)
    BY <2>1 DEF LastPush, ItMoves
  <2> QED BY <2>1, <2>3, <2>4, CalmBefore DEF PushesFilled, ItMoves
<1>5. ASSUME NEW j \in DOMAIN job, Clover!RequestFails(j) PROVE PushesFilled'
  <2>1. ItMoves(j) /\ Touches(j) /\ ~Clover!Ended(j)
    BY <1>5, RequestFailsMoves, RequestFailsTouches, ItIsActive DEF PushesControlled
  <2>2. job'[j].pc \in {"idle"}
    BY <1>5, ItThrows DEF Clover!RequestFails
  <2>3. job'[j].status # "completed"
    BY <1>5, ItThrows DEF Clover!RequestFails
  <2> QED BY <2>1, <2>2, <2>3, BlankFilled, MoveFilled
<1>6. ASSUME NEW j \in DOMAIN job, Clover!Adopt(j) PROVE PushesFilled'
  <2>1. ItMoves(j) /\ Touches(j) /\ ~Clover!Ended(j)
    BY <1>6, AdoptMoves, AdoptTouches, ItIsActive DEF PushesControlled
  <2>2. job'[j].pc \in {"find", "hash", "get"}
    BY <1>6, ItGoes, ItIsCreated DEF Clover!Adopt
  <2>3. job'[j].status # "completed"
    BY <2>1, <2>2 DEF ItMoves, PlacedRight
  <2> QED BY <2>1, <2>2, <2>3, BlankFilled, MoveFilled
<1>7. ASSUME NEW j \in DOMAIN job, Clover!FindByRef(j) PROVE PushesFilled'
  <2>1. ItMoves(j) /\ Touches(j) /\ ~Clover!Ended(j)
    BY <1>7, FindByRefMoves, FindByRefTouches, ItIsActive DEF PushesControlled
  <2>2. job'[j].pc \in {"link", "post"}
    <3>1. ASSUME NEW o, job' = [job EXCEPT ![j].pc = "link", ![j].order = o]
          PROVE  job'[j].pc = "link"
      BY <3>1, ItIsNamed
    <3> QED BY <1>7, <3>1, ItGoes, ItThrows DEF Clover!FindByRef
  <2>3. job'[j].status # "completed"
    BY <2>1, <2>2 DEF ItMoves, PlacedRight
  <2> QED BY <2>1, <2>2, <2>3, BlankFilled, MoveFilled
<1>8. ASSUME NEW j \in DOMAIN job, Clover!PostOrder(j) PROVE PushesFilled'
  <2>1. ItMoves(j) /\ Touches(j) /\ ~Clover!Ended(j)
    BY <1>8, PostOrderMoves, PostOrderTouches, ItIsActive DEF PushesControlled
  <2>2. job'[j].pc \in {"link", "idle"}
    <3>1. ASSUME NEW o, job' = [job EXCEPT ![j].pc = "link", ![j].order = o]
          PROVE  job'[j].pc = "link"
      BY <3>1, ItIsNamed
    <3> QED BY <1>8, <3>1, ItGoes, ItThrows DEF Clover!PostOrder
  <2>3. job'[j].status # "completed"
    <3>1. Clover!Thrown(j, TRUE) => job'[j].status # "completed"
      BY ItThrows
    <3>2. job'[j].pc = "link" => job'[j].status # "completed"
      BY <2>1 DEF ItMoves, PlacedRight
    <3>3. ASSUME NEW o, job' = [job EXCEPT ![j].pc = "link", ![j].order = o]
          PROVE  job'[j].pc = "link"
      BY <3>3, ItIsNamed
    <3> QED BY <1>8, <3>1, <3>2, <3>3 DEF Clover!PostOrder
  <2> QED BY <2>1, <2>2, <2>3, BlankFilled, MoveFilled
<1>9. ASSUME NEW j \in DOMAIN job, Clover!LinkOrder(j) PROVE PushesFilled'
  <2>1. ItMoves(j) /\ Touches(j) /\ ~Clover!Ended(j)
    BY <1>9, LinkOrderMoves, LinkOrderTouches, ItIsActive DEF PushesControlled
  <2>2. job'[j].pc \in {"hash", "get"}
    BY <1>9, ItIsCreated DEF Clover!LinkOrder
  <2>3. job'[j].status # "completed"
    BY <2>1, <2>2 DEF ItMoves, PlacedRight
  <2> QED BY <2>1, <2>2, <2>3, BlankFilled, MoveFilled
<1>10. ASSUME NEW j \in DOMAIN job, Clover!ReadHash(j) PROVE PushesFilled'
  <2>1. ItMoves(j) /\ Touches(j) /\ ~Clover!Ended(j)
    BY <1>10, ReadHashMoves, ReadHashTouches, ItIsActive DEF PushesControlled
  <2>2. job[j].status = "running" /\ UNCHANGED clover
    BY <1>10 DEF PushesControlled, PlacedRight, Clover!ReadHash, Clover!At
  <2>3. LastPush(j) => row.hash # j[1]
    <3>1. ASSUME NEW v \in Nat \ {0}, j = Clover!Push(v), row.hash = j[1] PROVE FALSE
      BY <2>2, <3>1 DEF PushesControlled, Clover!Push
    <3> QED BY <3>1 DEF LastPush
  <2>4. LastPush(j) => job'[j].pc = "get" /\ job'[j].status # "completed"
    BY <1>10, <2>2, <2>3, ItGoes DEF Clover!ReadHash
  <2> QED BY <2>1, <2>4, BlankFilled, MoveFilled
<1>11. ASSUME NEW j \in DOMAIN job, Clover!GetOrder(j) PROVE PushesFilled'
  <2>1. ItMoves(j) /\ Touches(j) /\ ~Clover!Ended(j)
    BY <1>11, GetOrderMoves, GetOrderTouches, ItIsActive DEF PushesControlled
  <2>2. LastPush(j) => /\ job[j].order \in Ids /\ Clover!Primary(j) /\ Clover!IsABag(job[j].del) /\ Clover!IsABag(job[j].add)
                       /\ Clover!IsABag(clover[job[j].order].lines) /\ Clover!IsABag(job[j].lines)
    BY <1>11, OwnLines, LastPushIsPrimary DEF PushesBags, Clover!GetOrder, Clover!At
  <2>3. Calm' /\ LastPush(j) => FilledRight(clover, job[j])
    BY CalmBefore DEF PushesFilled
  <2>4. job[j].status = "running"
    BY <1>11 DEF PushesControlled, PlacedRight, Clover!GetOrder, Clover!At
  <2>5. /\ job'[j].order = job[j].order /\ job'[j].lines = job[j].lines /\ job'[j].status = job[j].status
        /\ job'[j].pc = IF clover[job[j].order].paid /\ Clover!Primary(j) THEN "claim" ELSE "delete"
        /\ job'[j].del = Clover!LineItemDelta(clover[job[j].order].lines, job[j].lines).toDelete
        /\ job'[j].add = Clover!LineItemDelta(clover[job[j].order].lines, job[j].lines).toCreate
        /\ clover' = clover
    BY <1>11, ItCompares DEF Clover!GetOrder
  <2>10. ASSUME Calm', LastPush(j) PROVE FilledRight(clover', job'[j])
    <3>1. \A l : /\ Copies(l, job'[j].del) <= Copies(l, clover[job[j].order].lines)
                 /\ Copies(l, clover[job[j].order].lines) - Copies(l, job'[j].del) + Copies(l, job'[j].add)
                      = Copies(l, job[j].lines)
      BY <2>2, <2>5, <2>10, SameLines
    <3> QED BY <2>4, <2>5, <3>1 DEF FilledRight, LinesRight
  <2> QED BY <2>1, <2>10, MoveFilled
<1>12. ASSUME NEW j \in DOMAIN job, Clover!DeleteLine(j) PROVE PushesFilled'
  <2>1. ItMoves(j) /\ Touches(j) /\ ~Clover!Ended(j)
    BY <1>12, DeleteLineMoves, DeleteLineTouches, ItIsActive DEF PushesControlled
  <2>2. LastPush(j) => /\ job[j].order \in Ids /\ Clover!Primary(j) /\ Clover!IsABag(job[j].del) /\ Clover!IsABag(job[j].add)
                       /\ Clover!IsABag(clover[job[j].order].lines) /\ Clover!IsABag(job[j].lines)
    BY <1>12, OwnLines, LastPushIsPrimary DEF PushesBags, Clover!DeleteLine, Clover!At
  <2>3. Calm' /\ LastPush(j) => FilledRight(clover, job[j])
    BY CalmBefore DEF PushesFilled
  <2>4. job[j].status = "running"
    BY <1>12 DEF PushesControlled, PlacedRight, Clover!DeleteLine, Clover!At
  <2> DEFINE x == CHOOSE l \in DOMAIN job[j].del : TRUE
             one == Clover!SetToBag({x})
             lines == clover[job[j].order].lines
  <2>5. /\ job' = [job EXCEPT ![j].del = Clover!(-)(job[j].del, one)]
        /\ \/ clover' = clover
           \/ clover' = [clover EXCEPT ![job[j].order].lines = Clover!(-)(clover[job[j].order].lines, one)]
        /\ clover' = clover => clover[job[j].order].paid \/ ~Clover!Never({"undeleted"})'
                                    \/ clover' = [clover EXCEPT ![job[j].order].lines = Clover!(-)(clover[job[j].order].lines, one)]
    BY <1>12, DeletesOne
  <2>6. job[j].del # Clover!EmptyBag /\ job[j].pc = "delete"
    BY <1>12 DEF Clover!DeleteLine, Clover!At
  <2>7. LastPush(j) => x \in DOMAIN job[j].del
    <3>1. ASSUME Clover!IsABag(job[j].del), DOMAIN job[j].del = {} PROVE FALSE
      <4>1. \A l : Copies(l, job[j].del) = Copies(l, Clover!EmptyBag)
        BY <3>1, BagOfNone DEF Copies
      <4> QED BY <2>6, <3>1, <4>1, BagOfNone, SameCopies
    <3> QED BY <2>2, <3>1
  <2> HIDE DEF x
  <2>8. Clover!IsABag(one) /\ \A l : Copies(l, one) = IF l = x THEN 1 ELSE 0
    BY BagOfOne
  <2> HIDE DEF one
  <2>9. /\ job'[j].del = Clover!(-)(job[j].del, one) /\ job'[j].add = job[j].add /\ job'[j].pc = job[j].pc
        /\ job'[j].order = job[j].order /\ job'[j].lines = job[j].lines /\ job'[j].status = job[j].status
    BY <2>5, ItDeletes
  <2>10. ASSUME Calm', LastPush(j) PROVE FilledRight(clover', job'[j])
    <3>1. CASE clover[job[j].order].paid
      BY <2>2, <2>9, <2>10, <3>1 DEF FilledRight, Grows
    <3>2. CASE ~clover[job[j].order].paid
      <4>1. clover'[job[j].order].lines = Clover!(-)(lines, one)
        <5>1. Clover!Never({"undeleted"})'
          BY <2>10 DEF Calm, Clover!Never
        <5> QED BY <2>2, <2>5, <2>10, <3>2, <5>1 DEF PushesShaped
      <4>2. \A l : /\ Copies(l, job[j].del) <= Copies(l, lines)
                   /\ Copies(l, lines) - Copies(l, job[j].del) + Copies(l, job[j].add) = Copies(l, job[j].lines)
        BY <2>3, <2>6, <2>10, <3>2 DEF FilledRight, LinesRight
      <4>3. Copies(x, job[j].del) >= 1
        BY <2>2, <2>7, <2>10, CopiesCount
      <4>4. \A l : Copies(l, Clover!(-)(lines, one)) = IF Copies(l, lines) > Copies(l, one) THEN Copies(l, lines) - Copies(l, one) ELSE 0
        BY <2>2, <2>8, <2>10, BagLess
      <4>5. \A l : Copies(l, Clover!(-)(job[j].del, one)) =
                     IF Copies(l, job[j].del) > Copies(l, one) THEN Copies(l, job[j].del) - Copies(l, one) ELSE 0
        BY <2>2, <2>8, <2>10, BagLess
      <4>6. \A l : Copies(l, lines) \in Nat /\ Copies(l, job[j].del) \in Nat /\ Copies(l, job[j].add) \in Nat
        BY <2>2, <2>10, CopiesCount
      <4> HIDE DEF lines
      <4>7. ASSUME NEW l
            PROVE  /\ Copies(l, Clover!(-)(job[j].del, one)) <= Copies(l, Clover!(-)(lines, one))
                   /\ Copies(l, Clover!(-)(lines, one)) - Copies(l, Clover!(-)(job[j].del, one)) + Copies(l, job[j].add)
                        = Copies(l, job[j].lines)
        <5>1. CASE l = x
          BY <2>8, <4>2, <4>3, <4>4, <4>5, <4>6, <5>1
        <5>2. CASE l # x
          BY <2>8, <4>2, <4>4, <4>5, <4>6, <5>2
        <5> QED BY <5>1, <5>2
      <4> QED BY <2>4, <2>6, <2>9, <4>1, <4>7 DEF FilledRight, LinesRight
    <3> QED BY <3>1, <3>2
  <2> QED BY <2>1, <2>10, MoveFilled
<1>13. ASSUME NEW j \in DOMAIN job, Clover!Deleted(j) PROVE PushesFilled'
  <2>1. ItMoves(j) /\ Touches(j) /\ ~Clover!Ended(j)
    BY <1>13, DeletedMoves, DeletedTouches, ItIsActive DEF PushesControlled
  <2>2. LastPush(j) => /\ job[j].order \in Ids /\ Clover!Primary(j) /\ Clover!IsABag(job[j].del) /\ Clover!IsABag(job[j].add)
                       /\ Clover!IsABag(clover[job[j].order].lines) /\ Clover!IsABag(job[j].lines)
    BY <1>13, OwnLines, LastPushIsPrimary DEF PushesBags, Clover!Deleted, Clover!At
  <2>3. Calm' /\ LastPush(j) => FilledRight(clover, job[j])
    BY CalmBefore DEF PushesFilled
  <2>4. job[j].status = "running"
    BY <1>13 DEF PushesControlled, PlacedRight, Clover!Deleted, Clover!At
  <2>5. /\ job'[j].add = job[j].add /\ job'[j].pc = "bulk"
        /\ job'[j].order = job[j].order /\ job'[j].lines = job[j].lines /\ job'[j].status = job[j].status
        /\ clover' = clover /\ job[j].del = Clover!EmptyBag /\ job[j].pc = "delete"
    BY <1>13, ItGoes DEF Clover!Deleted, Clover!At
  <2>10. ASSUME Calm', LastPush(j) PROVE FilledRight(clover', job'[j])
    <3>1. \A l : Copies(l, clover[job[j].order].lines) \in Nat /\ Copies(l, job[j].add) \in Nat
      BY <2>2, <2>10, CopiesCount
    <3> QED BY <2>3, <2>4, <2>5, <2>10, <3>1, BagOfNone DEF FilledRight, LinesRight
  <2> QED BY <2>1, <2>10, MoveFilled
<1>14. ASSUME NEW j \in DOMAIN job, Clover!BulkCreate(j) PROVE PushesFilled'
  <2>1. ItMoves(j) /\ Touches(j) /\ ~Clover!Ended(j)
    BY <1>14, BulkCreateMoves, BulkCreateTouches, ItIsActive DEF PushesControlled
  <2>2. LastPush(j) => /\ job[j].order \in Ids /\ Clover!Primary(j) /\ Clover!IsABag(job[j].del) /\ Clover!IsABag(job[j].add)
                       /\ Clover!IsABag(clover[job[j].order].lines) /\ Clover!IsABag(job[j].lines)
    BY <1>14, OwnLines, LastPushIsPrimary DEF PushesBags, Clover!BulkCreate, Clover!At
  <2>3. Calm' /\ LastPush(j) => FilledRight(clover, job[j])
    BY CalmBefore DEF PushesFilled
  <2>4. job[j].status = "running"
    BY <1>14 DEF PushesControlled, PlacedRight, Clover!BulkCreate, Clover!At
  <2>5. job[j].pc = "bulk"
    BY <1>14 DEF Clover!BulkCreate, Clover!At
  <2>6. ASSUME NEW retryable, Clover!Thrown(j, retryable) PROVE FilledRight(clover', job'[j])
    <3>1. job'[j].pc = "idle" /\ job'[j].status # "completed"
      BY <2>6, ItThrows
    <3> QED BY <3>1, BlankFilled
  <2>7. ASSUME Calm', LastPush(j), NEW chunk \in Clover!Chunks(job[j].add),
               clover' = [clover EXCEPT ![job[j].order].lines = Clover!(+)(clover[job[j].order].lines, chunk)],
               job' = [job EXCEPT ![j].add = Clover!(-)(job[j].add, chunk)]
        PROVE  FilledRight(clover', job'[j])
    <3> DEFINE lines == clover[job[j].order].lines
    <3>1. /\ job'[j].add = Clover!(-)(job[j].add, chunk) /\ job'[j].pc = "bulk"
          /\ job'[j].order = job[j].order /\ job'[j].lines = job[j].lines /\ job'[j].status = job[j].status
      BY <2>5, <2>7, ItAdds
    <3>2. CASE clover[job[j].order].paid
      BY <2>2, <2>7, <3>1, <3>2 DEF FilledRight, Grows
    <3>3. CASE ~clover[job[j].order].paid
      <4>1. clover'[job[j].order].lines = Clover!(+)(lines, chunk)
        BY <2>2, <2>7 DEF PushesShaped
      <4>2. Clover!IsABag(chunk) /\ \A l : Copies(l, chunk) <= Copies(l, job[j].add)
        BY <2>2, <2>7, ChunksAreBags DEF PushesGiven
      <4>3. \A l : Copies(l, lines) + Copies(l, job[j].add) = Copies(l, job[j].lines)
        BY <2>3, <2>5, <2>7, <3>3 DEF FilledRight, LinesRight
      <4>4. \A l : Copies(l, Clover!(+)(lines, chunk)) = Copies(l, lines) + Copies(l, chunk)
        BY <2>2, <2>7, <4>2, BagMore
      <4>5. \A l : Copies(l, Clover!(-)(job[j].add, chunk)) =
                     IF Copies(l, job[j].add) > Copies(l, chunk) THEN Copies(l, job[j].add) - Copies(l, chunk) ELSE 0
        BY <2>2, <2>7, <4>2, BagLess
      <4>6. \A l : Copies(l, lines) \in Nat /\ Copies(l, job[j].add) \in Nat /\ Copies(l, chunk) \in Nat
        BY <2>2, <2>7, <4>2, CopiesCount
      <4> HIDE DEF lines
      <4>7. \A l : Copies(l, Clover!(+)(lines, chunk)) + Copies(l, Clover!(-)(job[j].add, chunk)) = Copies(l, job[j].lines)
        BY <4>2, <4>3, <4>4, <4>5, <4>6
      <4> QED BY <2>4, <3>1, <4>1, <4>7 DEF FilledRight, LinesRight
    <3> QED BY <3>2, <3>3
  <2>10. ASSUME Calm', LastPush(j) PROVE FilledRight(clover', job'[j])
    BY <1>14, <2>6, <2>7, <2>10, AddsAChunk
  <2> QED BY <2>1, <2>10, MoveFilled
<1>15. ASSUME NEW j \in DOMAIN job, Clover!Filled(j) PROVE PushesFilled'
  <2>1. ItMoves(j) /\ Touches(j) /\ ~Clover!Ended(j)
    BY <1>15, FilledMoves, FilledTouches, ItIsActive DEF PushesControlled
  <2>2. LastPush(j) => /\ job[j].order \in Ids /\ Clover!Primary(j) /\ Clover!IsABag(job[j].del) /\ Clover!IsABag(job[j].add)
                       /\ Clover!IsABag(clover[job[j].order].lines) /\ Clover!IsABag(job[j].lines)
    BY <1>15, OwnLines, LastPushIsPrimary DEF PushesBags, Clover!Filled, Clover!At
  <2>3. Calm' /\ LastPush(j) => FilledRight(clover, job[j])
    BY CalmBefore DEF PushesFilled
  <2>4. job[j].status = "running"
    BY <1>15 DEF PushesControlled, PlacedRight, Clover!Filled, Clover!At
  <2>5. /\ job'[j].pc = "total"
        /\ job'[j].order = job[j].order /\ job'[j].lines = job[j].lines /\ job'[j].status = job[j].status
        /\ clover' = clover /\ job[j].add = Clover!EmptyBag /\ job[j].pc = "bulk"
    BY <1>15, ItGoes DEF Clover!Filled, Clover!At
  <2>10. ASSUME Calm', LastPush(j) PROVE FilledRight(clover', job'[j])
    <3>1. \A l : Copies(l, clover[job[j].order].lines) \in Nat
      BY <2>2, <2>10, CopiesCount
    <3>2. ~clover[job[j].order].paid => \A l : Copies(l, clover[job[j].order].lines) = Copies(l, job[j].lines)
      BY <2>3, <2>5, <2>10, <3>1, BagOfNone DEF FilledRight, LinesRight
    <3>3. ~clover[job[j].order].paid => clover[job[j].order].lines = job[j].lines
      BY <2>2, <2>10, <3>2, SameCopies
    <3> QED BY <2>5, <3>3 DEF FilledRight, LinesRight
  <2> QED BY <2>1, <2>10, MoveFilled
<1>16. ASSUME NEW j \in DOMAIN job, Clover!SetTotal(j) PROVE PushesFilled'
  <2>1. ItMoves(j) /\ Touches(j) /\ ~Clover!Ended(j)
    BY <1>16, SetTotalMoves, SetTotalTouches, ItIsActive DEF PushesControlled
  <2>2. LastPush(j) => /\ job[j].order \in Ids /\ Clover!Primary(j) /\ Clover!IsABag(job[j].del) /\ Clover!IsABag(job[j].add)
                       /\ Clover!IsABag(clover[job[j].order].lines) /\ Clover!IsABag(job[j].lines)
    BY <1>16, OwnLines, LastPushIsPrimary DEF PushesBags, Clover!SetTotal, Clover!At
  <2>3. Calm' /\ LastPush(j) => FilledRight(clover, job[j])
    BY CalmBefore DEF PushesFilled
  <2>4. job[j].status = "running"
    BY <1>16 DEF PushesControlled, PlacedRight, Clover!SetTotal, Clover!At
  <2>5. /\ job'[j].pc \in {"save", "idle"} /\ job'[j].order = job[j].order /\ job'[j].lines = job[j].lines
        /\ job[j].pc = "total"
    BY <1>16, ItGoes, ItCompletes DEF Clover!SetTotal, Clover!At
  <2>6. \A o \in Ids : clover'[o].lines = clover[o].lines
    BY <1>16 DEF PushesShaped, Clover!SetTotal
  <2>10. ASSUME Calm', LastPush(j) PROVE FilledRight(clover', job'[j])
    <3>1. clover[job[j].order].paid => clover'[job[j].order].paid
      BY <2>2, <2>10 DEF Grows
    <3> QED BY <2>2, <2>3, <2>5, <2>6, <2>10, <3>1 DEF FilledRight, LinesRight
  <2> QED BY <2>1, <2>10, MoveFilled
<1>17. ASSUME NEW j \in DOMAIN job, Clover!SaveHash(j) PROVE PushesFilled'
  <2>1. ItMoves(j) /\ Touches(j) /\ ~Clover!Ended(j)
    BY <1>17, SaveHashMoves, SaveHashTouches, ItIsActive DEF PushesControlled
  <2>2. LastPush(j) => /\ job[j].order \in Ids /\ Clover!Primary(j) /\ Clover!IsABag(job[j].del) /\ Clover!IsABag(job[j].add)
                       /\ Clover!IsABag(clover[job[j].order].lines) /\ Clover!IsABag(job[j].lines)
    BY <1>17, OwnLines, LastPushIsPrimary DEF PushesBags, Clover!SaveHash, Clover!At
  <2>3. Calm' /\ LastPush(j) => FilledRight(clover, job[j])
    BY CalmBefore DEF PushesFilled
  <2>4. job[j].status = "running"
    BY <1>17 DEF PushesControlled, PlacedRight, Clover!SaveHash, Clover!At
  <2>5. /\ job'[j].pc = "idle" /\ job'[j].order = job[j].order /\ job'[j].lines = job[j].lines
        /\ job[j].pc = "save" /\ clover' = clover
    BY <1>17, ItCompletes DEF Clover!SaveHash, Clover!At
  <2>10. ASSUME Calm', LastPush(j) PROVE FilledRight(clover', job'[j])
    BY <2>3, <2>5, <2>10 DEF FilledRight, LinesRight
  <2> QED BY <2>1, <2>10, MoveFilled
<1>18. ASSUME NEW j \in DOMAIN job, Clover!Claim(j) PROVE PushesFilled'
  <2>1. ItMoves(j) /\ Touches(j) /\ ~Clover!Ended(j)
    BY <1>18, ClaimMoves, ClaimTouches, ItIsActive DEF PushesControlled
  <2>2. clover[job[j].order].paid /\ clover' = clover
    BY <1>18 DEF PushesNamed, NamedRight, Clover!Claim, Clover!At
  <2>3. job'[j].order = job[j].order
    <3>1. ASSUME NEW b, job' = [job EXCEPT ![j].pc = "bill", ![j].sig = b]
          PROVE  job'[j].order = job[j].order
      BY <3>1, ItClaims
    <3> QED BY <1>18, <3>1, ItGoes DEF Clover!Claim, Clover!BillWith
  <2> QED BY <2>1, <2>2, <2>3, MoveFilled DEF FilledRight
<1>19. ASSUME NEW j \in DOMAIN job, Clover!Bill(j) PROVE PushesFilled'
  <2>1. ItMoves(j) /\ Touches(j) /\ ~Clover!Ended(j)
    BY <1>19, BillMoves, BillTouches, ItIsActive DEF PushesControlled
  <2>2. clover[job[j].order].paid /\ clover' = clover
    BY <1>19 DEF PushesNamed, NamedRight, Clover!Bill, Clover!At
  <2>3. job'[j].order = job[j].order
    <3>1. ASSUME NEW b, job' = [job EXCEPT ![j].pc = "enqueue", ![j].bill = b]
          PROVE  job'[j].order = job[j].order
      BY <3>1, ItBills
    <3> QED BY <1>19, <3>1, ItGoes DEF Clover!Bill, Clover!BillWith
  <2> QED BY <2>1, <2>2, <2>3, MoveFilled DEF FilledRight
<1>20. ASSUME NEW j \in DOMAIN job, Clover!EnqueueSupplement(j) PROVE PushesFilled'
  <2> DEFINE s == Clover!Supp(job[j].sig)
  <2>1. /\ DOMAIN job' = DOMAIN job \cup {s} /\ UNCHANGED clover
        /\ \A k \in DOMAIN job \ {j} : job'[k] = job[k]
        /\ job'[j] = [job[j] EXCEPT !.pc = "save"] /\ job[j].pc = "enqueue"
    BY <1>20 DEF Clover!EnqueueSupplement, Clover!At
  <2>2. job'[j].order = job[j].order /\ clover[job[j].order].paid
    BY <2>1 DEF PushesShaped, JobFields, PushesNamed, NamedRight
  <2>3. \A v \in Nat \ {0} : s # Clover!Push(v)
    BY DEF Clover!Supp, Clover!Push
  <2> HIDE DEF s
  <2>4. ASSUME Calm', NEW k \in DOMAIN job', LastPush(k)' PROVE FilledRight(clover', job'[k])
    <3>1. k \in DOMAIN job /\ LastPush(k)
      BY <2>1, <2>3, <2>4 DEF LastPush
    <3>2. CASE k = j
      BY <2>1, <2>2, <3>2 DEF FilledRight
    <3>3. CASE k # j
      BY <2>1, <2>4, <3>1, <3>3, CalmBefore DEF PushesFilled
    <3> QED BY <3>2, <3>3
  <2> QED BY <2>4 DEF PushesFilled
<1>21. ASSUME NEW o \in Ids, Clover!Pay(o) PROVE PushesFilled'
  <2>1. /\ UNCHANGED job /\ \A p \in Ids : clover'[p].lines = clover[p].lines
        /\ \A p \in Ids : clover[p].paid => clover'[p].paid
    BY <1>21 DEF PushesShaped, Clover!Pay
  <2>2. \A k : LastPush(k)' <=> LastPush(k)
    BY <2>1 DEF LastPush
  <2>3. ASSUME Calm', NEW k \in DOMAIN job, LastPush(k) PROVE FilledRight(clover', job[k])
    <3>1. FilledRight(clover, job[k])
      BY <2>3, CalmBefore DEF PushesFilled
    <3>2. CASE job[k].order \in Ids
      BY <2>1, <3>1, <3>2 DEF FilledRight
    <3>3. CASE job[k].order \notin Ids
      <4>1. job[k].step # 2
        BY <3>3 DEF PushesNamed, NamedRight
      <4>2. job[k].pc \notin {"delete", "bulk", "total", "save"} /\ job[k].status # "completed"
        BY <4>1 DEF PushesControlled, PlacedRight, FirstStep
      <4> QED BY <4>2, BlankFilled
    <3> QED BY <3>2, <3>3
  <2> QED BY <2>1, <2>2, <2>3 DEF PushesFilled
<1>22. CASE UNCHANGED Clover!vars
  <2>1. UNCHANGED <<clover, job>>
    BY <1>22 DEF Clover!vars
  <2>2. \A k : LastPush(k)' <=> LastPush(k)
    BY <2>1 DEF LastPush
  <2> QED BY <2>1, <2>2, CalmBefore DEF PushesFilled
<1> QED BY <1>1, <1>2, <1>3, <1>4, <1>5, <1>6, <1>7, <1>8, <1>9, <1>10, <1>11, <1>12, <1>13,
           <1>14, <1>15, <1>16, <1>17, <1>18, <1>19, <1>20, <1>21, <1>22 DEF Clover!Next

\* The inductive invariant.
PushesInv ==
  /\ PushesShaped /\ PushesControlled /\ PushesNamed /\ PushesInTurn /\ PushesOnce /\ PushesBags /\ PushesFilled

LEMMA PushesInvInit == ASSUME PushesGiven, Clover!Init PROVE PushesInv
<1>1. /\ DOMAIN job = {} /\ row.ticket = None /\ row.supplements = {} /\ row.hash = 0
      /\ DOMAIN row = {"ticket", "hash", "error", "seed", "supplements"}
      /\ \A o \in Ids : clover[o] = Clover!NoOrder
      /\ DOMAIN clover = Ids
  BY DEF Clover!Init
<1>2. \A v : Clover!Push(v) # None
  BY DEF PushesGiven, Clover!Push
<1>3. PushesShaped
  BY <1>1 DEF PushesShaped, Clover!NoOrder
<1>4. PushesControlled
  BY <1>1 DEF PushesGiven, PushesControlled
<1>5. PushesNamed
  BY <1>1 DEF PushesNamed, RowNamed
<1>6. PushesInTurn /\ PushesFilled
  BY <1>1 DEF PushesInTurn, PushesFilled
<1>7. PushesOnce /\ PushesBags
  BY <1>1, <1>2, NoOrderIsBlank, BagOfNone DEF PushesOnce, PushesBags, Clover!Made
<1> QED BY <1>3, <1>4, <1>5, <1>6, <1>7 DEF PushesInv

LEMMA PushesInvStep ==
  ASSUME PushesGiven, PushesInv, [Clover!Next]_(Clover!vars) PROVE PushesInv'
<1>1. PushesShaped' /\ PushesControlled' /\ Grows /\ Spent
  BY PushesShapedStep, PushesControlledStep, GrowsStep, SpentStep DEF PushesInv
<1>2. PushesNamed' /\ PushesInTurn' /\ PushesOnce' /\ PushesBags'
  BY <1>1, PushesNamedStep, PushesInTurnStep, PushesOnceStep, PushesBagsStep DEF PushesInv
<1>3. PushesFilled'
  BY <1>1, PushesFilledStep DEF PushesInv
<1> QED BY <1>1, <1>2, <1>3 DEF PushesInv

\* create-order.ts, reconcile-items.ts: a push keeps to its places, its order and its lines,
\* whatever is lost, crashes or is put back.
THEOREM PushesAreInv == PushesGiven => (Clover!Spec => []PushesInv)
<1> SUFFICES ASSUME PushesGiven PROVE Clover!Spec => []PushesInv
  OBVIOUS
<1> USE PushesInvInit, PushesInvStep
<1> QED BY PTL DEF Clover!Spec

\* create-order.ts:16-23, create-supplemental-order.ts:14-15: unless a lookup failed or two
\* versions were under way together, a push or a supplement opens one Clover order.
THEOREM PushOneOrderEach == PushesGiven => (Clover!Spec => []Clover!OneOrderEach)
<1>1. PushesInv => Clover!OneOrderEach
  BY DEF PushesInv, PushesOnce, Clover!OneOrderEach
<1> QED BY <1>1, PushesAreInv, PTL

\* reconcile-items.ts:110-114: when the last push completed and nothing was paid, Clover has
\* exactly its lines, each once, whatever the attempts before it left half done.
THEOREM PushLinesConverge == PushesGiven => (Clover!Spec => []Clover!LinesConverge)
<1> SUFFICES ASSUME PushesGiven PROVE Clover!Spec => []Clover!LinesConverge
  OBVIOUS
<1>1. PushesInv => Clover!LinesConverge
  <2> SUFFICES ASSUME PushesInv, Clover!Settled, Calm, \A o \in Clover!Made : ~clover[o].paid,
                      job[Clover!Push(Clover!Latest)].status = "completed"
               PROVE  clover[job[Clover!Push(Clover!Latest)].order].lines = Versions[Clover!Latest]
    BY DEF Clover!LinesConverge, Calm
  <2> DEFINE n == Clover!Latest
             j == Clover!Push(n)
  <2>1. n \in 0 .. Len(Versions) /\ \A v \in Nat \ {0} : Clover!Push(v) \in DOMAIN job <=> v <= n
    BY LatestPush DEF PushesInv
  <2>2. n \in 1 .. Len(Versions) /\ j \in DOMAIN job /\ Clover!Push(n + 1) \notin DOMAIN job
    BY <2>1 DEF PushesGiven, Clover!Settled
  <2>3. LastPush(j) /\ Clover!Primary(j)
    BY <2>2, LastPushIsPrimary DEF LastPush, PushesGiven
  <2>4. /\ job[j].order \in Ids /\ clover[job[j].order].ref = Clover!Push(1) /\ job[j].lines = Versions[n]
    BY <2>2, <2>3, OwnLines DEF PushesInv, PushesControlled
  <2>5. ~clover[job[j].order].paid
    BY <2>4 DEF Clover!Made, PushesGiven, Clover!Push
  <2>6. FilledRight(clover, job[j])
    BY <2>2, <2>3 DEF PushesInv, PushesFilled
  <2>7. job[j].status = "completed"
    OBVIOUS
  <2>8. clover[job[j].order].lines = Versions[n] => clover[job[Clover!Push(Clover!Latest)].order].lines = Versions[Clover!Latest]
    OBVIOUS
  <2> HIDE DEF n, j
  <2>9. LinesRight(clover[job[j].order].lines, job[j])
    BY <2>5, <2>6 DEF FilledRight
  <2> QED BY <2>4, <2>7, <2>8, <2>9 DEF LinesRight
<1> QED BY <1>1, PushesAreInv, PTL

=============================================================================
