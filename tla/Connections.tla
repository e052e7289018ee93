----------------------------- MODULE Connections -----------------------------
(***************************************************************************)
(* Which Omnivore a job of a business talks to.  A business has one row of *)
(* its own and may have one per location, which takes from the business    *)
(* what it leaves empty.  An order of a location seals its connection when *)
(* it is enqueued; everything else asks for the connection of the business. *)
(* Jobs of a worker share a cache of what they read; injection reads past  *)
(* it.  The syncs keep the schedule of the stock by location.              *)
(***************************************************************************)
EXTENDS Naturals, FiniteSets

CONSTANTS
  Locations,  \* a location and its Aloha have one name
  Elsewhere,  \* another Aloha
  Jobs,       \* among an injection ("inject") and a payment ("pay") of one order
  Lanes,      \* syncs that may run side by side
  MaxCalls,   \* bound: calls of a job
  Faults,     \* bound: how many of Kinds happen in one behaviour
  None

\* What may happen besides the code's own steps, each kind once.
Kinds == {"connect", "connect2", "off", "on", "fix", "move", "stock", "stock2", "expire", "expire2", "dies"}

Business == 0
Ids      == Locations \cup {Business}

VARIABLES
  conn,   \* site_integrations: the row of the business and of each location, or None
  cache,  \* the cached connection of the business, and the cached rows, or None
  job,    \* of each of Jobs
  sync,   \* of each lane
  sched,  \* the fetch_stock schedule
  used    \* the kinds that happened

vars == <<conn, cache, job, sync, sched, used>>

Row     == [active : BOOLEAN, pos : Locations \cup {Elsewhere, None}, key : {0, 1, None}, stock : BOOLEAN \cup {None}]
Rows    == [Ids -> Row \cup {None}]
NoJob   == [pc |-> "none", seal |-> None, got |-> None, conf |-> None, floor |-> 0, talked |-> {}, calls |-> 0]
Resting == [pc |-> "idle", rows |-> [i \in Ids |-> None], status |-> "none", one |-> FALSE, calm |-> TRUE]

TypeOK ==
  /\ \A i \in Ids : conn[i] # None => conn[i] \in Row
  /\ \A k \in Jobs : /\ job[k].pc \in {"none", "queued", "started", "read", "resolved", "failed"}
                     /\ job[k].talked \subseteq Locations \cup {Elsewhere, None}
  /\ \A s \in Lanes : sync[s].pc \in {"idle", "loaded", "looked", "ended"}
  /\ sched \in {"none", "active", "disabled"} /\ used \subseteq Kinds

Connected(l) == [active |-> TRUE, pos |-> l, key |-> None, stock |-> None]

Init ==
  /\ \E p \in Locations \cup {None}, L \in SUBSET Locations :
       conn = [i \in Ids |-> CASE i = Business -> [active |-> TRUE, pos |-> p, key |-> 0, stock |-> FALSE]
                              [] i \in L -> Connected(i)
                              [] OTHER -> None]
  /\ cache = [one |-> None, rows |-> None] /\ job = [k \in Jobs |-> NoJob]
  /\ sync = [s \in Lanes |-> Resting] /\ sched = "none" /\ used = {}

Happens(k) == k \in Kinds \ used /\ Cardinality(used) < Faults /\ used' = used \cup {k}

---------------------------------------------------------------------------
(* credentials.ts: choosing among the rows.                                *)

Active(rows) == {i \in Ids : rows[i] # None /\ rows[i].active}

\* mergeConnectionConfig: what a location leaves empty is the business's.
Effective(rows, i) ==
  IF i = Business THEN rows[i]
  ELSE [f \in DOMAIN rows[i] |-> IF rows[i][f] = None THEN rows[Business][f] ELSE rows[i][f]]

\* pickConnection: the row asked for, active or not; with none asked for the only
\* active one as it is, or the business's among several, and otherwise no answer.
Pick(rows, asked) ==
  CASE asked # None                            -> Effective(rows, asked)
    [] asked = None /\ Business \in Active(rows) -> rows[Business]
    [] OTHER -> IF Cardinality(Active(rows)) = 1 THEN rows[CHOOSE i \in Active(rows) : TRUE] ELSE None

\* buildConnectionSet: the active locations, if there are any.
Multi(rows)       == Active(rows) \ {Business} # {}
Connections(rows) == {Effective(rows, i) : i \in Active(rows) \ {Business}}
WantsStock(rows)  == \E c \in Connections(rows) : c.stock = TRUE

---------------------------------------------------------------------------
(* The manager and the edge function that enqueues.                        *)

Edit(i, f, v) == conn' = [conn EXCEPT ![i][f] = v]

ManagerEdits ==
  /\ \E i \in Ids :
       \/ /\ (Happens("connect") \/ Happens("connect2")) /\ conn[i] = None
          /\ conn' = [conn EXCEPT ![i] = Connected(i)]
       \/ i \in Active(conn) /\ Happens("off") /\ Edit(i, "active", FALSE)
       \/ conn[i] # None /\ ~conn[i].active /\ Happens("on") /\ Edit(i, "active", TRUE)
       \/ conn[i] # None /\ Happens("fix") /\ conn' = [j \in Ids |->
            IF conn[j] = None \/ conn[j].key = None THEN conn[j] ELSE [conn[j] EXCEPT !.key = 1]]
       \/ conn[i] # None /\ Happens("move") /\ Edit(i, "pos", Elsewhere)
       \/ /\ (Happens("stock") \/ Happens("stock2")) /\ conn[i] # None
          /\ \E v \in BOOLEAN \cup (IF i = Business THEN {} ELSE {None}) : conn[i].stock # v /\ Edit(i, "stock", v)
  /\ sync' = [s \in Lanes |-> [sync[s] EXCEPT !.calm = FALSE]]
  /\ UNCHANGED <<cache, job, sched>>

\* An order of a connected location is sealed with its connection and its Aloha.
\* payment_injection reads no seal.
Enqueue(k) ==
  /\ job[k].pc = "none"
  /\ \/ ~Multi(conn) /\ job' = [job EXCEPT ![k].pc = "queued"]
     \/ \E l \in Active(conn) \ {Business} : job' = [job EXCEPT ![k].pc = "queued",
          ![k].seal = IF k = "inject" THEN [id |-> l, pos |-> Effective(conn, l).pos] ELSE None]
  /\ UNCHANGED <<conn, cache, sync, sched, used>>

---------------------------------------------------------------------------
(* getSiteIntegrationConfig and a step of either job.                      *)

Asked(k) == IF job[k].seal = None THEN None ELSE job[k].seal.id

\* A step, or its retry, begins; floor is the newest key when it did.
Start(k) ==
  /\ job[k].pc \in {"queued", "failed"} /\ job[k].calls < MaxCalls
  /\ job' = [job EXCEPT ![k].pc = "started",
             ![k].floor = IF \E i \in Ids : conn[i] # None /\ conn[i].key = 1 THEN 1 ELSE 0]
  /\ UNCHANGED <<conn, cache, sync, sched, used>>

\* Injection asks for the rows whatever is cached.
ReadsCache(k) == k # "inject" /\ cache.one # None

Read(k) ==
  /\ job[k].pc = "started"
  /\ job' = [job EXCEPT ![k].pc = "read", ![k].got = IF ReadsCache(k) THEN cache.one ELSE Pick(conn, Asked(k))]
  /\ UNCHANGED <<conn, cache, sync, sched, used>>

Sealed(k) == IF job[k].seal = None THEN job[k].got ELSE [job[k].got EXCEPT !.pos = job[k].seal.pos]

\* The answer is cached when it arrives, and injection puts the sealed Aloha in it;
\* without a key or an Aloha the step fails, until somebody has it run again.
Resolve(k) ==
  /\ job[k].pc = "read"
  /\ LET usable == job[k].got # None /\ Sealed(k).key # None /\ Sealed(k).pos # None
     IN job' = [job EXCEPT ![k].pc = IF usable THEN "resolved" ELSE "failed",
                           ![k].conf = IF usable THEN Sealed(k) ELSE None]
  /\ cache' = IF job[k].got # None /\ Asked(k) = None THEN [cache EXCEPT !.one = job[k].got] ELSE cache
  /\ UNCHANGED <<conn, sync, sched, used>>

\* The step talks to the POS; the next step, or the retry of this one, starts over.
Talk(k) ==
  /\ job[k].pc = "resolved"
  /\ job' = [job EXCEPT ![k].pc = "queued", ![k].conf = None, ![k].got = None, ![k].talked = @ \cup {job[k].conf.pos}, ![k].calls = @ + 1]
  /\ UNCHANGED <<conn, cache, sync, sched, used>>

\* 60 seconds after it was filled, or by invalidateCredentialsCache.
Expire ==
  /\ \E c \in {"one", "rows"} :
       cache[c] # None /\ (Happens("expire") \/ Happens("expire2")) /\ cache' = [cache EXCEPT ![c] = None]
  /\ UNCHANGED <<conn, job, sync, sched>>

---------------------------------------------------------------------------
(* fetch_health and fetch_products: a business with locations keeps the    *)
(* schedule of their stock; a sync of one connection does not.             *)

Load(s) ==
  /\ sync[s].pc = "idle"
  /\ LET rows == IF cache.rows # None THEN cache.rows ELSE conn
     IN \E one \in BOOLEAN :
          /\ cache' = [cache EXCEPT !.rows = rows]
          /\ sync' = [sync EXCEPT ![s] = [Resting EXCEPT !.pc = IF Multi(rows) /\ ~one THEN "loaded" ELSE "ended",
                                          !.rows = rows, !.one = one, !.calm = rows = conn]]
  /\ UNCHANGED <<conn, job, sched, used>>

Look(s) ==
  /\ sync[s].pc = "loaded" /\ sync' = [sync EXCEPT ![s].pc = "looked", ![s].status = sched]
  /\ UNCHANGED <<conn, cache, job, sched, used>>

\* ensureStockSchedule, after the look.
Ensure(s) ==
  /\ sync[s].pc = "looked"
  /\ sched' = CASE WantsStock(sync[s].rows) /\ sync[s].status # "active"  -> "active"
                [] ~WantsStock(sync[s].rows) /\ sync[s].status = "active" -> "disabled"
                [] OTHER -> sched
  /\ sync' = [t \in Lanes |->
       CASE t = s -> [sync[t] EXCEPT !.pc = "ended"]
         [] OTHER -> [sync[t] EXCEPT !.calm = @ /\ sync[s].rows = conn]]
  /\ UNCHANGED <<conn, cache, job, used>>

End(s) ==
  /\ \/ sync[s].pc = "ended" /\ UNCHANGED used
     \/ sync[s].pc \in {"loaded", "looked"} /\ Happens("dies")
  /\ sync' = [sync EXCEPT ![s] = Resting]
  /\ UNCHANGED <<conn, cache, job, sched>>

Next ==
  \/ ManagerEdits \/ Expire
  \/ (\E k \in Jobs : Enqueue(k) \/ Start(k) \/ Read(k) \/ Resolve(k) \/ Talk(k))
  \/ (\E s \in Lanes : Load(s) \/ Look(s) \/ Ensure(s) \/ End(s))

Spec == Init /\ [][Next]_vars

---------------------------------------------------------------------------

\* connection.ts: every step and retry of a sealed injection talks to one Aloha,
\* whatever the manager moves, switches off or connects meanwhile.
OneAloha == \A k \in Jobs : job[k].seal # None => Cardinality(job[k].talked) <= 1

\* credentials.ts:138: an attempt that starts after the manager corrected the key
\* uses the corrected one.
FixIsUsed ==
  \A k \in Jobs \cap {"inject"} : job[k].pc = "resolved" => job[k].conf.key >= job[k].floor

\* The same of a payment.  Does not hold: payment_injection reads through the cache.
PaymentUsesFix ==
  \A k \in Jobs \cap {"pay"} : job[k].pc = "resolved" => job[k].conf.key >= job[k].floor

\* After a sync that read the connections as they are, the stock by location is
\* scheduled if and only if one of them asks for it, itself or by the business.
StockFollowsConnections ==
  \A s \in Lanes :
    sync[s].pc = "ended" /\ sync[s].calm /\ ~sync[s].one /\ Multi(conn) => (sched = "active" <=> WantsStock(conn))

\* connections.ts:161: the schedule exists only while locations are connected.  Does not
\* hold: a sync of a business left with no location does not touch it.
StockEndsWithLocations ==
  \A s \in Lanes : sync[s].pc = "ended" /\ sync[s].calm /\ ~Multi(conn) => sched # "active"
=============================================================================
