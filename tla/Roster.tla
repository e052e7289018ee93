------------------------------- MODULE Roster -------------------------------
(***************************************************************************)
(* The roster pulls, clover and omnivore fetch_employees of a site with    *)
(* one connection.  A row of employees is a PIN that opens the POS in MCM. *)
(* A pull upserts the rows of those the POS lists, reactivates the ones it *)
(* had deactivated and deactivates those gone, unless too many are gone;   *)
(* Clover reactivates row by row, Omnivore within the upsert.  Meanwhile   *)
(* people are hired, leave and change their PIN, and the owner edits rows. *)
(***************************************************************************)
EXTENDS Naturals, FiniteSets

CONSTANTS
  People, Pins,
  Pos,        \* "clover" or "omnivore"
  Cap,        \* rows one pull may deactivate (EMPLEADOS_MERMA_ABS, OMNI_ARCHIVE_MAX_SHRINK_ABS)
  Faults,     \* bound: how many of Kinds happen in one behaviour
  None

\* What may happen besides the code's own steps, each kind once.
Kinds == {"hire", "leave", "return", "rotate", "promote", "native", "suspend", "lift", "late",
          "short", "dies", "leave2"}

VARIABLES
  staff,    \* whom the POS lists: PIN and role of each, or None
  row,      \* the row of each PIN, or None
  pull,     \* the pull under way: what it fetched, the rows it read, what is left
  stopped,  \* history: PINs the owner suspended by hand while the person is listed
  used      \* the kinds that happened

vars == <<staff, row, pull, stopped, used>>

Row     == [who : People \cup {None}, role : {"waiter", "manager", "admin"}, active : BOOLEAN, absent : BOOLEAN]
Resting == [pc |-> "idle", live |-> None, rows |-> None, left |-> {}, calm |-> TRUE]

TypeOK ==
  /\ \A p \in People : staff[p] # None => staff[p] \in [pin : Pins, boss : BOOLEAN]
  /\ \A n \in Pins : row[n] # None => row[n] \in Row
  /\ pull.pc \in {"idle", "fetched", "reactivating", "deactivating", "pulled"}
  /\ stopped \subseteq Pins /\ used \subseteq Kinds

Happens(k) == k \in Kinds \ used /\ Cardinality(used) < Faults /\ used' = used \cup {k}
Free(n)    == n \notin {staff[p].pin : p \in {q \in People : staff[q] # None}}

Init ==
  /\ LET pin == CHOOSE f \in [People -> Pins] : \A p, q \in People : p # q => f[p] # f[q]
     IN staff = [p \in People |-> [pin |-> pin[p], boss |-> FALSE]]
  /\ row = [n \in Pins |-> None]
  /\ pull = Resting /\ stopped = {} /\ used = {}

---------------------------------------------------------------------------
(* The POS and the owner.                                                  *)

Disturb == pull' = [pull EXCEPT !.calm = FALSE]

RosterChanges ==
  /\ \E p \in People :
       \/ staff[p] # None /\ (Happens("leave") \/ Happens("leave2")) /\ staff' = [staff EXCEPT ![p] = None]
       \/ \E n \in Pins : /\ staff[p] = None /\ Free(n) /\ (Happens("hire") \/ Happens("return"))
                          /\ staff' = [staff EXCEPT ![p] = [pin |-> n, boss |-> FALSE]]
       \/ \E n \in Pins : /\ staff[p] # None /\ Free(n) /\ Happens("rotate")
                          /\ staff' = [staff EXCEPT ![p].pin = n]
       \/ staff[p] # None /\ Happens("promote") /\ staff' = [staff EXCEPT ![p].boss = TRUE]
  /\ stopped' = {n \in stopped : \E p \in People : staff'[p] # None /\ staff'[p].pin = n}
  /\ Disturb /\ UNCHANGED row

\* The owner adds somebody the POS does not know, makes an admin, suspends a
\* PIN or lifts it.  What the sync noted on the row stays.
OwnerEdits ==
  /\ \E n \in Pins :
       \/ /\ row[n] = None /\ Happens("native")
          /\ \E r \in {"waiter", "admin"} :
               row' = [row EXCEPT ![n] = [who |-> None, role |-> r, active |-> TRUE, absent |-> FALSE]]
          /\ UNCHANGED stopped
       \/ /\ row[n] # None /\ row[n].active /\ Happens(IF pull.pc = "idle" THEN "suspend" ELSE "late")
          /\ row' = [row EXCEPT ![n].active = FALSE]
          /\ stopped' = IF Free(n) THEN stopped ELSE stopped \cup {n}
       \/ /\ row[n] # None /\ ~row[n].active /\ Happens("lift")
          /\ row' = [row EXCEPT ![n].active = TRUE] /\ stopped' = stopped \ {n}
  /\ Disturb /\ UNCHANGED staff

---------------------------------------------------------------------------
(* The pull.                                                               *)

\* "short" is a list that misses somebody and passes for complete.
Fetch ==
  /\ pull.pc = "idle"
  /\ \/ UNCHANGED used /\ pull' = [Resting EXCEPT !.pc = "fetched", !.live = staff]
     \/ \E p \in People : /\ staff[p] # None /\ Happens("short")
                          /\ pull' = [Resting EXCEPT !.pc = "fetched", !.live = [staff EXCEPT ![p] = None], !.calm = FALSE]
  /\ UNCHANGED <<staff, row, stopped>>

Listed(live)    == {p \in People : live[p] # None}
LivePins(live)  == {live[p].pin : p \in Listed(live)}
Holder(live, n) == CHOOSE p \in Listed(live) : live[p].pin = n

\* mapRole: an admin of MCM stays one.
RoleOf(entry, prev) ==
  IF prev # None /\ prev.role = "admin" THEN "admin" ELSE IF entry.boss THEN "manager" ELSE "waiter"
Upserted(live, n, prev) ==
  LET p == Holder(live, n)
  IN IF prev = None THEN [who |-> p, role |-> RoleOf(live[p], prev), active |-> TRUE, absent |-> FALSE]
     ELSE [prev EXCEPT !.who = p, !.role = RoleOf(live[p], prev)]

\* Wrong variant, for the tests of the properties: whoever is listed comes back.
ReturnsAll(live, rows) == {n \in LivePins(live) : rows[n] # None /\ ~rows[n].active}

\* Only who the sync itself deactivated comes back.
Returns(live, rows) == {n \in LivePins(live) : rows[n] # None /\ ~rows[n].active /\ rows[n].absent}
Writes(live, rows)  == {n \in LivePins(live) : rows[n] = None \/ Upserted(live, n, rows[n]) # rows[n]}

\* One statement for the rows that changed.  Columns only some of the rows give
\* are null in the others, and is_active may not be null: with Omnivore a row
\* that reactivates fails the whole statement unless every row does.
Upsert ==
  LET live   == pull.live
      back   == IF Pos = "omnivore" THEN Returns(live, row) ELSE {}
      writes == Writes(live, row) \cup back
  IN /\ pull.pc = "fetched"
     /\ IF back # {} /\ writes # back
        THEN pull' = Resting /\ UNCHANGED row
        ELSE /\ row' = [n \in Pins |->
                  IF n \in back THEN [Upserted(live, n, row[n]) EXCEPT !.active = TRUE, !.absent = FALSE]
                  ELSE IF n \in writes THEN Upserted(live, n, row[n]) ELSE row[n]]
             /\ pull' = [pull EXCEPT !.pc = "reactivating", !.rows = row,
                                     !.left = IF Pos = "clover" THEN Returns(live, row) ELSE {}]
     /\ UNCHANGED <<staff, stopped, used>>

Reactivate ==
  /\ pull.pc = "reactivating"
  /\ \E n \in pull.left :
       /\ row' = [row EXCEPT ![n].active = TRUE, ![n].absent = FALSE]
       /\ pull' = [pull EXCEPT !.left = @ \ {n}]
  /\ UNCHANGED <<staff, stopped, used>>

Managed(rows) == {n \in Pins : rows[n] # None /\ rows[n].who # None}

\* Wrong variant, for the tests of the properties: a PIN is kept while its person is listed.
LeaversByPerson(live, rows) == {n \in Managed(rows) : rows[n].who \notin Listed(live) /\ rows[n].active}

\* Rows of the POS whose PIN it no longer lists.
Leavers(live, rows)  == {n \in Managed(rows) : n \notin LivePins(live) /\ rows[n].active}

\* bajasSonSeguras counts the leavers; omniArchiveIsSafe compares the list with
\* every row that ever came from the POS, deactivated ones included.
LeavingIsSafe(live, rows) ==
  /\ Listed(live) # {} /\ Managed(rows) # {}
  /\ IF Pos = "clover" THEN Cardinality(Leavers(live, rows)) <= Cap
     ELSE Cardinality(Managed(rows)) <= Cardinality(Listed(live)) + Cap

BeginDeactivate ==
  /\ pull.pc = "reactivating" /\ pull.left = {}
  /\ pull' = [pull EXCEPT !.pc = "deactivating",
                          !.left = IF LeavingIsSafe(pull.live, pull.rows) THEN Leavers(pull.live, pull.rows) ELSE {}]
  /\ UNCHANGED <<staff, row, stopped, used>>

Deactivate ==
  /\ pull.pc = "deactivating"
  /\ \E n \in pull.left :
       /\ row' = [row EXCEPT ![n].active = FALSE, ![n].absent = TRUE]
       /\ pull' = [pull EXCEPT !.left = @ \ {n}]
  /\ UNCHANGED <<staff, stopped, used>>

EndPull ==
  /\ pull.pc = "deactivating" /\ pull.left = {}
  /\ pull' = [pull EXCEPT !.pc = "pulled"]
  /\ UNCHANGED <<staff, row, stopped, used>>

Leave ==
  /\ \/ pull.pc = "pulled" /\ UNCHANGED used
     \/ pull.pc \in {"reactivating", "deactivating"} /\ Happens("dies")
  /\ pull' = Resting
  /\ UNCHANGED <<staff, row, stopped>>

Next ==
  \/ RosterChanges \/ OwnerEdits
  \/ Fetch \/ Upsert \/ Reactivate \/ BeginDeactivate \/ Deactivate \/ EndPull \/ Leave

Spec == Init /\ [][Next]_vars

---------------------------------------------------------------------------

\* fetch-employees.ts: a pull nobody disturbed leaves no PIN of the POS open that
\* the POS does not list, a rotated one included, when few enough are to close.
NoOrphanPin ==
  pull.pc = "pulled" /\ pull.calm /\ LeavingIsSafe(pull.live, pull.rows) =>
    \A n \in Managed(row) : row[n].active => n \in LivePins(staff)

\* A PIN the owner suspended by hand stays closed while the person is listed.  A
\* suspension under a pull that already read the row, and a row the owner had
\* opened again by hand after the sync closed it, are not protected.
SuspendedStays ==
  used \cap {"late", "lift"} = {} => \A n \in stopped : ~row[n].active

\* Does not hold for Omnivore.  The guard is about one pull: one leaver at a time is always closed.
LeaversClosed ==
  pull.pc = "pulled" /\ pull.calm /\ Listed(pull.live) # {} /\ Cardinality(Leavers(pull.live, pull.rows)) <= Cap =>
    \A n \in Leavers(pull.live, pull.rows) : ~row[n].active
=============================================================================
