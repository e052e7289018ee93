----------------------------- MODULE RosterMulti -----------------------------
(***************************************************************************)
(* Omnivore fetch_employees of a business with one connection per          *)
(* location.  MCM keeps one row per PIN; each location has its own roster, *)
(* so a PIN may belong to the same person in several locations or to       *)
(* different persons.  The locations are asked side by side, each with a   *)
(* time limit; what one that does not answer had said before is kept.      *)
(* Nobody is deactivated here.                                             *)
(***************************************************************************)
EXTENDS Naturals, FiniteSets

CONSTANTS
  Locations,  \* by number, as MCM numbers them
  Pins, People,
  Alike,    \* pairs of different people whose names pass for the same person's
  Faults,   \* bound: how many of Kinds happen in one behaviour
  None

\* What may happen besides the code's own steps, each kind once.
Kinds == {"hire", "hire2", "leave", "promote", "demote", "admin", "late", "cut", "cut2", "dies"}

VARIABLES
  staff,   \* who has each PIN in each location's Omnivore, and whether as a manager, or None
  row,     \* the row of each PIN, or None
  pull,    \* the pull under way: the answers, the rows it read
  admins,  \* history: PINs the owner made admin
  used     \* the kinds that happened

vars == <<staff, row, pull, admins, used>>

Entry   == [who : People, boss : BOOLEAN] \cup {None}
Row     == [holders : [Locations -> Entry], role : {"waiter", "manager", "admin"}, conflict : BOOLEAN]
Resting == [pc |-> "idle", of |-> [l \in Locations |-> "asked"],
            got |-> [l \in Locations |-> [n \in Pins |-> None]], rows |-> [n \in Pins |-> None]]

TypeOK ==
  /\ staff \in [Locations -> [Pins -> Entry]] /\ \A n \in Pins : row[n] # None => row[n] \in Row
  /\ pull.pc \in {"idle", "asking", "read", "pulled"} /\ admins \subseteq Pins /\ used \subseteq Kinds

Init ==
  /\ staff \in [Locations -> [Pins -> [who : People, boss : {TRUE}]]]
  /\ row = [n \in Pins |-> None] /\ pull = Resting /\ admins = {} /\ used = {}

Happens(k) == k \in Kinds \ used /\ Cardinality(used) < Faults /\ used' = used \cup {k}

---------------------------------------------------------------------------
(* The locations and the owner.                                            *)

RosterChanges ==
  /\ \E l \in Locations, n \in Pins :
       \/ /\ (Happens("hire") \/ Happens("hire2"))
          /\ \E p \in People, b \in BOOLEAN : /\ staff[l][n] = None
                                              /\ staff' = [staff EXCEPT ![l][n] = [who |-> p, boss |-> b]]
       \/ staff[l][n] # None /\ Happens("leave") /\ staff' = [staff EXCEPT ![l][n] = None]
       \/ staff[l][n] # None /\ staff[l][n].boss /\ Happens("demote") /\ staff' = [staff EXCEPT ![l][n].boss = FALSE]
       \/ staff[l][n] # None /\ ~staff[l][n].boss /\ Happens("promote") /\ staff' = [staff EXCEPT ![l][n].boss = TRUE]
  /\ UNCHANGED <<row, pull, admins>>

\* "late" while a pull holds the rows it read.
OwnerMakesAdmin ==
  /\ \E n \in Pins :
       /\ row[n] # None /\ row[n].role # "admin" /\ Happens(IF pull.pc = "read" THEN "late" ELSE "admin")
       /\ row' = [row EXCEPT ![n].role = "admin"] /\ admins' = admins \cup {n}
  /\ UNCHANGED <<staff, pull>>

---------------------------------------------------------------------------
(* forEachConnection, and the merge.                                       *)

Begin ==
  /\ pull.pc = "idle" /\ pull' = [Resting EXCEPT !.pc = "asking"]
  /\ UNCHANGED <<staff, row, admins, used>>

\* A location answers, or fails or exceeds its time; the others are not kept waiting.
Answer(l) ==
  /\ pull.pc = "asking" /\ pull.of[l] = "asked"
  /\ \/ pull' = [pull EXCEPT !.of[l] = "answered", !.got[l] = staff[l]] /\ UNCHANGED used
     \/ (Happens("cut") \/ Happens("cut2")) /\ pull' = [pull EXCEPT !.of[l] = "failed"]
  /\ UNCHANGED <<staff, row, admins>>

Failed == {l \in Locations : pull.of[l] = "failed"}

\* Who holds a PIN where: as answered, and as known of the locations that failed.
Holders(rows, n) ==
  [l \in Locations |-> IF l \notin Failed THEN pull.got[l][n]
                       ELSE IF rows[n] = None THEN None ELSE rows[n].holders[l]]

Held(h)    == {l \in Locations : h[l] # None}
First(h)   == CHOOSE l \in Held(h) : \A k \in Held(h) : l <= k
Same(p, q) == p = q \/ <<p, q>> \in Alike

\* mergeRosters, employeeRow: each holder is compared with the first by location.
Merged(h, prev) ==
  LET same  == \A l \in Held(h) : Same(h[l].who, h[First(h)].who)
      boss  == IF same THEN \E l \in Held(h) : h[l].boss ELSE \A l \in Held(h) : h[l].boss
  IN [holders |-> h, conflict |-> ~same,
      role |-> IF prev # None /\ prev.role = "admin" THEN "admin" ELSE IF boss THEN "manager" ELSE "waiter"]

\* Every location failed: the job fails and is run again.
ReadRows ==
  /\ pull.pc = "asking" /\ \A l \in Locations : pull.of[l] # "asked"
  /\ pull' = IF Failed = Locations THEN Resting ELSE [pull EXCEPT !.pc = "read", !.rows = row]
  /\ UNCHANGED <<staff, row, admins, used>>

\* One statement for the rows that changed; a PIN no location lists is left alone.
Upsert ==
  /\ pull.pc = "read"
  /\ row' = [n \in Pins |->
       LET h == Holders(pull.rows, n)
       IN IF Held(h) # {} /\ Merged(h, pull.rows[n]) # pull.rows[n] THEN Merged(h, pull.rows[n]) ELSE row[n]]
  /\ pull' = [pull EXCEPT !.pc = "pulled"]
  /\ UNCHANGED <<staff, admins, used>>

Leave ==
  /\ \/ pull.pc = "pulled" /\ UNCHANGED used
     \/ pull.pc \in {"asking", "read"} /\ Happens("dies")
  /\ pull' = Resting
  /\ UNCHANGED <<staff, row, admins>>

Next ==
  \/ RosterChanges \/ OwnerMakesAdmin
  \/ Begin \/ (\E l \in Locations : Answer(l)) \/ ReadRows \/ Upsert \/ Leave

Spec == Init /\ [][Next]_vars

---------------------------------------------------------------------------

\* employees-multi.ts: a location that did not answer takes nobody's place away:
\* whoever a row had there is still there after the pull.
NobodyLosesALocation ==
  pull.pc = "pulled" =>
    \A n \in Pins, l \in Failed :
      pull.rows[n] # None /\ pull.rows[n].holders[l] # None => row[n].holders[l] = pull.rows[n].holders[l]

\* A PIN opens as a manager for somebody who could not pass for its holder in the
\* first location only if each of its holders is one, those last known in a location
\* that was cut off included: what another location says of them is no excuse.
SharedPinIsNoManager ==
  \A n \in Pins :
    row[n] # None /\ row[n].role = "manager" =>
      LET h == row[n].holders
      IN (\E l \in Held(h) : ~Same(h[l].who, h[First(h)].who)) => \A l \in Held(h) : h[l].boss

\* Does not hold.  employees-multi.ts says it of people who differ from one another; the
\* code compares each with the first location's, and of three names two that pass for
\* the first's may differ.
StrangersShareNoManager ==
  \A n \in Pins :
    row[n] # None /\ row[n].role = "manager" =>
      LET h == row[n].holders
      IN (\E l, k \in Held(h) : ~Same(h[l].who, h[k].who)) => \A l \in Held(h) : h[l].boss

\* The owner's admin stays one, but for one made under a pull that read the row.
AdminStays == "late" \notin used => \A n \in admins : row[n].role = "admin"
=============================================================================
